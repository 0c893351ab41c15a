-------------------------- MODULE MCKernelTransfer ---------------------------
(* Two processes and three commands: quick, slow, and slow in version 1;     *)
(* buffers that fit none, some or all answers.                               *)
EXTENDS KernelTransfer, TLC

CONSTANTS p1, p2, quick, slow, slow1

MCRespLen == (quick :> 2) @@ (slow :> 1) @@ (slow1 :> 0)
=============================================================================
