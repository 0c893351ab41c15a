----------------------------- MODULE MCServoSpi ------------------------------
(* Small instances of ServoSpi: two commands with answers of different       *)
(* lengths, buffers that fit none, one or both.                              *)
EXTENDS ServoSpi, TLC

CONSTANTS c1, c2

MCRespLen == (c1 :> 1) @@ (c2 :> 2)
MCInSizes == {0, 1, 2}
=============================================================================
