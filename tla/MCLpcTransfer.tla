---------------------------- MODULE MCLpcTransfer ----------------------------
(* Small instances of LpcTransfer: two commands with answers of different   *)
(* lengths and one too big to send; buffers that fit neither, one or both.  *)
EXTENDS LpcTransfer, TLC

CONSTANTS c1, c2, c3

MCRespLen == (c1 :> 1) @@ (c2 :> 2) @@ (c3 :> 1)
MCInSizes == {0, 1, 2}

\* A protocol 3 answer does not say which command it answers: an EC that
\* drops commands is modelled with protocol 2 only.
MCEcs == {[proto |-> 2, drops |-> d] : d \in BOOLEAN}
           \cup {[proto |-> 3, drops |-> FALSE]}
=============================================================================
