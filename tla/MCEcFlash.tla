----------------------------- MODULE MCEcFlash ------------------------------
(* Small instances of EcFlash: three flash locations, reads of two and       *)
(* writes of up to three at a time; calls inside, across the end of, and as  *)
(* large as the flash; write sizes that are nothing, one unit, two, or too   *)
(* large for a command.                                                      *)
EXTENDS EcFlash

MCOffsets == {0, 1}
MCSizes == {0, 1, 3, 4}
MCWriteSizes == {0, 1, 2, 4}
=============================================================================
