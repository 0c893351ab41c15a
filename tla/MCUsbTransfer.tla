---------------------------- MODULE MCUsbTransfer ----------------------------
(* Small instances of UsbTransfer, with packets twice the size of a response  *)
(* header: answers that are a header only, that fill one packet, that spill   *)
(* into a second one and that fill two.                                       *)
EXTENDS UsbTransfer, TLC

CONSTANTS c0, c1, c2, c3

MCRespLen == (c0 :> 0) @@ (c1 :> 1) @@ (c2 :> 2) @@ (c3 :> 3)
MCInSizes == 0 .. 6
=============================================================================
