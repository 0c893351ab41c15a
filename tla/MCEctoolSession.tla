--------------------------- MODULE MCEctoolSession ---------------------------
(* Small instances of EctoolSession: two processes that start again and     *)
(* again, a lock timeout of one and a half pauses.                          *)
EXTENDS EctoolSession

CONSTANTS p1, p2, p3

MCTimeouts == {3}
MCSameDir == {LockDir}

\* --interface lpc, i2c, servo, dev or --device, and no option at all.
MCNamed == {{"LPC"}, {"I2C"}, {"SERVO"}, {"DEV"}, {"USB"}, COMM_ALL}
MCDefault == {COMM_ALL}
=============================================================================
