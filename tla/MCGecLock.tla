------------------------------ MODULE MCGecLock ------------------------------
(* Small instances of GecLock: two or three processes, a pause of two time  *)
(* units, and timeouts that are and are not a multiple of it.               *)
EXTENDS GecLock

CONSTANTS p1, p2, p3

\* No wait, shorter than one pause, longer than one, negative.
MCTimeouts == {0, 1, 3, -1}

\* No timeout, and no wait for the other process to hold the lock.
MCNegative == {-1, 0}

\* /run/lock is there from boot: every process finds the same lockfile.
MCSameDir == {LockDir, {SYSTEM_LOCKFILE_DIR}}
=============================================================================
