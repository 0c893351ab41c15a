---------------------------- MODULE GecLockProofs ----------------------------
(***************************************************************************)
(* Proofs about the GEC lock, for any number of processes, any timeouts    *)
(* and any number of interrupted pauses.                                   *)
(***************************************************************************)
EXTENDS GecLock, TLAPS

USE DEF MayOpen, Free, Pause, AfterPause, TimeUp

\* fd is open exactly while the lock is being waited for or is held, and on a
\* lockfile some state of the host's directories led to.
FdInv(p) ==
  /\ at[p] # "idle" => fd[p] # NoDir
  /\ at[p] \in {"flock", "sleep"} => ~is_held[p]
  /\ at[p] \in {"truncate", "write"} => is_held[p]
  /\ at[p] = "idle" /\ outcome[p] = "acquired" => is_held[p]
  /\ fd[p] # NoDir => \E D \in DirStates : fd[p] = PickDir(D)

\* What has been slept and what may still be slept stay within the timeout.
WaitInv(p) ==
  /\ at[p] \in {"flock", "sleep"} =>
       /\ timeout[p] <= 0 => remaining[p] = timeout[p] /\ waited[p] = 0
       /\ timeout[p] > 0 => remaining[p] >= 0 /\ interval[p] >= 0
                            /\ interval[p] <= SLEEP_INTERVAL_MS
  /\ at[p] = "flock" /\ timeout[p] > 0 => waited[p] + remaining[p] <= timeout[p]
  /\ at[p] = "sleep" /\ timeout[p] <= 0 => left[p] < 0
  /\ at[p] = "sleep" /\ timeout[p] > 0 =>
       /\ left[p] >= 0 /\ left[p] <= SLEEP_INTERVAL_MS
       /\ waited[p] + left[p] <= timeout[p]
       /\ remaining[p] >= SLEEP_INTERVAL_MS =>
            waited[p] + left[p] + remaining[p] - SLEEP_INTERVAL_MS <= timeout[p]
  /\ timeout[p] > 0 => waited[p] <= timeout[p]
  /\ timeout[p] <= 0 => waited[p] <= 0

\* Without interruptions the time slept and the time that remains add up.
ExactInv(p) ==
  /\ at[p] # "idle" => outcome[p] # "timedout"
  /\ signals[p] = 0 /\ timeout[p] > 0 =>
       /\ at[p] = "flock" => /\ waited[p] + remaining[p] = timeout[p]
                             /\ interval[p] = SLEEP_INTERVAL_MS
       /\ at[p] = "sleep" =>
            /\ waited[p] + remaining[p] = timeout[p]
            /\ interval[p] = left[p]
            /\ left[p] = IF remaining[p] < SLEEP_INTERVAL_MS THEN remaining[p]
                         ELSE SLEEP_INTERVAL_MS
  /\ outcome[p] = "timedout" /\ signals[p] = 0 => waited[p] = timeout[p]

LockInv ==
  /\ LockTypeOK
  /\ HeldMatchesFlock
  /\ \A p \in Proc : FdInv(p)
  /\ \A p \in Proc : WaitInv(p)
  /\ \A p \in Proc : ExactInv(p)

\* The lock directory a process picks is one of the two, or none.
LEMMA PickDirType == \A D \in SUBSET LockDir : PickDir(D) \in LockDir \cup {NoDir}
  BY DEF PickDir, LockDir, SYSTEM_LOCKFILE_DIR, FALLBACK_DIR, NoDir

\* A closed fd is on no lock directory.
LEMMA NoDirIsNone == NoDir \notin LockDir
  BY DEF LockDir, SYSTEM_LOCKFILE_DIR, FALLBACK_DIR, NoDir

-----------------------------------------------------------------------------
\* No step of the lock breaks its typing.
LEMMA TypeStep == LockTypeOK /\ [LockNext]_lockVars => LockTypeOK'
<1> SUFFICES ASSUME LockTypeOK, [LockNext]_lockVars PROVE LockTypeOK'
  OBVIOUS
<1> USE NoProcAssumption, IntervalAssumption, TimeoutsAssumption,
        SignalsAssumption, DirStatesAssumption, PickDirType
    DEF LockTypeOK, Stage, Outcome
<1>1. ASSUME NEW p \in Proc, AcquireHeld(p) PROVE LockTypeOK'
  BY <1>1 DEF AcquireHeld, kernelVars, structVars, waitVars
<1>2. ASSUME NEW p \in Proc, OpenFails(p) PROVE LockTypeOK'
  BY <1>2 DEF OpenFails, kernelVars, structVars, waitVars
<1>3. ASSUME NEW p \in Proc, NEW t \in Timeouts, OpenOrCreate(p, t) PROVE LockTypeOK'
  BY <1>3 DEF OpenOrCreate, kernelVars, structVars, waitVars
<1>4. ASSUME NEW p \in Proc, FlockTaken(p) PROVE LockTypeOK'
  BY <1>4 DEF FlockTaken, kernelVars, structVars, waitVars
<1>5. ASSUME NEW p \in Proc, FlockBusyNoWait(p) PROVE LockTypeOK'
  BY <1>5 DEF FlockBusyNoWait, GiveUp, kernelVars, structVars, waitVars
<1>6. ASSUME NEW p \in Proc, FlockBusy(p) PROVE LockTypeOK'
  BY <1>6 DEF FlockBusy, kernelVars, structVars, waitVars
<1>7. ASSUME NEW p \in Proc, FlockError(p) PROVE LockTypeOK'
  BY <1>7 DEF FlockError, GiveUp, kernelVars, structVars, waitVars
<1>8. ASSUME NEW p \in Proc, SleepInterrupted(p) PROVE LockTypeOK'
  BY <1>8 DEF SleepInterrupted, kernelVars, structVars, waitVars
<1>9. ASSUME NEW p \in Proc, SleepRejected(p) PROVE LockTypeOK'
  BY <1>9 DEF SleepRejected, GiveUp, kernelVars, structVars, waitVars
<1>10. ASSUME NEW p \in Proc, SleepDone(p) PROVE LockTypeOK'
  BY <1>10 DEF SleepDone, kernelVars, structVars, waitVars
<1>11. ASSUME NEW p \in Proc, SleepTimesOut(p) PROVE LockTypeOK'
  BY <1>11 DEF SleepTimesOut, GiveUp, kernelVars, structVars, waitVars
<1>12. ASSUME NEW p \in Proc, TruncatePid(p) PROVE LockTypeOK'
  BY <1>12 DEF TruncatePid, kernelVars, structVars, waitVars
<1>13. ASSUME NEW p \in Proc, WritePid(p) PROVE LockTypeOK'
  BY <1>13 DEF WritePid, kernelVars, structVars, waitVars
<1>14. ASSUME NEW p \in Proc, WritePidFails(p) PROVE LockTypeOK'
  BY <1>14 DEF WritePidFails, kernelVars, structVars, waitVars
<1>15. ASSUME NEW p \in Proc, ReleaseHeld(p) PROVE LockTypeOK'
  BY <1>15 DEF ReleaseHeld, kernelVars, structVars, waitVars
<1>16. ASSUME NEW p \in Proc, ReleaseNotHeld(p) PROVE LockTypeOK'
  BY <1>16 DEF ReleaseNotHeld, kernelVars, structVars, waitVars
<1>17. ASSUME NEW p \in Proc, ProcessEnds(p) PROVE LockTypeOK'
  BY <1>17 DEF ProcessEnds, kernelVars, structVars, waitVars
<1>18. CASE DirChange \/ UNCHANGED lockVars
  BY <1>18 DEF DirChange, lockVars, kernelVars, structVars, waitVars
<1>19. QED 
  BY <1>1, <1>2, <1>3, <1>4, <1>5, <1>6, <1>7, <1>8, <1>9, <1>10, <1>11, <1>12,
     <1>13, <1>14, <1>15, <1>16, <1>17, <1>18
     DEF LockNext, AcquireLock, LockStep, ReleaseLock
-----------------------------------------------------------------------------
\* No step separates is_held from the owner of the flock.
LEMMA HeldStep ==
  LockInv /\ [LockNext]_lockVars => HeldMatchesFlock'
<1> SUFFICES ASSUME LockInv, [LockNext]_lockVars PROVE HeldMatchesFlock'
  OBVIOUS
<1> USE NoProcAssumption, NoDirIsNone DEF LockInv, LockTypeOK, HeldMatchesFlock, FdInv
<1>1. ASSUME NEW p \in Proc, AcquireHeld(p) PROVE HeldMatchesFlock'
  BY <1>1 DEF AcquireHeld, kernelVars, structVars, waitVars
<1>2. ASSUME NEW p \in Proc, OpenFails(p) PROVE HeldMatchesFlock'
  BY <1>2 DEF OpenFails, kernelVars, structVars, waitVars
<1>3. ASSUME NEW p \in Proc, NEW t \in Timeouts, OpenOrCreate(p, t) PROVE HeldMatchesFlock'
  BY <1>3 DEF OpenOrCreate, kernelVars, structVars, waitVars
<1>4. ASSUME NEW p \in Proc, FlockTaken(p) PROVE HeldMatchesFlock'
  BY <1>4 DEF FlockTaken, kernelVars, structVars, waitVars
<1>5. ASSUME NEW p \in Proc, FlockBusyNoWait(p) PROVE HeldMatchesFlock'
  BY <1>5 DEF FlockBusyNoWait, GiveUp, kernelVars, structVars, waitVars
<1>6. ASSUME NEW p \in Proc, FlockBusy(p) PROVE HeldMatchesFlock'
  BY <1>6 DEF FlockBusy, kernelVars, structVars, waitVars
<1>7. ASSUME NEW p \in Proc, FlockError(p) PROVE HeldMatchesFlock'
  BY <1>7 DEF FlockError, GiveUp, kernelVars, structVars, waitVars
<1>8. ASSUME NEW p \in Proc, SleepInterrupted(p) PROVE HeldMatchesFlock'
  BY <1>8 DEF SleepInterrupted, kernelVars, structVars, waitVars
<1>9. ASSUME NEW p \in Proc, SleepRejected(p) PROVE HeldMatchesFlock'
  BY <1>9 DEF SleepRejected, GiveUp, kernelVars, structVars, waitVars
<1>10. ASSUME NEW p \in Proc, SleepDone(p) PROVE HeldMatchesFlock'
  BY <1>10 DEF SleepDone, kernelVars, structVars, waitVars
<1>11. ASSUME NEW p \in Proc, SleepTimesOut(p) PROVE HeldMatchesFlock'
  BY <1>11 DEF SleepTimesOut, GiveUp, kernelVars, structVars, waitVars
<1>12. ASSUME NEW p \in Proc, TruncatePid(p) PROVE HeldMatchesFlock'
  BY <1>12 DEF TruncatePid, kernelVars, structVars, waitVars
<1>13. ASSUME NEW p \in Proc, WritePid(p) PROVE HeldMatchesFlock'
  BY <1>13 DEF WritePid, kernelVars, structVars, waitVars
<1>14. ASSUME NEW p \in Proc, WritePidFails(p) PROVE HeldMatchesFlock'
  BY <1>14 DEF WritePidFails, kernelVars, structVars, waitVars
<1>15. ASSUME NEW p \in Proc, ReleaseHeld(p) PROVE HeldMatchesFlock'
  BY <1>15 DEF ReleaseHeld, kernelVars, structVars, waitVars
<1>16. ASSUME NEW p \in Proc, ReleaseNotHeld(p) PROVE HeldMatchesFlock'
  BY <1>16 DEF ReleaseNotHeld, kernelVars, structVars, waitVars
<1>17. ASSUME NEW p \in Proc, ProcessEnds(p) PROVE HeldMatchesFlock'
  BY <1>17 DEF ProcessEnds, kernelVars, structVars, waitVars
<1>18. CASE DirChange \/ UNCHANGED lockVars
  BY <1>18 DEF DirChange, lockVars, kernelVars, structVars, waitVars
<1>19. QED 
  BY <1>1, <1>2, <1>3, <1>4, <1>5, <1>6, <1>7, <1>8, <1>9, <1>10, <1>11, <1>12,
     <1>13, <1>14, <1>15, <1>16, <1>17, <1>18
     DEF LockNext, AcquireLock, LockStep, ReleaseLock

\* No step leaves acquire_lock() with an fd that does not match its stage.
LEMMA FdStep ==
  LockInv /\ [LockNext]_lockVars => (\A p \in Proc : FdInv(p))'
<1> SUFFICES ASSUME LockInv, [LockNext]_lockVars PROVE (\A p \in Proc : FdInv(p))'
  OBVIOUS
<1> USE NoDirIsNone, DirStatesAssumption DEF LockInv, LockTypeOK, FdInv
<1>1. ASSUME NEW p \in Proc, AcquireHeld(p) PROVE (\A q \in Proc : FdInv(q))'
  BY <1>1 DEF AcquireHeld, kernelVars, structVars, waitVars
<1>2. ASSUME NEW p \in Proc, OpenFails(p) PROVE (\A q \in Proc : FdInv(q))'
  BY <1>2 DEF OpenFails, kernelVars, structVars, waitVars
<1>3. ASSUME NEW p \in Proc, NEW t \in Timeouts, OpenOrCreate(p, t) PROVE (\A q \in Proc : FdInv(q))'
  BY <1>3 DEF OpenOrCreate, kernelVars, structVars, waitVars
<1>4. ASSUME NEW p \in Proc, FlockTaken(p) PROVE (\A q \in Proc : FdInv(q))'
  BY <1>4 DEF FlockTaken, kernelVars, structVars, waitVars
<1>5. ASSUME NEW p \in Proc, FlockBusyNoWait(p) PROVE (\A q \in Proc : FdInv(q))'
  BY <1>5 DEF FlockBusyNoWait, GiveUp, kernelVars, structVars, waitVars
<1>6. ASSUME NEW p \in Proc, FlockBusy(p) PROVE (\A q \in Proc : FdInv(q))'
  BY <1>6 DEF FlockBusy, kernelVars, structVars, waitVars
<1>7. ASSUME NEW p \in Proc, FlockError(p) PROVE (\A q \in Proc : FdInv(q))'
  BY <1>7 DEF FlockError, GiveUp, kernelVars, structVars, waitVars
<1>8. ASSUME NEW p \in Proc, SleepInterrupted(p) PROVE (\A q \in Proc : FdInv(q))'
  BY <1>8 DEF SleepInterrupted, kernelVars, structVars, waitVars
<1>9. ASSUME NEW p \in Proc, SleepRejected(p) PROVE (\A q \in Proc : FdInv(q))'
  BY <1>9 DEF SleepRejected, GiveUp, kernelVars, structVars, waitVars
<1>10. ASSUME NEW p \in Proc, SleepDone(p) PROVE (\A q \in Proc : FdInv(q))'
  BY <1>10 DEF SleepDone, kernelVars, structVars, waitVars
<1>11. ASSUME NEW p \in Proc, SleepTimesOut(p) PROVE (\A q \in Proc : FdInv(q))'
  BY <1>11 DEF SleepTimesOut, GiveUp, kernelVars, structVars, waitVars
<1>12. ASSUME NEW p \in Proc, TruncatePid(p) PROVE (\A q \in Proc : FdInv(q))'
  BY <1>12 DEF TruncatePid, kernelVars, structVars, waitVars
<1>13. ASSUME NEW p \in Proc, WritePid(p) PROVE (\A q \in Proc : FdInv(q))'
  BY <1>13 DEF WritePid, kernelVars, structVars, waitVars
<1>14. ASSUME NEW p \in Proc, WritePidFails(p) PROVE (\A q \in Proc : FdInv(q))'
  BY <1>14 DEF WritePidFails, kernelVars, structVars, waitVars
<1>15. ASSUME NEW p \in Proc, ReleaseHeld(p) PROVE (\A q \in Proc : FdInv(q))'
  BY <1>15 DEF ReleaseHeld, kernelVars, structVars, waitVars
<1>16. ASSUME NEW p \in Proc, ReleaseNotHeld(p) PROVE (\A q \in Proc : FdInv(q))'
  BY <1>16 DEF ReleaseNotHeld, kernelVars, structVars, waitVars
<1>17. ASSUME NEW p \in Proc, ProcessEnds(p) PROVE (\A q \in Proc : FdInv(q))'
  BY <1>17 DEF ProcessEnds, kernelVars, structVars, waitVars
<1>18. CASE DirChange \/ UNCHANGED lockVars
  BY <1>18 DEF DirChange, lockVars, kernelVars, structVars, waitVars
<1>19. QED 
  BY <1>1, <1>2, <1>3, <1>4, <1>5, <1>6, <1>7, <1>8, <1>9, <1>10, <1>11, <1>12,
     <1>13, <1>14, <1>15, <1>16, <1>17, <1>18
     DEF LockNext, AcquireLock, LockStep, ReleaseLock

\* No step of the polling loop lets the time slept exceed the timeout.
LEMMA WaitStep ==
  LockInv /\ [LockNext]_lockVars => (\A p \in Proc : WaitInv(p))'
<1> SUFFICES ASSUME LockInv, [LockNext]_lockVars PROVE (\A p \in Proc : WaitInv(p))'
  OBVIOUS
<1> USE IntervalAssumption, TimeoutsAssumption DEF LockInv, LockTypeOK, WaitInv
<1>1. ASSUME NEW p \in Proc, AcquireHeld(p) PROVE (\A q \in Proc : WaitInv(q))'
  BY <1>1 DEF AcquireHeld, kernelVars, structVars, waitVars
<1>2. ASSUME NEW p \in Proc, OpenFails(p) PROVE (\A q \in Proc : WaitInv(q))'
  BY <1>2 DEF OpenFails, kernelVars, structVars, waitVars
<1>3. ASSUME NEW p \in Proc, NEW t \in Timeouts, OpenOrCreate(p, t) PROVE (\A q \in Proc : WaitInv(q))'
  BY <1>3 DEF OpenOrCreate, kernelVars, structVars, waitVars
<1>4. ASSUME NEW p \in Proc, FlockTaken(p) PROVE (\A q \in Proc : WaitInv(q))'
  BY <1>4 DEF FlockTaken, kernelVars, structVars, waitVars
<1>5. ASSUME NEW p \in Proc, FlockBusyNoWait(p) PROVE (\A q \in Proc : WaitInv(q))'
  BY <1>5 DEF FlockBusyNoWait, GiveUp, kernelVars, structVars, waitVars
<1>6. ASSUME NEW p \in Proc, FlockBusy(p) PROVE (\A q \in Proc : WaitInv(q))'
  BY <1>6 DEF FlockBusy, kernelVars, structVars, waitVars
<1>7. ASSUME NEW p \in Proc, FlockError(p) PROVE (\A q \in Proc : WaitInv(q))'
  BY <1>7 DEF FlockError, GiveUp, kernelVars, structVars, waitVars
<1>8. ASSUME NEW p \in Proc, SleepInterrupted(p) PROVE (\A q \in Proc : WaitInv(q))'
  BY <1>8 DEF SleepInterrupted, kernelVars, structVars, waitVars
<1>9. ASSUME NEW p \in Proc, SleepRejected(p) PROVE (\A q \in Proc : WaitInv(q))'
  BY <1>9 DEF SleepRejected, GiveUp, kernelVars, structVars, waitVars
<1>10. ASSUME NEW p \in Proc, SleepDone(p) PROVE (\A q \in Proc : WaitInv(q))'
  BY <1>10 DEF SleepDone, kernelVars, structVars, waitVars
<1>11. ASSUME NEW p \in Proc, SleepTimesOut(p) PROVE (\A q \in Proc : WaitInv(q))'
  BY <1>11 DEF SleepTimesOut, GiveUp, kernelVars, structVars, waitVars
<1>12. ASSUME NEW p \in Proc, TruncatePid(p) PROVE (\A q \in Proc : WaitInv(q))'
  BY <1>12 DEF TruncatePid, kernelVars, structVars, waitVars
<1>13. ASSUME NEW p \in Proc, WritePid(p) PROVE (\A q \in Proc : WaitInv(q))'
  BY <1>13 DEF WritePid, kernelVars, structVars, waitVars
<1>14. ASSUME NEW p \in Proc, WritePidFails(p) PROVE (\A q \in Proc : WaitInv(q))'
  BY <1>14 DEF WritePidFails, kernelVars, structVars, waitVars
<1>15. ASSUME NEW p \in Proc, ReleaseHeld(p) PROVE (\A q \in Proc : WaitInv(q))'
  BY <1>15 DEF ReleaseHeld, kernelVars, structVars, waitVars
<1>16. ASSUME NEW p \in Proc, ReleaseNotHeld(p) PROVE (\A q \in Proc : WaitInv(q))'
  BY <1>16 DEF ReleaseNotHeld, kernelVars, structVars, waitVars
<1>17. ASSUME NEW p \in Proc, ProcessEnds(p) PROVE (\A q \in Proc : WaitInv(q))'
  BY <1>17 DEF ProcessEnds, kernelVars, structVars, waitVars
<1>18. CASE DirChange \/ UNCHANGED lockVars
  BY <1>18 DEF DirChange, lockVars, kernelVars, structVars, waitVars
<1>19. QED 
  BY <1>1, <1>2, <1>3, <1>4, <1>5, <1>6, <1>7, <1>8, <1>9, <1>10, <1>11, <1>12,
     <1>13, <1>14, <1>15, <1>16, <1>17, <1>18
     DEF LockNext, AcquireLock, LockStep, ReleaseLock

\* Uninterrupted, every pause takes from the remaining time what it sleeps.
LEMMA ExactStep ==
  LockInv /\ [LockNext]_lockVars => (\A p \in Proc : ExactInv(p))'
<1> SUFFICES ASSUME LockInv, [LockNext]_lockVars PROVE (\A p \in Proc : ExactInv(p))'
  OBVIOUS
<1> USE IntervalAssumption, TimeoutsAssumption DEF LockInv, LockTypeOK, WaitInv, ExactInv
<1>1. ASSUME NEW p \in Proc, AcquireHeld(p) PROVE (\A q \in Proc : ExactInv(q))'
  BY <1>1 DEF AcquireHeld, kernelVars, structVars, waitVars
<1>2. ASSUME NEW p \in Proc, OpenFails(p) PROVE (\A q \in Proc : ExactInv(q))'
  BY <1>2 DEF OpenFails, kernelVars, structVars, waitVars
<1>3. ASSUME NEW p \in Proc, NEW t \in Timeouts, OpenOrCreate(p, t) PROVE (\A q \in Proc : ExactInv(q))'
  BY <1>3 DEF OpenOrCreate, kernelVars, structVars, waitVars
<1>4. ASSUME NEW p \in Proc, FlockTaken(p) PROVE (\A q \in Proc : ExactInv(q))'
  BY <1>4 DEF FlockTaken, kernelVars, structVars, waitVars
<1>5. ASSUME NEW p \in Proc, FlockBusyNoWait(p) PROVE (\A q \in Proc : ExactInv(q))'
  BY <1>5 DEF FlockBusyNoWait, GiveUp, kernelVars, structVars, waitVars
<1>6. ASSUME NEW p \in Proc, FlockBusy(p) PROVE (\A q \in Proc : ExactInv(q))'
  BY <1>6 DEF FlockBusy, kernelVars, structVars, waitVars
<1>7. ASSUME NEW p \in Proc, FlockError(p) PROVE (\A q \in Proc : ExactInv(q))'
  BY <1>7 DEF FlockError, GiveUp, kernelVars, structVars, waitVars
<1>8. ASSUME NEW p \in Proc, SleepInterrupted(p) PROVE (\A q \in Proc : ExactInv(q))'
  BY <1>8 DEF SleepInterrupted, kernelVars, structVars, waitVars
<1>9. ASSUME NEW p \in Proc, SleepRejected(p) PROVE (\A q \in Proc : ExactInv(q))'
  BY <1>9 DEF SleepRejected, GiveUp, kernelVars, structVars, waitVars
<1>10. ASSUME NEW p \in Proc, SleepDone(p) PROVE (\A q \in Proc : ExactInv(q))'
  BY <1>10 DEF SleepDone, kernelVars, structVars, waitVars
<1>11. ASSUME NEW p \in Proc, SleepTimesOut(p) PROVE (\A q \in Proc : ExactInv(q))'
  BY <1>11 DEF SleepTimesOut, GiveUp, kernelVars, structVars, waitVars
<1>12. ASSUME NEW p \in Proc, TruncatePid(p) PROVE (\A q \in Proc : ExactInv(q))'
  BY <1>12 DEF TruncatePid, kernelVars, structVars, waitVars
<1>13. ASSUME NEW p \in Proc, WritePid(p) PROVE (\A q \in Proc : ExactInv(q))'
  BY <1>13 DEF WritePid, kernelVars, structVars, waitVars
<1>14. ASSUME NEW p \in Proc, WritePidFails(p) PROVE (\A q \in Proc : ExactInv(q))'
  BY <1>14 DEF WritePidFails, kernelVars, structVars, waitVars
<1>15. ASSUME NEW p \in Proc, ReleaseHeld(p) PROVE (\A q \in Proc : ExactInv(q))'
  BY <1>15 DEF ReleaseHeld, kernelVars, structVars, waitVars
<1>16. ASSUME NEW p \in Proc, ReleaseNotHeld(p) PROVE (\A q \in Proc : ExactInv(q))'
  BY <1>16 DEF ReleaseNotHeld, kernelVars, structVars, waitVars
<1>17. ASSUME NEW p \in Proc, ProcessEnds(p) PROVE (\A q \in Proc : ExactInv(q))'
  BY <1>17 DEF ProcessEnds, kernelVars, structVars, waitVars
<1>18. CASE DirChange \/ UNCHANGED lockVars
  BY <1>18 DEF DirChange, lockVars, kernelVars, structVars, waitVars
<1>19. QED 
  BY <1>1, <1>2, <1>3, <1>4, <1>5, <1>6, <1>7, <1>8, <1>9, <1>10, <1>11, <1>12,
     <1>13, <1>14, <1>15, <1>16, <1>17, <1>18
     DEF LockNext, AcquireLock, LockStep, ReleaseLock

-----------------------------------------------------------------------------
\* The lock's initial states satisfy the inductive invariant.
LEMMA LockInitInv == LockInit => LockInv
<1> SUFFICES ASSUME LockInit PROVE LockInv
  OBVIOUS
<1> USE DEF LockInit
<1>1. LockTypeOK
  BY SignalsAssumption, DirStatesAssumption DEF LockTypeOK, Stage, Outcome
<1>2. HeldMatchesFlock
  BY NoProcAssumption DEF HeldMatchesFlock
<1>3. \A p \in Proc : FdInv(p)
  BY DEF FdInv
<1>4. ASSUME NEW p \in Proc PROVE WaitInv(p)
  <2>1. at[p] = "idle" /\ timeout[p] = 0 /\ waited[p] = 0
    OBVIOUS
  <2>2. QED BY <2>1 DEF WaitInv
<1>5. \A p \in Proc : ExactInv(p)
  BY DEF ExactInv
<1>6. QED BY <1>1, <1>2, <1>3, <1>4, <1>5 DEF LockInv

\* Every step of the lock preserves the inductive invariant.
LEMMA LockInvStep == LockInv /\ [LockNext]_lockVars => LockInv'
<1> SUFFICES ASSUME LockInv, [LockNext]_lockVars PROVE LockInv'
  OBVIOUS
<1>1. LockTypeOK'
  BY TypeStep DEF LockInv
<1>2. QED BY <1>1, HeldStep, FdStep, WaitStep, ExactStep DEF LockInv

\* Two holders own one flock each; a lockfile has one owner.
LEMMA HoldersShareNoFile ==
  LockInv => \A p, q \in Proc : is_held[p] /\ is_held[q] /\ fd[p] = fd[q] => p = q
  BY DEF LockInv, HeldMatchesFlock

\* Two holders would own the flock of one file between them.
LEMMA ExclusionFromInv ==
  LockInv /\ SameDirectory => MutualExclusion
<1> SUFFICES ASSUME LockInv, SameDirectory,
                    NEW p \in Proc, NEW q \in Proc, is_held[p], is_held[q]
             PROVE  p = q
  BY DEF MutualExclusion
<1>1. fd[p] \in LockDir /\ fd[q] \in LockDir
  BY DEF LockInv, HeldMatchesFlock
<1>2. PICK D \in DirStates : fd[p] = PickDir(D)
  BY <1>1, NoDirIsNone DEF LockInv, FdInv
<1>3. PICK E \in DirStates : fd[q] = PickDir(E)
  BY <1>1, NoDirIsNone DEF LockInv, FdInv
<1>4. fd[p] = fd[q]
  BY <1>1, <1>2, <1>3, NoDirIsNone DEF SameDirectory
<1>5. QED BY <1>4, HoldersShareNoFile

-----------------------------------------------------------------------------
(***************************************************************************)
(* Every state of the lock is well typed, through failures, time-outs and  *)
(* deaths of processes.                                                    *)
(***************************************************************************)
THEOREM LockTypeCorrect == LockSpec => []LockTypeOK
<1>1. LockInv => LockTypeOK BY DEF LockInv
<1>2. QED BY <1>1, LockInitInv, LockInvStep, PTL DEF LockSpec

(***************************************************************************)
(* In every state is_held says exactly whether the process owns the flock  *)
(* of the file its fd is open on, whatever failed and whoever died.        *)
(***************************************************************************)
THEOREM LockStateTruthful == LockSpec => []HeldMatchesFlock
<1>1. LockInv => HeldMatchesFlock BY DEF LockInv
<1>2. QED BY <1>1, LockInitInv, LockInvStep, PTL DEF LockSpec

(***************************************************************************)
(* The file lock is a binary semaphore for any set of processes, provided  *)
(* that they all find the lockfile in the same directory.                  *)
(***************************************************************************)
THEOREM LockExcludes == SameDirectory => (LockSpec => []MutualExclusion)
<1>1. SameDirectory /\ LockInv => MutualExclusion BY ExclusionFromInv
<1>2. QED
  <2> SUFFICES ASSUME SameDirectory PROVE LockSpec => []MutualExclusion
    OBVIOUS
  <2>1. LockInv => MutualExclusion BY <1>1
  <2>2. QED BY <2>1, LockInitInv, LockInvStep, PTL DEF LockSpec

(***************************************************************************)
(* acquire_lock() never sleeps past its timeout, however often its pauses  *)
(* are interrupted.                                                        *)
(***************************************************************************)
THEOREM LockWaitBounded == LockSpec => []WaitBounded
<1>1. ASSUME LockInv PROVE WaitBounded
  <2> SUFFICES ASSUME NEW p \in Proc
               PROVE  timeout[p] >= 0 => waited[p] <= timeout[p]
    BY DEF WaitBounded
  <2>1. timeout[p] \in Int /\ waited[p] \in Int
    BY <1>1 DEF LockInv, LockTypeOK
  <2>2. /\ timeout[p] > 0 => waited[p] <= timeout[p]
        /\ timeout[p] <= 0 => waited[p] <= 0
    BY <1>1 DEF LockInv, WaitInv
  <2>3. QED BY <2>1, <2>2
<1>2. QED BY <1>1, LockInitInv, LockInvStep, PTL DEF LockSpec

(***************************************************************************)
(* A time-out that no signal touched comes after the whole timeout.        *)
(***************************************************************************)
THEOREM LockTimesOutOnTime == LockSpec => []NoEarlyTimeout
<1>1. LockInv => NoEarlyTimeout
  BY DEF LockInv, ExactInv, NoEarlyTimeout
<1>2. QED BY <1>1, LockInitInv, LockInvStep, PTL DEF LockSpec

\* Only the two steps of file_lock_write_pid() write to a lockfile, and their
\* process owns its flock.
LEMMA PidStep == LockInv /\ [LockNext]_lockVars => PidWrittenByOwnerStep
<1> SUFFICES ASSUME LockInv, [LockNext]_lockVars PROVE PidWrittenByOwnerStep
  OBVIOUS
<1>1. ASSUME NEW p \in Proc, TruncatePid(p) \/ WritePid(p)
      PROVE  PidWrittenByOwnerStep
  <2>1. at[p] \in {"truncate", "write"}
    BY <1>1 DEF TruncatePid, WritePid
  <2>2. fd[p] \in LockDir /\ flock[fd[p]] = p
    BY <2>1 DEF LockInv, FdInv, HeldMatchesFlock
  <2>3. pidFile' = [pidFile EXCEPT ![fd[p]] = NoProc]
          \/ pidFile' = [pidFile EXCEPT ![fd[p]] = p]
    BY <1>1 DEF TruncatePid, WritePid
  <2>4. \A d \in LockDir : pidFile'[d] # pidFile[d]
                             => d = fd[p] /\ pidFile'[d] \in {NoProc, p}
    BY <2>3 DEF LockInv, LockTypeOK
  <2>5. QED BY <2>2, <2>4, NoProcAssumption DEF PidWrittenByOwnerStep
<1>2. CASE UNCHANGED pidFile
  BY <1>2 DEF PidWrittenByOwnerStep
<1>3. (\E p \in Proc : TruncatePid(p) \/ WritePid(p)) \/ UNCHANGED pidFile
  BY DEF LockNext, AcquireLock, AcquireHeld, OpenFails, OpenOrCreate, LockStep,
         FlockTaken, FlockBusyNoWait, FlockBusy, FlockError, GiveUp,
         SleepInterrupted, SleepRejected, SleepDone, SleepTimesOut,
         WritePidFails, ReleaseLock, ReleaseHeld, ReleaseNotHeld, ProcessEnds,
         DirChange, kernelVars, lockVars
<1>4. QED BY <1>1, <1>2, <1>3

(***************************************************************************)
(* Nobody writes into a lockfile that another process owns.                *)
(***************************************************************************)
THEOREM LockPidByOwner == LockSpec => PidWrittenByOwner
<1>1. QED BY LockInitInv, LockInvStep, PidStep, PTL DEF LockSpec, PidWrittenByOwner

-----------------------------------------------------------------------------
\* What is left of the timeout, as far as it counts.
Counted(r) == IF r < 0 THEN 0 ELSE r

\* What may still delay a process whose place is left out of account.
Rest(p) == MaxSignals - signals[p] + 2 * Counted(remaining[p])

\* What the measure is at each place of acquire_lock().
StepsLeftAt(p) ==
  /\ Rest(p) \in Nat
  /\ at[p] = "idle" => StepsLeft(p) = 0
  /\ at[p] = "flock" => StepsLeft(p) = 4 + Rest(p)
  /\ at[p] = "sleep" => StepsLeft(p) = 3 + Rest(p)
  /\ at[p] = "truncate" => StepsLeft(p) = 2 + Rest(p)
  /\ at[p] = "write" => StepsLeft(p) = 1 + Rest(p)

\* The measure is a natural number, given by the place and the rest.
LEMMA MeasureByPlace == LockTypeOK => \A p \in Proc : StepsLeftAt(p)
<1> SUFFICES ASSUME LockTypeOK, NEW p \in Proc PROVE StepsLeftAt(p)
  OBVIOUS
<1> DEFINE Place == CASE at[p] = "flock" -> 4 [] at[p] = "sleep" -> 3
                      [] at[p] = "truncate" -> 2 [] at[p] = "write" -> 1
<1>1. /\ at[p] = "flock" => Place = 4
      /\ at[p] = "sleep" => Place = 3
      /\ at[p] = "truncate" => Place = 2
      /\ at[p] = "write" => Place = 1
  OBVIOUS
<1>2. /\ MaxSignals \in Nat /\ signals[p] \in 0 .. MaxSignals
      /\ remaining[p] \in Int /\ Counted(remaining[p]) \in Nat
  BY SignalsAssumption DEF LockTypeOK, Counted
<1>3. at[p] # "idle" =>
        StepsLeft(p) = Place + (MaxSignals - signals[p]) + 2 * Counted(remaining[p])
  BY DEF StepsLeft, Counted
<1>4. at[p] = "idle" => StepsLeft(p) = 0
  BY DEF StepsLeft
<1> HIDE DEF Place
<1> QED BY <1>1, <1>2, <1>3, <1>4 DEF StepsLeftAt, Rest

\* A process that leaves acquire_lock() has no steps left in it.
LEMMA LeavingCloses ==
  ASSUME NEW p \in Proc, StepsLeftAt(p), StepsLeftAt(p)', at \in [Proc -> Stage],
         at[p] # "idle", at'[p] = "idle"
  PROVE  StepsLeft(p)' < StepsLeft(p) /\ StepsLeft(p)' = 0 /\ StepsLeft(p) \in Nat
BY DEF StepsLeftAt, Stage

\* With a timeout every step inside acquire_lock() leaves fewer of them, and not
\* fewer than none.
LEMMA LockStepCloses ==
  ASSUME NEW p \in Proc, LockTypeOK, StepsLeftAt(p), StepsLeftAt(p)', LockStep(p),
         timeout[p] >= 0
  PROVE  StepsLeft(p) \in Nat /\ StepsLeft(p)' \in Nat /\ StepsLeft(p)' < StepsLeft(p)
<1>1. at \in [Proc -> Stage] /\ remaining \in [Proc -> Int] /\ left \in [Proc -> Int]
      /\ signals \in [Proc -> 0 .. MaxSignals] /\ signals[p] \in Nat /\ MaxSignals \in Nat
      /\ remaining[p] \in Int /\ timeout[p] \in Int
  BY SignalsAssumption DEF LockTypeOK
<1>2. ASSUME at[p] # "idle", at'[p] = "idle"
      PROVE  StepsLeft(p) \in Nat /\ StepsLeft(p)' \in Nat /\ StepsLeft(p)' < StepsLeft(p)
  BY <1>1, <1>2, LeavingCloses
<1>3. CASE FlockTaken(p)
  <2>1. at[p] = "flock" /\ at'[p] = "truncate" /\ Rest(p)' = Rest(p)
    BY <1>1, <1>3 DEF FlockTaken, waitVars, Rest
  <2> QED BY <2>1 DEF StepsLeftAt
<1>4. CASE FlockBusy(p)
  <2>1. at[p] = "flock" /\ at'[p] = "sleep" /\ Rest(p)' = Rest(p)
    BY <1>1, <1>4 DEF FlockBusy, Rest
  <2> QED BY <2>1 DEF StepsLeftAt
<1>5. CASE SleepInterrupted(p)
  <2>1. at[p] = "sleep" /\ at'[p] = "sleep"
        /\ signals'[p] = signals[p] + 1 /\ remaining' = remaining
    BY <1>1, <1>5 DEF SleepInterrupted
  <2>2. Counted(remaining[p]) \in Nat /\ Counted(remaining'[p]) = Counted(remaining[p])
    BY <1>1, <2>1 DEF Counted
  <2>3. Rest(p)' = Rest(p) - 1
    BY <1>1, <2>1, <2>2 DEF Rest
  <2> QED BY <2>1, <2>3 DEF StepsLeftAt
<1>6. CASE SleepDone(p)
  <2>1. at[p] = "sleep" /\ at'[p] = "flock" /\ signals' = signals
        /\ remaining'[p] = remaining[p] - SLEEP_INTERVAL_MS
        /\ remaining[p] >= SLEEP_INTERVAL_MS
    BY <1>1, <1>6, IntervalAssumption DEF SleepDone
  <2>2. Counted(remaining'[p]) = Counted(remaining[p]) - SLEEP_INTERVAL_MS
        /\ Counted(remaining[p]) \in Nat
    BY <1>1, <2>1, IntervalAssumption DEF Counted
  <2>3. Rest(p)' = Rest(p) - 2 * SLEEP_INTERVAL_MS
    BY <1>1, <2>1, <2>2, IntervalAssumption DEF Rest
  <2> QED BY <2>1, <2>3, IntervalAssumption DEF StepsLeftAt
<1>7. CASE TruncatePid(p)
  <2>1. at[p] = "truncate" /\ at'[p] = "write" /\ Rest(p)' = Rest(p)
    BY <1>1, <1>7 DEF TruncatePid, waitVars, Rest
  <2> QED BY <2>1 DEF StepsLeftAt
<1>8. CASE \/ FlockBusyNoWait(p) \/ FlockError(p) \/ SleepRejected(p) \/ SleepTimesOut(p)
           \/ WritePid(p) \/ WritePidFails(p)
  <2>1. at[p] # "idle" /\ at'[p] = "idle"
    BY <1>1, <1>8 DEF FlockBusyNoWait, FlockError, SleepRejected, SleepTimesOut, GiveUp,
                      WritePid, WritePidFails
  <2> QED BY <1>2, <2>1
<1> QED BY <1>3, <1>4, <1>5, <1>6, <1>7, <1>8 DEF LockStep

\* What the others do leaves the measure of a process alone, unless it ends.
LEMMA OthersKeepMeasure ==
  ASSUME NEW p \in Proc, LockTypeOK, LockNext, ~LockStep(p), at[p] # "idle"
  PROVE  at'[p] = "idle" \/ (at'[p] = at[p] /\ Rest(p)' = Rest(p))
<1> USE DEF LockTypeOK
<1>1. ASSUME NEW q \in Proc, LockStep(q), q # p
      PROVE  at'[p] = at[p] /\ signals'[p] = signals[p] /\ remaining'[p] = remaining[p]
  BY <1>1 DEF LockStep, FlockTaken, FlockBusyNoWait, FlockBusy, FlockError, GiveUp,
              SleepInterrupted, SleepRejected, SleepDone, SleepTimesOut, TruncatePid,
              WritePid, WritePidFails, waitVars
<1>2. ASSUME NEW q \in Proc, AcquireLock(q) \/ ReleaseLock(q)
      PROVE  at'[p] = at[p] /\ signals'[p] = signals[p] /\ remaining'[p] = remaining[p]
  BY <1>2 DEF AcquireLock, AcquireHeld, OpenFails, OpenOrCreate, ReleaseLock, ReleaseHeld,
              ReleaseNotHeld, waitVars
<1>3. ASSUME NEW q \in Proc, ProcessEnds(q)
      PROVE  \/ at'[p] = "idle"
             \/ at'[p] = at[p] /\ signals'[p] = signals[p] /\ remaining'[p] = remaining[p]
  BY <1>3 DEF ProcessEnds
<1>4. CASE DirChange
  BY <1>4 DEF DirChange, waitVars, Rest
<1> QED BY <1>1, <1>2, <1>3, <1>4 DEF LockNext, Rest

(***************************************************************************)
(* With a timeout acquire_lock() comes closer to its end with every step   *)
(* it makes, and the other processes do not put that end off: what         *)
(* AcquireReturns needs besides is that the process keeps running.         *)
(***************************************************************************)
THEOREM LockClosesIn == LockSpec => ClosesIn
<1> DEFINE Measured == LockTypeOK /\ \A p \in Proc : StepsLeftAt(p)
<1>1. Measured /\ Measured' /\ [LockNext]_lockVars => [ClosesInStep]_lockVars
  <2> SUFFICES ASSUME LockTypeOK, LockNext, NEW p \in Proc, StepsLeftAt(p), StepsLeftAt(p)',
                      timeout[p] >= 0
               PROVE  /\ LockStep(p) => StepsLeft(p)' < StepsLeft(p)
                      /\ at[p] # "idle" => StepsLeft(p)' \in 0 .. StepsLeft(p)
    BY DEF ClosesInStep
  <2>1. CASE LockStep(p)
    <3>1. StepsLeft(p) \in Nat /\ StepsLeft(p)' \in Nat /\ StepsLeft(p)' < StepsLeft(p)
      BY <2>1, LockStepCloses
    <3> QED BY <3>1
  <2>2. CASE ~LockStep(p) /\ at[p] # "idle"
    <3>1. at[p] \in Stage \ {"idle"} /\ at \in [Proc -> Stage]
      BY <2>2 DEF LockTypeOK
    <3>2. CASE at'[p] = "idle"
      BY <3>1, <3>2, LeavingCloses
    <3>3. CASE at'[p] = at[p] /\ Rest(p)' = Rest(p)
      <4>1. StepsLeft(p) \in Nat /\ StepsLeft(p)' = StepsLeft(p)
        BY <3>1, <3>3 DEF StepsLeftAt, Stage
      <4> QED BY <2>2, <4>1
    <3> QED BY <2>2, <3>2, <3>3, OthersKeepMeasure
  <2> QED BY <2>1, <2>2
<1>2. LockTypeOK => Measured
  BY MeasureByPlace
<1> QED BY <1>1, <1>2, LockTypeCorrect, PTL DEF LockSpec, ClosesIn
=============================================================================
