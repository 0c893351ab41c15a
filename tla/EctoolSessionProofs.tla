------------------------- MODULE EctoolSessionProofs -------------------------
(***************************************************************************)
(* Proofs about the composition of main() and the GEC lock, for any number *)
(* of processes. The lock's part of the invariant is GecLockProofs'.       *)
(***************************************************************************)
EXTENDS EctoolSession, GecLockProofs

USE DEF MayOpen, Free, Pause, AfterPause, TimeUp, NeedsLock, GotLock, NoLock,
        ReadmemOf

(***************************************************************************)
(* The command lines under which the lock covers the raw bus: USB is       *)
(* allowed alone, or together with a /dev node that works. The default     *)
(* COMM_ALL allows USB, so it is covered only by the /dev node.            *)
(***************************************************************************)
LockCoversOptions ==
  \A i \in Options : "USB" \in i => i = COMM_USB \/ ("DEV" \in i /\ i \in DevWorks)

\* Where main() is, and what it has done to the lock by then.
PhaseInv(p) ==
  /\ phase[p] # "lock" => at[p] = "idle"
  /\ phase[p] \in {"exited", "open"} =>
       ~is_held[p] /\ ec_command_proto[p] = "NULL" /\ outcome[p] = "none"
  /\ phase[p] = "lock" => /\ NeedsAlternative(p) /\ "USB" \notin interfaces[p]
                          /\ ec_command_proto[p] = "NULL"
  /\ phase[p] = "init" =>
       /\ NeedsAlternative(p)
       /\ ("USB" \notin interfaces[p] => is_held[p])
       /\ ec_command_proto[p] = "NULL"
  /\ LockCoversOptions /\ phase[p] \in {"buffer", "command"} =>
       (ec_command_proto[p] \in RawTransports => is_held[p])
  /\ interfaces[p] \in Options \cup {{}, {"I2C"}}

SessionInv == TypeOK /\ LockInv /\ \A p \in Proc : PhaseInv(p)

-----------------------------------------------------------------------------
\* Every step of the composition is a step of the lock, or leaves it alone.
LEMMA LockSimulation == [Next]_vars => [LockNext]_lockVars
<1> SUFFICES ASSUME [Next]_vars PROVE [LockNext]_lockVars
  OBVIOUS
<1>1. ASSUME NEW p \in Proc, Start(p) PROVE [LockNext]_lockVars
  BY <1>1 DEF Start, LockNext
<1>2. ASSUME NEW p \in Proc, OpenDev(p) PROVE [LockNext]_lockVars
  BY <1>2 DEF OpenDev, LockNext
<1>3. ASSUME NEW p \in Proc, SkipLock(p) PROVE [LockNext]_lockVars
  BY <1>3 DEF SkipLock, LockNext
<1>4. ASSUME NEW p \in Proc, BeginLock(p) PROVE [LockNext]_lockVars
  BY <1>4 DEF BeginLock, LockNext
<1>5. ASSUME NEW p \in Proc, WaitForLock(p) PROVE [LockNext]_lockVars
  BY <1>5 DEF WaitForLock, LockNext
<1>6. ASSUME NEW p \in Proc, LockAcquired(p) PROVE [LockNext]_lockVars
  BY <1>6 DEF LockAcquired, LockNext
<1>7. ASSUME NEW p \in Proc, LockFailed(p) PROVE [LockNext]_lockVars
  BY <1>7 DEF LockFailed, EndProcess, LockNext
<1>8. ASSUME NEW p \in Proc, InitUsb(p) PROVE [LockNext]_lockVars
  BY <1>8 DEF InitUsb, LockNext
<1>9. ASSUME NEW p \in Proc, InitAlt(p) PROVE [LockNext]_lockVars
  BY <1>9 DEF InitAlt, LockNext
<1>10. ASSUME NEW p \in Proc, InitAltFails(p) PROVE [LockNext]_lockVars
  BY <1>10 DEF InitAltFails, LockNext
<1>11. ASSUME NEW p \in Proc, InitBuffer(p) PROVE [LockNext]_lockVars
  BY <1>11 DEF InitBuffer, LockNext
<1>12. ASSUME NEW p \in Proc, RunHandler(p) PROVE [LockNext]_lockVars
  BY <1>12 DEF RunHandler, LockNext
<1>13. ASSUME NEW p \in Proc, Release(p) PROVE [LockNext]_lockVars
  BY <1>13 DEF Release, LockNext
<1>14. ASSUME NEW p \in Proc, Exit(p) PROVE [LockNext]_lockVars
  BY <1>14 DEF Exit, EndProcess, LockNext
<1>15. ASSUME NEW p \in Proc, Dies(p) PROVE [LockNext]_lockVars
  BY <1>15 DEF Dies, EndProcess, LockNext
<1>16. CASE (DirChange /\ UNCHANGED mainVars) \/ UNCHANGED vars
  BY <1>16 DEF vars, LockNext
<1>17. QED
  BY <1>1, <1>2, <1>3, <1>4, <1>5, <1>6, <1>7, <1>8, <1>9, <1>10, <1>11, <1>12, <1>13, <1>14, <1>15, <1>16
     DEF Next, OwnStep, EcStep

-----------------------------------------------------------------------------
\* No step of main() or the lock breaks the typing of either.
LEMMA SessionTypeStep == TypeOK /\ [Next]_vars => TypeOK'
<1> SUFFICES ASSUME TypeOK, [Next]_vars PROVE TypeOK'
  OBVIOUS
<1>0. LockTypeOK'
  BY LockSimulation, TypeStep DEF TypeOK
<1> USE <1>0, OptionsAssumption DEF TypeOK, Phase
<1>1. ASSUME NEW p \in Proc, Start(p) PROVE TypeOK'
  BY <1>1 DEF Start, Goto, mainVars, argVars, hookVars, COMM_ALL,
     RawTransports
<1>2. ASSUME NEW p \in Proc, OpenDev(p) PROVE TypeOK'
  BY <1>2 DEF OpenDev, Goto, mainVars, argVars, hookVars
<1>3. ASSUME NEW p \in Proc, SkipLock(p) PROVE TypeOK'
  BY <1>3 DEF SkipLock, Goto, mainVars, argVars, hookVars
<1>4. ASSUME NEW p \in Proc, BeginLock(p) PROVE TypeOK'
  BY <1>4 DEF BeginLock, Goto, mainVars, argVars, hookVars
<1>5. ASSUME NEW p \in Proc, WaitForLock(p) PROVE TypeOK'
  BY <1>5 DEF WaitForLock, mainVars, argVars, hookVars
<1>6. ASSUME NEW p \in Proc, LockAcquired(p) PROVE TypeOK'
  BY <1>6 DEF LockAcquired, Goto, mainVars, argVars, hookVars
<1>7. ASSUME NEW p \in Proc, LockFailed(p) PROVE TypeOK'
  BY <1>7 DEF LockFailed, EndProcess, Goto, mainVars, argVars, hookVars
<1>8. ASSUME NEW p \in Proc, InitUsb(p) PROVE TypeOK'
  BY <1>8 DEF InitUsb, Goto, mainVars, argVars, hookVars
<1>9. ASSUME NEW p \in Proc, InitAlt(p) PROVE TypeOK'
  BY <1>9 DEF InitAlt, Goto, mainVars, argVars, hookVars, AltTransports
<1>10. ASSUME NEW p \in Proc, InitAltFails(p) PROVE TypeOK'
  BY <1>10 DEF InitAltFails, Goto, mainVars, argVars, hookVars
<1>11. ASSUME NEW p \in Proc, InitBuffer(p) PROVE TypeOK'
  BY <1>11 DEF InitBuffer, Goto, mainVars, argVars, hookVars
<1>12. ASSUME NEW p \in Proc, RunHandler(p) PROVE TypeOK'
  BY <1>12 DEF RunHandler, Goto, mainVars, argVars, hookVars
<1>13. ASSUME NEW p \in Proc, Release(p) PROVE TypeOK'
  BY <1>13 DEF Release, mainVars, argVars, hookVars
<1>14. ASSUME NEW p \in Proc, Exit(p) PROVE TypeOK'
  BY <1>14 DEF Exit, EndProcess, Goto, mainVars, argVars, hookVars
<1>15. ASSUME NEW p \in Proc, Dies(p) PROVE TypeOK'
  BY <1>15 DEF Dies, EndProcess, Goto, mainVars, argVars, hookVars
<1>16. CASE (DirChange /\ UNCHANGED mainVars) \/ UNCHANGED vars
  BY <1>16 DEF vars, mainVars, argVars, hookVars
<1>17. QED
  BY <1>1, <1>2, <1>3, <1>4, <1>5, <1>6, <1>7, <1>8, <1>9, <1>10, <1>11, <1>12,
     <1>13, <1>14, <1>15, <1>16
     DEF Next, OwnStep, EcStep
-----------------------------------------------------------------------------
\* No step leaves main() in a phase whose lock it has not dealt with.
LEMMA SessionPhaseStep ==
  SessionInv /\ [Next]_vars => (\A p \in Proc : PhaseInv(p))'
<1> SUFFICES ASSUME SessionInv, [Next]_vars
             PROVE  (\A p \in Proc : PhaseInv(p))'
  OBVIOUS
<1> USE DEF SessionInv, TypeOK, PhaseInv
<1>1. ASSUME NEW p \in Proc, Start(p) PROVE (\A q \in Proc : PhaseInv(q))'
  <2> SUFFICES ASSUME NEW q \in Proc PROVE PhaseInv(q)'
    OBVIOUS
  <2>1. CASE q = p
    BY <1>1, <2>1 DEF Start, Goto, mainVars, argVars, hookVars, lockVars,
       kernelVars, structVars, waitVars, LockTypeOK, NeedsAlternative
  <2>2. CASE q # p
    BY <1>1, <2>2 DEF Start, Goto, mainVars, argVars, hookVars, lockVars,
       kernelVars, structVars, waitVars, LockTypeOK, NeedsAlternative
  <2>3. QED BY <2>1, <2>2
<1>2. ASSUME NEW p \in Proc, OpenDev(p) PROVE (\A q \in Proc : PhaseInv(q))'
  <2> SUFFICES ASSUME NEW q \in Proc PROVE PhaseInv(q)'
    OBVIOUS
  <2>1. CASE q = p
    BY <1>2, <2>1 DEF OpenDev, Goto, mainVars, argVars, hookVars, lockVars,
       kernelVars, structVars, waitVars, LockTypeOK, RawTransports,
       NeedsAlternative
  <2>2. CASE q # p
    BY <1>2, <2>2 DEF OpenDev, Goto, mainVars, argVars, hookVars, lockVars,
       kernelVars, structVars, waitVars, LockTypeOK, RawTransports,
       NeedsAlternative
  <2>3. QED BY <2>1, <2>2
<1>3. ASSUME NEW p \in Proc, SkipLock(p) PROVE (\A q \in Proc : PhaseInv(q))'
  BY <1>3 DEF SkipLock, Goto, mainVars, argVars, hookVars, lockVars,
     kernelVars, structVars, waitVars, LockTypeOK, LockCoversOptions,
     NeedsAlternative
<1>4. ASSUME NEW p \in Proc, BeginLock(p) PROVE (\A q \in Proc : PhaseInv(q))'
  BY <1>4 DEF BeginLock, Goto, mainVars, argVars, hookVars, lockVars,
     kernelVars, structVars, waitVars, LockTypeOK, AcquireLock, AcquireHeld,
     OpenFails, OpenOrCreate, NeedsAlternative
<1>5. ASSUME NEW p \in Proc, WaitForLock(p) PROVE (\A q \in Proc : PhaseInv(q))'
  <2> USE DEF WaitForLock, mainVars, argVars, hookVars, kernelVars, structVars,
      waitVars, LockTypeOK, NeedsAlternative
  <2>1. CASE FlockTaken(p)
    BY <1>5, <2>1 DEF FlockTaken
  <2>2. CASE FlockBusyNoWait(p)
    BY <1>5, <2>2 DEF FlockBusyNoWait, GiveUp
  <2>3. CASE FlockBusy(p)
    BY <1>5, <2>3 DEF FlockBusy
  <2>4. CASE FlockError(p)
    BY <1>5, <2>4 DEF FlockError, GiveUp
  <2>5. CASE SleepInterrupted(p)
    BY <1>5, <2>5 DEF SleepInterrupted
  <2>6. CASE SleepRejected(p)
    BY <1>5, <2>6 DEF SleepRejected, GiveUp
  <2>7. CASE SleepDone(p)
    BY <1>5, <2>7 DEF SleepDone
  <2>8. CASE SleepTimesOut(p)
    BY <1>5, <2>8 DEF SleepTimesOut, GiveUp
  <2>9. CASE TruncatePid(p)
    BY <1>5, <2>9 DEF TruncatePid
  <2>10. CASE WritePid(p)
    BY <1>5, <2>10 DEF WritePid
  <2>11. CASE WritePidFails(p)
    BY <1>5, <2>11 DEF WritePidFails
  <2>12. QED
    BY <1>5, <2>1, <2>2, <2>3, <2>4, <2>5, <2>6, <2>7, <2>8, <2>9, <2>10,
       <2>11 DEF LockStep
<1>6. ASSUME NEW p \in Proc, LockAcquired(p) PROVE (\A q \in Proc : PhaseInv(q))'
  <2> SUFFICES ASSUME NEW q \in Proc PROVE PhaseInv(q)'
    OBVIOUS
  <2>1. CASE q = p
    BY <1>6, <2>1 DEF LockAcquired, Goto, mainVars, argVars, hookVars,
       lockVars, kernelVars, structVars, waitVars, LockTypeOK, LockInv, FdInv,
       NeedsAlternative
  <2>2. CASE q # p
    BY <1>6, <2>2 DEF LockAcquired, Goto, mainVars, argVars, hookVars,
       lockVars, kernelVars, structVars, waitVars, LockTypeOK, LockInv, FdInv,
       NeedsAlternative
  <2>3. QED BY <2>1, <2>2
<1>7. ASSUME NEW p \in Proc, LockFailed(p) PROVE (\A q \in Proc : PhaseInv(q))'
  <2> SUFFICES ASSUME NEW q \in Proc PROVE PhaseInv(q)'
    OBVIOUS
  <2>1. CASE q = p
    BY <1>7, <2>1 DEF LockFailed, EndProcess, ProcessEnds, Goto, mainVars,
       argVars, hookVars, lockVars, kernelVars, structVars, waitVars,
       LockTypeOK, NeedsAlternative
  <2>2. CASE q # p
    BY <1>7, <2>2 DEF LockFailed, EndProcess, ProcessEnds, Goto, mainVars,
       argVars, hookVars, lockVars, kernelVars, structVars, waitVars,
       LockTypeOK, NeedsAlternative
  <2>3. QED BY <2>1, <2>2
<1>8. ASSUME NEW p \in Proc, InitUsb(p) PROVE (\A q \in Proc : PhaseInv(q))'
  BY <1>8 DEF InitUsb, Goto, mainVars, argVars, hookVars, lockVars, kernelVars,
     structVars, waitVars, LockTypeOK, RawTransports, NeedsAlternative
<1>9. ASSUME NEW p \in Proc, InitAlt(p) PROVE (\A q \in Proc : PhaseInv(q))'
  BY <1>9 DEF InitAlt, Goto, mainVars, argVars, hookVars, lockVars, kernelVars,
     structVars, waitVars, LockTypeOK, AltTransports, LockCoversOptions,
     COMM_USB, RawTransports, NeedsAlternative
<1>10. ASSUME NEW p \in Proc, InitAltFails(p) PROVE (\A q \in Proc : PhaseInv(q))'
  BY <1>10 DEF InitAltFails, Goto, mainVars, argVars, hookVars, lockVars,
     kernelVars, structVars, waitVars, LockTypeOK, RawTransports,
     NeedsAlternative
<1>11. ASSUME NEW p \in Proc, InitBuffer(p) PROVE (\A q \in Proc : PhaseInv(q))'
  BY <1>11 DEF InitBuffer, Goto, mainVars, argVars, hookVars, lockVars,
     kernelVars, structVars, waitVars, LockTypeOK, NeedsAlternative
<1>12. ASSUME NEW p \in Proc, RunHandler(p) PROVE (\A q \in Proc : PhaseInv(q))'
  BY <1>12 DEF RunHandler, Goto, mainVars, argVars, hookVars, lockVars,
     kernelVars, structVars, waitVars, LockTypeOK, NeedsAlternative
<1>13. ASSUME NEW p \in Proc, Release(p) PROVE (\A q \in Proc : PhaseInv(q))'
  BY <1>13 DEF Release, mainVars, argVars, hookVars, lockVars, kernelVars,
     structVars, waitVars, LockTypeOK, ReleaseLock, ReleaseHeld,
     ReleaseNotHeld, NeedsAlternative
<1>14. ASSUME NEW p \in Proc, Exit(p) PROVE (\A q \in Proc : PhaseInv(q))'
  <2> SUFFICES ASSUME NEW q \in Proc PROVE PhaseInv(q)'
    OBVIOUS
  <2>1. CASE q = p
    BY <1>14, <2>1 DEF Exit, EndProcess, ProcessEnds, Goto, mainVars, argVars,
       hookVars, lockVars, kernelVars, structVars, waitVars, LockTypeOK,
       NeedsAlternative
  <2>2. CASE q # p
    BY <1>14, <2>2 DEF Exit, EndProcess, ProcessEnds, Goto, mainVars, argVars,
       hookVars, lockVars, kernelVars, structVars, waitVars, LockTypeOK,
       NeedsAlternative
  <2>3. QED BY <2>1, <2>2
<1>15. ASSUME NEW p \in Proc, Dies(p) PROVE (\A q \in Proc : PhaseInv(q))'
  <2> SUFFICES ASSUME NEW q \in Proc PROVE PhaseInv(q)'
    OBVIOUS
  <2>1. CASE q = p
    BY <1>15, <2>1 DEF Dies, EndProcess, ProcessEnds, Goto, mainVars, argVars,
       hookVars, lockVars, kernelVars, structVars, waitVars, LockTypeOK,
       NeedsAlternative
  <2>2. CASE q # p
    BY <1>15, <2>2 DEF Dies, EndProcess, ProcessEnds, Goto, mainVars, argVars,
       hookVars, lockVars, kernelVars, structVars, waitVars, LockTypeOK,
       NeedsAlternative
  <2>3. QED BY <2>1, <2>2
<1>16. CASE (DirChange /\ UNCHANGED mainVars) \/ UNCHANGED vars
  BY <1>16 DEF vars, mainVars, argVars, hookVars, DirChange, lockVars, structVars,
     NeedsAlternative
<1>17. QED
  BY <1>1, <1>2, <1>3, <1>4, <1>5, <1>6, <1>7, <1>8, <1>9, <1>10, <1>11, <1>12,
     <1>13, <1>14, <1>15, <1>16
     DEF Next, OwnStep, EcStep
-----------------------------------------------------------------------------
\* The initial states satisfy the inductive invariant.
LEMMA SessionInitInv == Init => SessionInv
<1> SUFFICES ASSUME Init PROVE SessionInv
  OBVIOUS
<1>1. LockInv
  BY LockInitInv DEF Init
<1>2. TypeOK
  BY <1>1 DEF Init, LockInv, TypeOK, Phase
<1>3. ASSUME NEW p \in Proc PROVE PhaseInv(p)
  BY DEF Init, LockInit, PhaseInv
<1>4. QED BY <1>1, <1>2, <1>3 DEF SessionInv

\* Every step of the composition preserves the inductive invariant.
LEMMA SessionInvStep == SessionInv /\ [Next]_vars => SessionInv'
<1> SUFFICES ASSUME SessionInv, [Next]_vars PROVE SessionInv'
  OBVIOUS
<1>1. LockInv'
  BY LockSimulation, LockInvStep DEF SessionInv
<1>2. QED BY <1>1, SessionTypeStep, SessionPhaseStep DEF SessionInv

\* Who is on the raw bus holds the lock.
LEMMA BusUserHolds ==
  ASSUME LockCoversOptions, SessionInv, NEW p \in Proc, OnRawBus(p)
  PROVE  is_held[p]
<1>1. CASE phase[p] = "init" /\ interfaces[p] \cap RawTransports # {}
  <2>1. "USB" \in interfaces[p] => interfaces[p] \in Options
    BY DEF SessionInv, PhaseInv
  <2>2. "USB" \notin interfaces[p]
    BY <1>1, <2>1 DEF LockCoversOptions, SessionInv, PhaseInv, NeedsAlternative,
       COMM_USB, RawTransports
  <2>3. QED BY <1>1, <2>2 DEF SessionInv, PhaseInv
<1>2. CASE phase[p] \in {"buffer", "command"} /\ ec_command_proto[p] \in RawTransports
  BY <1>2 DEF SessionInv, PhaseInv
<1>3. QED BY <1>1, <1>2 DEF OnRawBus

\* Two users of the raw bus would both hold the lock.
LEMMA BusExclusiveFromInv ==
  ASSUME SameDirectory, LockCoversOptions, SessionInv
  PROVE  RawBusExclusive
<1>1. MutualExclusion
  BY ExclusionFromInv DEF SessionInv
<1>2. QED BY <1>1, BusUserHolds DEF RawBusExclusive, MutualExclusion

-----------------------------------------------------------------------------
(***************************************************************************)
(* Every state of main() and the lock is well typed, for any command lines *)
(* at all.                                                                 *)
(***************************************************************************)
THEOREM SessionTypeCorrect == Spec => []TypeOK
<1>1. Init => TypeOK
  BY SessionInitInv DEF SessionInv
<1>2. QED BY <1>1, SessionTypeStep, PTL DEF Spec

(***************************************************************************)
(* With one lock directory and command lines whose raw accesses the lock   *)
(* covers, no two processes drive the raw bus at once, however many run    *)
(* and wherever they die.                                                  *)
(***************************************************************************)
THEOREM SessionExcludes ==
  SameDirectory /\ LockCoversOptions => (Spec => []RawBusExclusive)
<1> SUFFICES ASSUME SameDirectory, LockCoversOptions
             PROVE  Spec => []RawBusExclusive
  OBVIOUS
<1>1. SessionInv => RawBusExclusive
  BY BusExclusiveFromInv
<1>2. QED BY <1>1, SessionInitInv, SessionInvStep, PTL DEF Spec
=============================================================================
