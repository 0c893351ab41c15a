------------------------------- MODULE GecLock -------------------------------
(***************************************************************************)
(* The inter-process lock of lock/file_lock.cc (gec_lock.cc is its only    *)
(* user): each process owns one struct ipc_lock, takes flock() on a common *)
(* lockfile by polling, and writes its pid into the file for debugging.    *)
(* flock() and nanosleep() are the kernel's; they are modelled by what     *)
(* their callers can see.                                                  *)
(***************************************************************************)
EXTENDS Integers

CONSTANTS
  Proc,               \* processes that may call the library
  NoProc,             \* no process: a free flock, an empty lockfile
  SLEEP_INTERVAL_MS,  \* pause between two flock() attempts
  Timeouts,           \* the timeout_msecs arguments callers pass
  MaxSignals,         \* bound: EINTR returns of nanosleep() per acquire_lock()
  DirStates           \* the sets of lock directories that may exist on the host

ASSUME NoProcAssumption == NoProc \notin Proc
ASSUME IntervalAssumption == SLEEP_INTERVAL_MS \in Nat \ {0}
ASSUME TimeoutsAssumption == Timeouts \subseteq Int
ASSUME SignalsAssumption == MaxSignals \in Nat

SYSTEM_LOCKFILE_DIR == "/run/lock"
FALLBACK_DIR == "/tmp"
LockDir == {SYSTEM_LOCKFILE_DIR, FALLBACK_DIR}
NoDir == "none"   \* fd not open

ASSUME DirStatesAssumption == DirStates \subseteq SUBSET LockDir

VARIABLES
  dirs,       \* the lock directories that exist now
  flock,      \* kernel: the owner of each directory's lockfile
  pidFile,    \* the pid each lockfile holds
  at,         \* where acquire_lock() is: at[p] = "idle" outside of it
  is_held,    \* lock->is_held
  fd,         \* the directory of the file lock->fd is open on
  timeout,    \* timeout_msecs of the call in progress
  remaining,  \* msecs_remaining
  interval,   \* sleep_interval
  left,       \* what is left of the nanosleep() in progress
  signals,    \* EINTR returns seen by the call in progress
  waited,     \* history: milliseconds slept by the last acquire_lock()
  outcome     \* how the last acquire_lock() or release_lock() ended

kernelVars == <<dirs, flock, pidFile>>
structVars == <<is_held, fd>>
waitVars == <<timeout, remaining, interval, left, signals, waited>>
lockVars == <<kernelVars, at, structVars, waitVars, outcome>>

Stage == {"idle", "flock", "sleep", "truncate", "write"}
Outcome == {"none", "acquired", "already", "failed", "timedout",
            "released", "not_held"}

\* The directory file_lock_open_or_create() picks among those that exist.
PickDir(D) == IF SYSTEM_LOCKFILE_DIR \in D THEN SYSTEM_LOCKFILE_DIR
              ELSE IF FALLBACK_DIR \in D THEN FALLBACK_DIR ELSE NoDir

LockInit ==
  /\ dirs \in DirStates
  /\ flock = [d \in LockDir |-> NoProc]
  /\ pidFile = [d \in LockDir |-> NoProc]
  /\ at = [p \in Proc |-> "idle"]
  /\ is_held = [p \in Proc |-> FALSE]
  /\ fd = [p \in Proc |-> NoDir]
  /\ timeout = [p \in Proc |-> 0]
  /\ remaining = [p \in Proc |-> 0]
  /\ interval = [p \in Proc |-> 0]
  /\ left = [p \in Proc |-> 0]
  /\ signals = [p \in Proc |-> 0]
  /\ waited = [p \in Proc |-> 0]
  /\ outcome = [p \in Proc |-> "none"]

\* acquire_lock() by a process that already holds the lock returns 1.
AcquireHeld(p) ==
  /\ at[p] = "idle" /\ is_held[p]
  /\ outcome' = [outcome EXCEPT ![p] = "already"]
  /\ UNCHANGED <<kernelVars, at, structVars, waitVars>>

\* acquire_lock() goes on to open the lockfile when the struct says not held.
MayOpenAgain(p) == at[p] = "idle"   \* a bug: is_held not looked at
MayOpen(p) == at[p] = "idle" /\ ~is_held[p]

\* file_lock_open_or_create() fails: no directory, or open() refused.
OpenFails(p) ==
  /\ MayOpen(p)
  /\ outcome' = [outcome EXCEPT ![p] = "failed"]
  /\ UNCHANGED <<kernelVars, at, structVars, waitVars>>

\* file_lock_open_or_create() succeeds and file_lock_get() sets up its loop.
OpenOrCreate(p, t) ==
  /\ MayOpen(p)
  /\ PickDir(dirs) # NoDir
  /\ fd' = [fd EXCEPT ![p] = PickDir(dirs)]
  /\ at' = [at EXCEPT ![p] = "flock"]
  /\ timeout' = [timeout EXCEPT ![p] = t]
  /\ remaining' = [remaining EXCEPT ![p] = t]
  /\ interval' = [interval EXCEPT ![p] = SLEEP_INTERVAL_MS]
  /\ left' = [left EXCEPT ![p] = 0]
  /\ signals' = [signals EXCEPT ![p] = 0]
  /\ waited' = [waited EXCEPT ![p] = 0]
  /\ outcome' = [outcome EXCEPT ![p] = "none"]
  /\ UNCHANGED <<kernelVars, is_held>>

\* a bug: the pid is cleared on the way out, whoever owns the lock
GiveUpClearsPid(p, why) ==
  /\ at' = [at EXCEPT ![p] = "idle"]
  /\ is_held' = [is_held EXCEPT ![p] = FALSE]
  /\ fd' = [fd EXCEPT ![p] = NoDir]
  /\ outcome' = [outcome EXCEPT ![p] = why]
  /\ pidFile' = [pidFile EXCEPT ![fd[p]] = NoProc]
  /\ UNCHANGED <<dirs, flock>>

\* acquire_lock() gives up: is_held = 0, close(fd), return -1.
GiveUp(p, why) ==
  /\ at' = [at EXCEPT ![p] = "idle"]
  /\ is_held' = [is_held EXCEPT ![p] = FALSE]
  /\ fd' = [fd EXCEPT ![p] = NoDir]
  /\ outcome' = [outcome EXCEPT ![p] = why]
  /\ UNCHANGED kernelVars

\* The kernel grants LOCK_EX to one process at a time.
FreeForAll(p) == TRUE   \* a bug: LOCK_SH
Free(p) == flock[fd[p]] = NoProc

\* flock(LOCK_EX | LOCK_NB) succeeds.
FlockTaken(p) ==
  /\ at[p] = "flock" /\ Free(p)
  /\ flock' = [flock EXCEPT ![fd[p]] = p]
  /\ is_held' = [is_held EXCEPT ![p] = TRUE]
  /\ at' = [at EXCEPT ![p] = "truncate"]
  /\ UNCHANGED <<dirs, pidFile, fd, waitVars, outcome>>

\* flock() fails with EWOULDBLOCK and the caller does not want to wait.
FlockBusyNoWait(p) ==
  /\ at[p] = "flock" /\ flock[fd[p]] # NoProc
  /\ timeout[p] = 0
  /\ GiveUp(p, "failed")
  /\ UNCHANGED waitVars

\* The next pause: the interval, or what is left of the timeout.
WholePause(p) == interval[p]   \* a bug: not shortened
Pause(p) == IF remaining[p] < SLEEP_INTERVAL_MS THEN remaining[p]
            ELSE interval[p]

\* flock() fails with EWOULDBLOCK: sleep for the interval, or for what is
\* left of the timeout when that is less.
FlockBusy(p) ==
  /\ at[p] = "flock" /\ flock[fd[p]] # NoProc
  /\ timeout[p] # 0
  /\ interval' = [interval EXCEPT ![p] = Pause(p)]
  /\ left' = [left EXCEPT ![p] = Pause(p)]
  /\ at' = [at EXCEPT ![p] = "sleep"]
  /\ UNCHANGED <<kernelVars, structVars, timeout, remaining, signals, waited,
                 outcome>>

\* flock() fails with another errno.
FlockError(p) ==
  /\ at[p] = "flock"
  /\ GiveUp(p, "failed")
  /\ UNCHANGED waitVars

\* nanosleep() is interrupted: the loop sleeps again for what was left, and
\* sleep_interval keeps that shorter value for the pauses that follow.
SleepInterrupted(p) ==
  /\ at[p] = "sleep" /\ signals[p] < MaxSignals
  /\ \E rem \in 1..left[p] :
       /\ interval' = [interval EXCEPT ![p] = rem]
       /\ left' = [left EXCEPT ![p] = rem]
       /\ waited' = [waited EXCEPT ![p] = @ + left[p] - rem]
  /\ signals' = [signals EXCEPT ![p] = @ + 1]
  /\ UNCHANGED <<kernelVars, at, structVars, timeout, remaining, outcome>>

\* nanosleep() rejects a negative interval (EINVAL), which is the one
\* msecs_to_timespec() makes of a negative msecs_remaining.
SleepRejected(p) ==
  /\ at[p] = "sleep" /\ left[p] < 0
  /\ GiveUp(p, "failed")
  /\ UNCHANGED waitVars

\* A pause takes SLEEP_INTERVAL_MS off the time that remains, however long it
\* was; without a timeout there is nothing to take it off.
SleptOff(p) == remaining[p] - left[p]   \* a bug: a pause of 0 takes nothing off
AfterPause(p) == IF timeout[p] < 0 THEN remaining[p]
                 ELSE remaining[p] - SLEEP_INTERVAL_MS

\* msecs_remaining falls below zero with this pause.
TimeUpEarly(p) ==   \* a bug: no time for a whole pause counts as no time
  remaining[p] < 2 * SLEEP_INTERVAL_MS
TimeUp(p) == timeout[p] >= 0 /\ AfterPause(p) < 0

\* The pause is over and time remains for another attempt.
SleepDone(p) ==
  /\ at[p] = "sleep" /\ left[p] >= 0
  /\ ~TimeUp(p)
  /\ remaining' = [remaining EXCEPT ![p] = AfterPause(p)]
  /\ waited' = [waited EXCEPT ![p] = @ + left[p]]
  /\ left' = [left EXCEPT ![p] = 0]
  /\ at' = [at EXCEPT ![p] = "flock"]
  /\ UNCHANGED <<kernelVars, structVars, timeout, interval, signals, outcome>>

\* The pause is over and no time remains: "Timed out waiting for file lock".
SleepTimesOut(p) ==
  /\ at[p] = "sleep" /\ left[p] >= 0
  /\ TimeUp(p)
  /\ remaining' = [remaining EXCEPT ![p] = AfterPause(p)]
  /\ waited' = [waited EXCEPT ![p] = @ + left[p]]
  /\ left' = [left EXCEPT ![p] = 0]
  /\ GiveUp(p, "timedout")
  /\ UNCHANGED <<timeout, interval, signals>>

\* file_lock_write_pid(): ftruncate(), then write(). A failure of either is
\* reported and ignored.
TruncatePid(p) ==
  /\ at[p] = "truncate"
  /\ pidFile' = [pidFile EXCEPT ![fd[p]] = NoProc]
  /\ at' = [at EXCEPT ![p] = "write"]
  /\ UNCHANGED <<dirs, flock, structVars, waitVars, outcome>>

\* a bug: lock->fd printed instead of getpid()
WriteFd(p) ==
  /\ at[p] = "write"
  /\ pidFile' = [pidFile EXCEPT ![fd[p]] = fd[p]]
  /\ at' = [at EXCEPT ![p] = "idle"]
  /\ outcome' = [outcome EXCEPT ![p] = "acquired"]
  /\ UNCHANGED <<dirs, flock, structVars, waitVars>>

WritePid(p) ==
  /\ at[p] = "write"
  /\ pidFile' = [pidFile EXCEPT ![fd[p]] = p]
  /\ at' = [at EXCEPT ![p] = "idle"]
  /\ outcome' = [outcome EXCEPT ![p] = "acquired"]
  /\ UNCHANGED <<dirs, flock, structVars, waitVars>>

WritePidFails(p) ==
  /\ at[p] \in {"truncate", "write"}
  /\ at' = [at EXCEPT ![p] = "idle"]
  /\ outcome' = [outcome EXCEPT ![p] = "acquired"]
  /\ UNCHANGED <<kernelVars, structVars, waitVars>>

\* release_lock(): unlock and close; the lockfile itself stays.
ReleaseHeld(p) ==
  /\ at[p] = "idle" /\ is_held[p]
  /\ flock' = [flock EXCEPT ![fd[p]] = NoProc]
  /\ fd' = [fd EXCEPT ![p] = NoDir]
  /\ is_held' = [is_held EXCEPT ![p] = FALSE]
  /\ outcome' = [outcome EXCEPT ![p] = "released"]
  /\ UNCHANGED <<dirs, pidFile, at, waitVars>>

ReleaseNotHeld(p) ==
  /\ at[p] = "idle" /\ ~is_held[p]
  /\ outcome' = [outcome EXCEPT ![p] = "not_held"]
  /\ UNCHANGED <<kernelVars, at, structVars, waitVars>>

ReleaseLock(p) == ReleaseHeld(p) \/ ReleaseNotHeld(p)

\* The process ends, wherever it is, and another may start in its place: the
\* kernel drops its flock, the new process has a fresh struct ipc_lock.
ProcessEnds(p) ==
  /\ flock' = [d \in LockDir |-> IF flock[d] = p THEN NoProc ELSE flock[d]]
  /\ at' = [at EXCEPT ![p] = "idle"]
  /\ is_held' = [is_held EXCEPT ![p] = FALSE]
  /\ fd' = [fd EXCEPT ![p] = NoDir]
  /\ timeout' = [timeout EXCEPT ![p] = 0]
  /\ remaining' = [remaining EXCEPT ![p] = 0]
  /\ interval' = [interval EXCEPT ![p] = 0]
  /\ left' = [left EXCEPT ![p] = 0]
  /\ signals' = [signals EXCEPT ![p] = 0]
  /\ waited' = [waited EXCEPT ![p] = 0]
  /\ outcome' = [outcome EXCEPT ![p] = "none"]
  /\ UNCHANGED <<dirs, pidFile>>

\* The host creates or removes a lock directory.
DirChange == /\ dirs' \in DirStates
             /\ UNCHANGED <<flock, pidFile, at, structVars, waitVars, outcome>>

\* What goes on inside one acquire_lock() once the file is open.
LockStep(p) ==
  \/ FlockTaken(p) \/ FlockBusyNoWait(p) \/ FlockBusy(p) \/ FlockError(p)
  \/ SleepInterrupted(p) \/ SleepRejected(p) \/ SleepDone(p)
  \/ SleepTimesOut(p)
  \/ TruncatePid(p) \/ WritePid(p) \/ WritePidFails(p)

AcquireLock(p) == \/ AcquireHeld(p) \/ OpenFails(p)
                  \/ \E t \in Timeouts : OpenOrCreate(p, t)

LockNext == \/ \E p \in Proc : \/ AcquireLock(p) \/ LockStep(p)
                               \/ ReleaseLock(p) \/ ProcessEnds(p)
            \/ DirChange

LockSpec == LockInit /\ [][LockNext]_lockVars

\* A process inside acquire_lock() keeps running.
LockFairness == \A p \in Proc : WF_lockVars(LockStep(p))

FairLockSpec == LockSpec /\ LockFairness

-----------------------------------------------------------------------------
\* What struct ipc_lock, the lockfiles and one acquire_lock() may hold.
LockTypeOK ==
  /\ dirs \in DirStates
  /\ flock \in [LockDir -> Proc \cup {NoProc}]
  /\ pidFile \in [LockDir -> Proc \cup {NoProc}]
  /\ at \in [Proc -> Stage]
  /\ is_held \in [Proc -> BOOLEAN]
  /\ fd \in [Proc -> LockDir \cup {NoDir}]
  /\ timeout \in [Proc -> Int]
  /\ remaining \in [Proc -> Int]
  /\ interval \in [Proc -> Int]
  /\ left \in [Proc -> Int]
  /\ signals \in [Proc -> 0..MaxSignals]
  /\ waited \in [Proc -> Int]
  /\ outcome \in [Proc -> Outcome]

(***************************************************************************)
(* The struct and the kernel agree: is_held says exactly whether this      *)
(* process owns the flock of the file its fd is open on. Neither a failed  *)
(* acquire_lock() nor a process that ended leaves a flock behind, and no   *)
(* process believes in a lock it does not own.                             *)
(***************************************************************************)
HeldMatchesFlock ==
  /\ \A p \in Proc : is_held[p] => fd[p] \in LockDir /\ flock[fd[p]] = p
  /\ \A p \in Proc, d \in LockDir : flock[d] = p => is_held[p] /\ fd[p] = d

(***************************************************************************)
(* "Implementation for a binary semaphore using a file lock"               *)
(* (file_lock.cc): two processes never hold the lock at once. This needs   *)
(* all of them to pick the same directory.                                 *)
(***************************************************************************)
MutualExclusion ==
  \A p, q \in Proc : is_held[p] /\ is_held[q] => p = q

\* Every process finds the lockfile in the same directory, if anywhere.
SameDirectory ==
  \A D, E \in DirStates : NoDir \notin {PickDir(D), PickDir(E)}
                            => PickDir(D) = PickDir(E)

(***************************************************************************)
(* "timeout 0 = do not wait, timeout >0 = wait up to $timeout              *)
(* milliseconds": acquire_lock() never sleeps for longer than its caller   *)
(* allowed, interrupted or not. A negative timeout allows any wait.        *)
(***************************************************************************)
WaitBounded == \A p \in Proc : timeout[p] >= 0 => waited[p] <= timeout[p]

(***************************************************************************)
(* "timeout <0 = no timeout (try forever)": no pause for a lock that is    *)
(* busy ends such an attempt with a failure. The code breaks this: the     *)
(* pause is msecs_remaining long, which is negative, and nanosleep()       *)
(* rejects it.                                                             *)
(***************************************************************************)
TriesForeverStep ==
  \A p \in Proc : at[p] = "sleep" /\ timeout[p] < 0 => outcome'[p] # "failed"

NegativeTriesForever == [][TriesForeverStep]_lockVars

(***************************************************************************)
(* A positive timeout is used up before acquire_lock() reports that it     *)
(* timed out, unless a signal interrupted a pause: then the pauses that    *)
(* follow are as short as what was left of that one, and still count whole.*)
(***************************************************************************)
NoEarlyTimeout ==
  \A p \in Proc : outcome[p] = "timedout" /\ signals[p] = 0
                    => waited[p] = timeout[p]

(***************************************************************************)
(* The lockfile's content is debugging data of the owner: nobody changes a *)
(* lockfile without owning its flock, and then only to empty it or to      *)
(* write its own pid.                                                      *)
(***************************************************************************)
PidWrittenByOwnerStep ==
  \A d \in LockDir : pidFile'[d] # pidFile[d]
                       => flock[d] # NoProc /\ pidFile'[d] \in {NoProc, flock[d]}

PidWrittenByOwner == [][PidWrittenByOwnerStep]_lockVars

\* At most this many steps are left of an acquire_lock(): two per millisecond
\* that remains, one per signal that may come, and those of the last attempt.
StepsLeft(p) ==
  IF at[p] = "idle" THEN 0
  ELSE (CASE at[p] = "flock" -> 4 [] at[p] = "sleep" -> 3
          [] at[p] = "truncate" -> 2 [] at[p] = "write" -> 1)
       + (MaxSignals - signals[p])
       + 2 * (IF remaining[p] < 0 THEN 0 ELSE remaining[p])

(***************************************************************************)
(* With a timeout acquire_lock() comes closer to its end with every step   *)
(* it makes, and nothing the other processes do puts that end off: each    *)
(* pause is taken off the timeout, however short a signal has made it.     *)
(***************************************************************************)
ClosesInStep ==
  \A p \in Proc :
    timeout[p] >= 0 =>
      /\ LockStep(p) => StepsLeft(p)' < StepsLeft(p)
      /\ at[p] # "idle" => StepsLeft(p)' \in 0 .. StepsLeft(p)

ClosesIn == [][ClosesInStep]_lockVars

(***************************************************************************)
(* With a timeout acquire_lock() returns, however long the others hold the *)
(* lock. Without one (negative) it promises nothing of the kind.           *)
(***************************************************************************)
AcquireReturns ==
  \A p \in Proc : at[p] # "idle" /\ timeout[p] >= 0 ~> at[p] = "idle"
=============================================================================
