---------------------------- MODULE EctoolSession ----------------------------
(***************************************************************************)
(* The life of an ectool process: main() picks a transport, takes the GEC  *)
(* lock when it has to, installs the communication hooks, runs one command *)
(* handler and releases the lock. Several processes run at once and share  *)
(* the lockfile and the bus to the EC. The lock is module GecLock.         *)
(***************************************************************************)
EXTENDS GecLock

CONSTANTS
  Options,    \* the interface masks the command line may leave in interfaces
  DevWorks    \* those of them with which comm_init_dev() finds a /dev node

RawTransports == {"SERVO", "LPC", "I2C"}
COMM_USB == {"USB"}
COMM_ALL == RawTransports \cup COMM_USB \cup {"DEV"}

ASSUME OptionsAssumption == Options \subseteq SUBSET COMM_ALL
ASSUME DevWorksAssumption == DevWorks \subseteq SUBSET COMM_ALL

VARIABLES
  phase,       \* where main() is
  interfaces,  \* the allowed interfaces, a set of COMM_ bits
  i2c_bus,     \* whether --i2c_bus was given
  cros_ec,     \* whether device_name is still "cros_ec"
  ec_command_proto, ec_readmem, ec_pollevent  \* the hooks, "NULL" until set

hookVars == <<ec_command_proto, ec_readmem, ec_pollevent>>
argVars == <<interfaces, i2c_bus, cros_ec>>
mainVars == <<phase, argVars, hookVars>>
vars == <<lockVars, mainVars>>

Phase == {"exited", "open", "lock", "init", "buffer", "command", "out"}

Init ==
  /\ LockInit
  /\ phase = [p \in Proc |-> "exited"]
  /\ interfaces = [p \in Proc |-> {}]
  /\ i2c_bus = [p \in Proc |-> FALSE]
  /\ cros_ec = [p \in Proc |-> TRUE]
  /\ ec_command_proto = [p \in Proc |-> "NULL"]
  /\ ec_readmem = [p \in Proc |-> "NULL"]
  /\ ec_pollevent = [p \in Proc |-> "NULL"]

Goto(p, s) == phase' = [phase EXCEPT ![p] = s]

\* A process starts and its command line parses. --i2c_bus needs I2C among
\* the interfaces and then leaves only that one.
Start(p) ==
  /\ phase[p] = "exited"
  /\ \E i \in Options, bus, cros \in BOOLEAN :
       /\ bus => "I2C" \in i
       /\ interfaces' = [interfaces EXCEPT ![p] = IF bus THEN {"I2C"} ELSE i]
       /\ i2c_bus' = [i2c_bus EXCEPT ![p] = bus]
       /\ cros_ec' = [cros_ec EXCEPT ![p] = cros]
  /\ Goto(p, "open")
  /\ UNCHANGED <<lockVars, hookVars>>

\* comm_init_dev() is not tried, or fails.
NeedsAlternative(p) == "DEV" \notin interfaces[p] \/ interfaces[p] \notin DevWorks

\* comm_init_dev() succeeds; it keeps its own readmem only when the mapped
\* memory identifies an EC.
OpenDev(p) ==
  /\ phase[p] = "open" /\ ~NeedsAlternative(p)
  /\ ec_command_proto' = [ec_command_proto EXCEPT ![p] = "DEV"]
  /\ ec_pollevent' = [ec_pollevent EXCEPT ![p] = "DEV"]
  /\ \E id \in BOOLEAN :
       ec_readmem' = IF id THEN [ec_readmem EXCEPT ![p] = "DEV"] ELSE ec_readmem
  /\ Goto(p, "buffer")
  /\ UNCHANGED <<lockVars, argVars>>

\* "Lock is not needed for COMM_USB".
NeedsLockForLpc(p) == "LPC" \in interfaces[p]   \* a bug: a lock for LPC only
NeedsLock(p) == "USB" \notin interfaces[p]

SkipLock(p) ==
  /\ phase[p] = "open" /\ NeedsAlternative(p) /\ ~NeedsLock(p)
  /\ Goto(p, "init")
  /\ UNCHANGED <<lockVars, argVars, hookVars>>

BeginLock(p) ==
  /\ phase[p] = "open" /\ NeedsAlternative(p) /\ NeedsLock(p)
  /\ AcquireLock(p)
  /\ Goto(p, "lock")
  /\ UNCHANGED <<argVars, hookVars>>

WaitForLock(p) ==
  /\ phase[p] = "lock"
  /\ LockStep(p)
  /\ UNCHANGED mainVars

\* What main() makes of acquire_gec_lock(): negative is a failure.
GotLock(p) == outcome[p] = "acquired"
MissesTimeout(p) == outcome[p] = "failed"   \* a bug
NoLock(p) == outcome[p] \in {"failed", "timedout"}

LockAcquired(p) ==
  /\ phase[p] = "lock" /\ at[p] = "idle" /\ GotLock(p)
  /\ Goto(p, "init")
  /\ UNCHANGED <<lockVars, argVars, hookVars>>

\* The process is gone: its arguments and hooks, and any flock it still owns.
EndProcess(p) ==
  /\ ProcessEnds(p)
  /\ Goto(p, "exited")
  /\ ec_command_proto' = [ec_command_proto EXCEPT ![p] = "NULL"]
  /\ ec_readmem' = [ec_readmem EXCEPT ![p] = "NULL"]
  /\ ec_pollevent' = [ec_pollevent EXCEPT ![p] = "NULL"]
  /\ interfaces' = [interfaces EXCEPT ![p] = {}]
  /\ i2c_bus' = [i2c_bus EXCEPT ![p] = FALSE]
  /\ cros_ec' = [cros_ec EXCEPT ![p] = TRUE]

\* "Could not acquire GEC lock": exit(1).
LockFailed(p) ==
  /\ phase[p] = "lock" /\ at[p] = "idle" /\ NoLock(p)
  /\ EndProcess(p)

InitUsb(p) ==
  /\ phase[p] = "init" /\ interfaces[p] = COMM_USB
  /\ \/ /\ ec_command_proto' = [ec_command_proto EXCEPT ![p] = "USB"]
        /\ Goto(p, "buffer")
        /\ UNCHANGED <<ec_readmem, ec_pollevent>>
     \/ Goto(p, "out") /\ UNCHANGED hookVars
  /\ UNCHANGED <<lockVars, argVars>>

\* The transports comm_init_alt() may end up with: the first of SERVO, LPC and
\* I2C that is allowed and whose init succeeds. LPC is only for "cros_ec",
\* I2C for "cros_ec" or an explicit bus.
AltTransports(p) ==
  {t \in interfaces[p] \cap RawTransports :
     /\ t = "LPC" => cros_ec[p]
     /\ t = "I2C" => cros_ec[p] \/ i2c_bus[p]}

\* comm_init_lpc() has a readmem of its own; the rest use fake_readmem().
ReadmemOfEach(t) == t   \* a bug: every transport brings one
ReadmemOf(t) == IF t = "LPC" THEN "LPC" ELSE "fake"

InitAlt(p) ==
  /\ phase[p] = "init" /\ interfaces[p] # COMM_USB
  /\ \E t \in AltTransports(p) :
       /\ ec_command_proto' = [ec_command_proto EXCEPT ![p] = t]
       /\ ec_readmem' = [ec_readmem EXCEPT ![p] = ReadmemOf(t)]
  /\ Goto(p, "buffer")
  /\ UNCHANGED <<lockVars, argVars, ec_pollevent>>

\* "Unable to establish host communication".
InitAltFails(p) ==
  /\ phase[p] = "init" /\ interfaces[p] # COMM_USB
  /\ ec_readmem' = [ec_readmem EXCEPT ![p] = "fake"]
  /\ Goto(p, "out")
  /\ UNCHANGED <<lockVars, argVars, ec_command_proto, ec_pollevent>>

\* comm_init_buffer() sends the first command of the session.
InitBuffer(p) ==
  /\ phase[p] = "buffer"
  /\ Goto(p, "command") \/ Goto(p, "out")
  /\ UNCHANGED <<lockVars, argVars, hookVars>>

\* The handler returns, or the command is unknown.
RunHandler(p) ==
  /\ phase[p] = "command"
  /\ Goto(p, "out")
  /\ UNCHANGED <<lockVars, argVars, hookVars>>

\* out: release_gec_lock(), held or not.
Release(p) ==
  /\ phase[p] = "out" /\ outcome[p] \notin {"released", "not_held"}
  /\ ReleaseLock(p)
  /\ UNCHANGED mainVars

\* comm_usb_exit() and the return from main().
Exit(p) ==
  /\ phase[p] = "out" /\ outcome[p] \in {"released", "not_held"}
  /\ EndProcess(p)

\* The process is killed, or a handler calls exit(1) (read_mapped_mem8() and
\* its siblings do when the read fails) without passing by out.
Dies(p) == phase[p] # "exited" /\ EndProcess(p)

\* What main() does without a word to the EC, the wait for the lock included.
OwnStep(p) ==
  \/ OpenDev(p) \/ SkipLock(p) \/ BeginLock(p) \/ WaitForLock(p)
  \/ LockAcquired(p) \/ LockFailed(p)
  \/ InitUsb(p) \/ InitAlt(p) \/ InitAltFails(p)
  \/ Release(p) \/ Exit(p)

\* What ends when commands to the EC do.
EcStep(p) == InitBuffer(p) \/ RunHandler(p)

Next == \/ \E p \in Proc : Start(p) \/ OwnStep(p) \/ EcStep(p) \/ Dies(p)
        \/ DirChange /\ UNCHANGED mainVars

Spec == Init /\ [][Next]_vars

\* The operating system runs every process. Handlers need not return: "stress"
\* goes on until it is interrupted, "sertest" may find nobody at the other end,
\* and a read of comm-servo-spi.cc has no deadline.
FairSpec == Spec /\ \A p \in Proc : WF_vars(OwnStep(p))

-----------------------------------------------------------------------------
\* Typing; a hook is NULL or one of the functions some transport installs.
TypeOK ==
  /\ LockTypeOK
  /\ phase \in [Proc -> Phase]
  /\ interfaces \in [Proc -> SUBSET COMM_ALL]
  /\ i2c_bus \in [Proc -> BOOLEAN]
  /\ cros_ec \in [Proc -> BOOLEAN]
  /\ ec_command_proto \in [Proc -> {"NULL", "DEV", "USB"} \cup RawTransports]
  /\ ec_readmem \in [Proc -> {"NULL", "DEV", "LPC", "fake"}]
  /\ ec_pollevent \in [Proc -> {"NULL", "DEV"}]

\* The process may touch the EC's ports, I2C address or SPI lines itself.
OnRawBus(p) ==
  \/ phase[p] = "init" /\ interfaces[p] \cap RawTransports # {}
  \/ phase[p] \in {"buffer", "command"} /\ ec_command_proto[p] \in RawTransports

(***************************************************************************)
(* "Prefer /dev method, which supports built-in mutex": without it, the    *)
(* processes that drive the bus themselves take turns, from the first      *)
(* probe of comm_init_alt() until the handler is done, whoever is killed.  *)
(***************************************************************************)
RawBusExclusive ==
  \A p, q \in Proc : OnRawBus(p) /\ OnRawBus(q) => p = q

(***************************************************************************)
(* main() is never stuck on its own account: it comes to its first command *)
(* to the EC or to its end, and after the handler to its end, also when it *)
(* queues behind a lock that others keep taking or whose owner is in a     *)
(* handler for ever.                                                       *)
(***************************************************************************)
MainGoesOn ==
  LET OwnPhase == {"open", "lock", "init", "out"}
  IN  \A p \in Proc : phase[p] \in OwnPhase ~> phase[p] \notin OwnPhase
=============================================================================
