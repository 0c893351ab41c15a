---------------------------- MODULE ServoSpiProofs ----------------------------
(***************************************************************************)
(* ServoSpi is well typed, waits for an EC that was listening, and returns *)
(* its own answers, for any set of commands, lengths, buffers and any      *)
(* timeout. The invariant is about chip select: while it is high the EC    *)
(* has nothing of an older call, and a call whose pins were set without an *)
(* error begins with chip select high.                                     *)
(***************************************************************************)
EXTENDS ServoSpi, TLAPS

InCall == pc \in {"start", "send", "await", "status", "header", "stop"}

\* A call has a command and lasts until it returns; it ends with an error or a
\* result as success.
CallInv ==
  /\ InCall => cur.cmd \in Command
  /\ pc \in {"return", "closed"} => cur = NoCall
  /\ pc \in {"start", "send", "await", "status", "header"} => result = Failed
  /\ result.status # "ok" => result = Failed

\* Chip select is low while bytes are clocked; while it is high, the EC has
\* nothing to say.
SelectInv ==
  /\ pc \in {"send", "await", "status", "header", "stop"} => cs = "low"
  /\ cs = "high" => ec \in {"RX_READY", "NOT_READY"} /\ job = NoCommand

\* Once the pins were set without an error: between calls chip select is high,
\* and from then on the EC knows of nothing but this call.
CleanInv ==
  pins_ok =>
    /\ pc \in {"return", "start"} => cs = "high"
    /\ pc = "send" => ec \in {"RX_READY", "NOT_READY"}
    /\ pc \in {"await", "status", "header"} /\ ec \in {"PROCESSING", "FRAME_START"} =>
         job = cur.cmd
    /\ pc = "stop" /\ result.status = "ok" =>
         result.cmd = cur.cmd /\ RespLen[cur.cmd] <= cur.insize

\* The EC frames the answer to a command.
JobInv == ec \in {"PROCESSING", "FRAME_START"} => job \in Command

ServoInv == TypeOK /\ CallInv /\ SelectInv /\ CleanInv /\ JobInv

-----------------------------------------------------------------------------
\* The invariant holds when the device has been opened.
LEMMA ServoInit == Init => ServoInv
BY NoCommandAssumption, RespTimeoutAssumption
   DEF Init, ServoInv, TypeOK, CallInv, InCall, SelectInv, CleanInv, JobInv, NoCall, Pending,
       Failed, Sends

\* Every step of host and EC keeps the types.
LEMMA ServoTypeStep == ServoInv /\ [Next]_vars => TypeOK'
<1> SUFFICES ASSUME ServoInv, [Next]_vars PROVE TypeOK'
  OBVIOUS
<1> USE RespTimeoutAssumption DEF ServoInv, TypeOK, Sends, Refusals, Failed
<1>1. CASE Call
  BY <1>1 DEF Call, Pending, ecVars
<1>2. ASSUME NEW level \in {"high", "low"}, PinsTo(level)
      PROVE  cs' \in {"high", "low"} /\ ec' \in Sends /\ job' \in Command \cup {NoCommand}
  BY <1>2 DEF PinsTo, ecVars
<1>3. ASSUME NEW r, Return(r), r.status \in {"none", "error", "ok"}
      PROVE  /\ pc' = "return" /\ ret'.status \in {"none", "error", "ok"}
             /\ cur' \in [cmd : Command \cup {NoCommand}, insize : InSizes \cup {0}]
  BY <1>3 DEF Return, NoCall
<1>4. CASE SelectEc
  BY <1>2, <1>4 DEF SelectEc
<1>5. CASE SelectFails
  BY <1>3, <1>5 DEF SelectFails, ecVars
<1>6. CASE SendRequest
  BY <1>6 DEF SendRequest, Stop, ecVars
<1>7. CASE SendFails
  BY <1>7 DEF SendFails, Stop, ecVars
<1>8a. CASE AskStatus
  BY <1>8a DEF AskStatus, Stop, ecVars
<1>8. CASE ReadStatus
  BY <1>8 DEF ReadStatus, Stop, IsFrame, ecVars
<1>9. CASE DeadlinePasses
  BY <1>9 DEF DeadlinePasses, Stop, ecVars
<1>10. CASE ReadResponse
  BY <1>10 DEF ReadResponse, Stop, Ok
<1>11. CASE Deselect
  BY <1>2, <1>3, <1>11 DEF Deselect, RaiseCs
<1>12. CASE DeselectFails
  BY <1>2, <1>3, <1>12 DEF DeselectFails, ecVars
<1>13. CASE Tick
  BY <1>13 DEF Tick, ecVars
<1>14. CASE Dies
  BY <1>14 DEF Dies, NoCall, Pending, ecVars
<1>15. CASE Reopen
  BY <1>2, <1>15 DEF Reopen
<1>16. CASE EcFinishes \/ EcListens
  BY <1>16 DEF EcFinishes, EcListens, hostVars
<1>17. CASE UNCHANGED vars
  BY <1>17 DEF vars, hostVars, ecVars
<1> QED BY <1>1, <1>4, <1>5, <1>6, <1>7, <1>8a, <1>8, <1>9, <1>10, <1>11, <1>12, <1>13, <1>14,
           <1>15, <1>16, <1>17 DEF Next, HostStep, ReadStep

\* Every step keeps what is known of chip select and of the EC behind it.
LEMMA ServoStep ==
  ServoInv /\ [Next]_vars => CallInv' /\ SelectInv' /\ CleanInv' /\ JobInv'
<1> DEFINE Kept == CallInv' /\ SelectInv' /\ CleanInv' /\ JobInv'
<1> SUFFICES ASSUME ServoInv, [Next]_vars PROVE Kept
  OBVIOUS
<1> USE DEF ServoInv, TypeOK, CallInv, InCall, SelectInv, CleanInv, JobInv, Refusals, Failed
<1>1. CASE Call
  BY <1>1 DEF Call, ecVars
<1>2. CASE SelectEc
  BY <1>2 DEF SelectEc, PinsTo, ecVars
<1>3. CASE SelectFails
  BY <1>3 DEF SelectFails, Return, ecVars
<1>4. CASE SendRequest
  BY <1>4 DEF SendRequest, Stop, ecVars
<1>5. CASE SendFails
  BY <1>5 DEF SendFails, Stop, ecVars
<1>6a. CASE AskStatus
  BY <1>6a DEF AskStatus, Stop, ecVars
<1>6. CASE ReadStatus
  BY <1>6 DEF ReadStatus, Stop, IsFrame, ecVars
<1>7. CASE DeadlinePasses
  BY <1>7 DEF DeadlinePasses, Stop, ecVars
<1>8. CASE ReadResponse
  BY <1>8 DEF ReadResponse, Stop, Ok, Fits
<1>9. CASE Deselect
  BY <1>9 DEF Deselect, RaiseCs, PinsTo, Return
<1>10. CASE DeselectFails
  BY <1>10 DEF DeselectFails, PinsTo, Return, ecVars
<1>11. CASE Tick
  BY <1>11 DEF Tick, ecVars
<1>12. CASE Dies
  BY <1>12 DEF Dies, ecVars
<1>13. CASE Reopen
  BY <1>13 DEF Reopen, PinsTo, ecVars
<1>14. CASE EcFinishes \/ EcListens
  BY <1>14 DEF EcFinishes, EcListens, hostVars
<1>15. CASE UNCHANGED vars
  BY <1>15 DEF vars, hostVars, ecVars
<1> QED BY <1>1, <1>2, <1>3, <1>4, <1>5, <1>6a, <1>6, <1>7, <1>8, <1>9, <1>10, <1>11, <1>12,
           <1>13, <1>14, <1>15 DEF Next, HostStep, ReadStep

\* The invariant of ec_command_servo_spi() and the EC it talks to.
THEOREM ServoInvariant == Spec => []ServoInv
<1>1. ServoInv /\ [Next]_vars => ServoInv'
  BY ServoTypeStep, ServoStep DEF ServoInv
<1> QED BY ServoInit, <1>1, PTL DEF Spec

\* Every variable has its type, and a header is read only from an EC that is
\* about to send one.
THEOREM ServoTypeCorrect == Spec => []TypeOK
BY ServoInvariant, PTL DEF ServoInv

\* "Make sure the EC was listening": while a call waits, an EC that works or
\* answers does so for this call, whatever earlier calls left behind.
THEOREM ServoEcWasListening == Spec => []EcWasListening
<1>1. ServoInv => EcWasListening
  BY DEF ServoInv, CleanInv, EcWasListening
<1> QED BY <1>1, ServoInvariant, PTL

\* A call succeeds only with an answer to its own command, and one that fits
\* its buffer, unless the pins were last set with an error.
THEOREM ServoOwnAnswer == Spec => OwnAnswer
<1> DEFINE Own == ret' # ret /\ ret'.status = "ok" /\ pins_ok =>
                    ret'.cmd = cur.cmd /\ RespLen[cur.cmd] <= cur.insize
<1>1. ServoInv /\ [Next]_vars => [Own]_vars
  <2> SUFFICES ASSUME ServoInv, Next, ret' # ret, ret'.status = "ok", pins_ok
               PROVE  ret'.cmd = cur.cmd /\ RespLen[cur.cmd] <= cur.insize
    BY DEF vars, hostVars
  <2>1. CASE Deselect
    BY <2>1 DEF Deselect, Return, ServoInv, CleanInv
  <2>a. ret' \notin {Pending, Failed}
    BY DEF Pending, Failed
  <2>2. ~(Call \/ Dies)
    BY <2>a DEF Call, Dies
  <2>3. ~(SelectFails \/ DeselectFails)
    BY <2>a DEF SelectFails, DeselectFails, Return
  <2>4. ~(SelectEc \/ SendRequest \/ SendFails \/ AskStatus \/ ReadStatus \/ DeadlinePasses
          \/ ReadResponse)
    BY DEF SelectEc, SendRequest, SendFails, AskStatus, ReadStatus, DeadlinePasses, ReadResponse
  <2>5. ~(Tick \/ Reopen \/ EcFinishes \/ EcListens)
    BY DEF Tick, Reopen, EcFinishes, EcListens, hostVars
  <2> QED BY <2>1, <2>2, <2>3, <2>4, <2>5 DEF Next, HostStep, ReadStep
<1> QED BY <1>1, ServoInvariant, PTL DEF Spec, OwnAnswer

-----------------------------------------------------------------------------
\* While a call lasts it has a command, and otherwise there is none.
LEMMA InCallHasCommand ==
  ServoInv => /\ InCall => cur # NoCall
              /\ pc = "return" => cur = NoCall
BY NoCommandAssumption DEF ServoInv, CallInv, NoCall

\* A step of the transfer is a step of the abstract call, or leaves it alone,
\* unless it is a success after the pins were set with an error.
LEMMA PromiseStep ==
  ServoInv /\ [Next]_vars /\ (ret'.status = "ok" => pins_ok) =>
    [Promise!Next]_<<cur, Promised>>
<1> SUFFICES ASSUME ServoInv, Next, ret'.status = "ok" => pins_ok,
                    ~UNCHANGED <<cur, ret>>
             PROVE  Promise!Next
  BY DEF vars, hostVars, Promised
<1> USE DEF Promise!Next, Promise!NoCall, Promise!Pending, Promise!Failed, NoCall, Pending,
            Failed, Promised
<1>1. CASE Call
  <2>1. Promise!Call
    BY <1>1, InCallHasCommand DEF Call, Promise!Call
  <2> QED BY <2>1
<1>2. ASSUME InCall, Return(Failed) PROVE Promise!Next
  <2>1. Promise!Fail
    BY <1>2, InCallHasCommand DEF Return, Promise!Fail
  <2> QED BY <2>1
<1>3. CASE SelectFails \/ DeselectFails
  BY <1>2, <1>3 DEF SelectFails, DeselectFails, InCall
<1>4. CASE Dies
  BY <1>4 DEF Dies, Promise!Abandon
<1>5. CASE Deselect
  <2>1. InCall /\ Return(result)
    BY <1>5 DEF Deselect, InCall
  <2>2. CASE result.status = "ok"
    <3>1. result.cmd = cur.cmd /\ RespLen[cur.cmd] <= cur.insize
      BY <1>5, <2>1, <2>2 DEF Deselect, Return, ServoInv, CleanInv
    <3>2. Promise!Succeed
      BY <2>1, <2>2, <3>1, InCallHasCommand DEF Return, Promise!Succeed, Promise!Answer, Ok
    <3> QED BY <3>2
  <2>3. CASE result.status # "ok"
    BY <1>2, <2>1, <2>3 DEF ServoInv, CallInv
  <2> QED BY <2>2, <2>3
<1>6. ~(SelectEc \/ SendRequest \/ SendFails \/ AskStatus \/ ReadStatus \/ DeadlinePasses
        \/ ReadResponse)
  BY DEF SelectEc, SendRequest, SendFails, AskStatus, ReadStatus, DeadlinePasses, ReadResponse
<1>7. ~(Tick \/ Reopen \/ EcFinishes \/ EcListens)
  BY DEF Tick, Reopen, EcFinishes, EcListens, hostVars
<1> QED BY <1>1, <1>3, <1>4, <1>5, <1>6, <1>7 DEF Next, HostStep, ReadStep

\* Call by call the transport implements ec_command(), but for the length.
THEOREM ServoKeepsPromise == Spec => KeepsPromise
<1>1. Init => Promise!Init
  BY DEF Init, Promise!Init, NoCall, Pending, Promised, Promise!NoCall, Promise!Pending
<1> QED BY <1>1, PromiseStep, ServoInvariant, PTL DEF Spec, KeepsPromise
=============================================================================
