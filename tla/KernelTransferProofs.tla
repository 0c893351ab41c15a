------------------------- MODULE KernelTransferProofs -------------------------
(***************************************************************************)
(* Typing, OwnAnswer and KeepsPromise for any number of processes and      *)
(* commands: what the EC has to say belongs to the call that waits for it, *)
(* as long as nobody came in between.                                      *)
(***************************************************************************)
EXTENDS KernelTransfer, TLAPS

Response == [cmd : Command \cup {NoCommand},
             result : {"success", "error", "garbled", "unavailable"}, len : Nat]

\* Every variable has its type.
KernelTypeOK ==
  /\ ec_command_proto \in {"DEV", "I2C"}
  /\ pc \in [Proc -> {"idle", "ioctl", "resend", "write", "read"}]
  /\ cur \in [Proc -> [cmd : Command \cup {NoCommand}, insize : Nat]]
  /\ overtaken \in [Proc -> BOOLEAN]
  /\ ret \in [Proc -> [status : {"none", "error", "ok"},
                       cmd : Command \cup {NoCommand}, len : Nat]]
  /\ job \in Command \cup {NoCommand}
  /\ last \in Response

\* A call that is under way has a command; each node has its own places.
PlaceInv ==
  \A p \in Proc :
    /\ ~At(p, "idle") => cur[p].cmd \in Command
    /\ At(p, "idle") => cur[p] = NoCall
    /\ pc[p] \in {"ioctl", "resend"} => Dev
    /\ pc[p] \in {"write", "read"} => ~Dev

\* On the I2C bus one call is under way at a time.
AloneInv ==
  ~Dev => \A p, q \in Proc : ~At(p, "idle") /\ ~At(q, "idle") => p = q

\* The response to command c: still worked on, and no other to be had; or there,
\* and as long as it has to be.
Own(c) ==
  \/ job = c /\ last = NoResponse
  \/ /\ job = NoCommand /\ last.cmd = c
     /\ last.result = "success" => last.len = RespLen[c]

AnswerInv ==
  \A p \in Proc :
    /\ At(p, "read") => Own(cur[p].cmd)
    /\ At(p, "resend") /\ ~overtaken[p] => Own(cur[p].cmd)

KernelInv == KernelTypeOK /\ PlaceInv /\ AloneInv /\ AnswerInv

-----------------------------------------------------------------------------
\* What the EC says of a command is a response of that command.
LEMMA ResponsesType ==
  ASSUME NEW c \in Command, NEW r \in Responses(c) \cup Garbled(c)
  PROVE  /\ r \in Response /\ r.cmd = c
         /\ r.result = "success" => r.len = RespLen[c]
  BY KernelAssumption DEF Responses, Success, Errors, Garbled, Response

\* What a call makes of a response is a result.
LEMMA ResultType ==
  ASSUME NEW p, NEW r \in Response
  PROVE  /\ Result(r, p) \in [status : {"none", "error", "ok"},
                              cmd : Command \cup {NoCommand}, len : Nat]
         /\ Result(r, p).status = "ok" =>
              r.result = "success" /\ Result(r, p) = Ok(r.cmd, r.len)
  BY DEF Result, Response, Ok, Failed, Fits

-----------------------------------------------------------------------------
\* The invariant holds before the first call.
LEMMA KernelInvInit == Init => KernelInv
  <1> SUFFICES ASSUME Init PROVE KernelInv
    OBVIOUS
  <1>1. KernelTypeOK
    BY KernelAssumption DEF Init, KernelTypeOK, NoCall, Pending, NoResponse, Response
  <1>2. PlaceInv /\ AloneInv /\ AnswerInv
    BY DEF Init, PlaceInv, AloneInv, AnswerInv, At
  <1> QED BY <1>1, <1>2 DEF KernelInv

\* Every step keeps the types, with the places and commands they depend on.
LEMMA KernelTypeStep == KernelInv /\ [Next]_vars => KernelTypeOK'
  <1> SUFFICES ASSUME KernelInv, [Next]_vars PROVE KernelTypeOK'
    OBVIOUS
  <1> USE DEF KernelInv, KernelTypeOK
  <1>n. NoResponse \in Response
    BY DEF NoResponse, Response
  <1>f. /\ Failed \in [status : {"none", "error", "ok"}, cmd : Command \cup {NoCommand}, len : Nat]
        /\ Pending \in [status : {"none", "error", "ok"}, cmd : Command \cup {NoCommand}, len : Nat]
        /\ NoCall \in [cmd : Command \cup {NoCommand}, insize : Nat]
    BY DEF Failed, Pending, NoCall
  <1>1. CASE EcFinishes
    BY <1>1, ResponsesType DEF EcFinishes, callVars
  <1>2. ASSUME NEW p \in Proc, Call(p) PROVE KernelTypeOK'
    BY <1>2, <1>f, KernelAssumption DEF Call
  <1>r. ASSUME NEW p \in Proc,
               NEW r \in [status : {"none", "error", "ok"}, cmd : Command \cup {NoCommand}, len : Nat],
               Return(p, r), UNCHANGED <<overtaken, ec_command_proto, job, last>>
        PROVE  KernelTypeOK'
    BY <1>r, <1>f DEF Return
  <1>3. ASSUME NEW p \in Proc, Refuse(p) \/ ResendFails(p) \/ Dies(p) PROVE KernelTypeOK'
    BY <1>3, <1>f, <1>r DEF Refuse, ResendFails, Dies
  <1>4. ASSUME NEW p \in Proc, Ioctl(p) PROVE KernelTypeOK'
    <2>1. PICK r \in Responses(cur[p].cmd) : last' = r /\ Return(p, Result(r, p))
      BY <1>4 DEF Ioctl
    <2>2. cur[p].cmd \in Command
      BY <1>4 DEF Ioctl, PlaceInv, At
    <2>3. r \in Response
      BY <2>2, ResponsesType
    <2> QED BY <1>4, <1>f, <2>1, <2>3, ResultType DEF Ioctl, Return, Overtakes
  <1>5. ASSUME NEW p \in Proc, IoctlInProgress(p) PROVE KernelTypeOK'
    BY <1>5, <1>n DEF IoctlInProgress, GoTo, Overtakes
  <1>6. ASSUME NEW p \in Proc, IoctlFails(p) PROVE KernelTypeOK'
    BY <1>6, <1>n, <1>f DEF IoctlFails, Return, Overtakes
  <1>7. ASSUME NEW p \in Proc, Resend(p) PROVE KernelTypeOK'
    BY <1>7, <1>f, <1>r, ResultType DEF Resend
  <1>8. ASSUME NEW p \in Proc, Write(p) PROVE KernelTypeOK'
    <2>1. CASE Return(p, Failed) /\ UNCHANGED <<job, last>>
      BY <1>8, <1>f, <1>r, <2>1 DEF Write
    <2>2. CASE job' = cur[p].cmd /\ last' = NoResponse /\ GoTo(p, "read")
      BY <1>8, <1>n, <2>2 DEF Write, GoTo
    <2> QED BY <1>8, <2>1, <2>2 DEF Write
  <1>9. ASSUME NEW p \in Proc, Read(p) PROVE KernelTypeOK'
    BY <1>9, <1>f, <1>r, ResultType DEF Read
  <1>10. CASE UNCHANGED vars
    BY <1>10 DEF vars, callVars
  <1> QED BY <1>1, <1>2, <1>3, <1>4, <1>5, <1>6, <1>7, <1>8, <1>9, <1>10 DEF Next, HostStep

\* Every step keeps calls in the places of their node, and alone on the bus.
LEMMA PlaceStep == KernelInv /\ [Next]_vars => PlaceInv' /\ AloneInv'
  <1> SUFFICES ASSUME KernelInv, [Next]_vars PROVE PlaceInv' /\ AloneInv'
    OBVIOUS
  <1> USE DEF KernelInv, KernelTypeOK, PlaceInv, AloneInv, At, Dev
  <1>1. CASE EcFinishes
    BY <1>1 DEF EcFinishes, callVars
  <1>2. ASSUME NEW p \in Proc, Call(p) PROVE PlaceInv' /\ AloneInv'
    BY <1>2 DEF Call, MayCall
  <1>3. ASSUME NEW p \in Proc, NEW r, Return(p, r), UNCHANGED ec_command_proto
        PROVE  PlaceInv' /\ AloneInv'
    BY <1>3 DEF Return
  <1>4. ASSUME NEW p \in Proc, IoctlInProgress(p) PROVE PlaceInv' /\ AloneInv'
    BY <1>4 DEF IoctlInProgress, GoTo
  <1>5. ASSUME NEW p \in Proc, Write(p) PROVE PlaceInv' /\ AloneInv'
    <2>1. CASE GoTo(p, "read")
      BY <1>5, <2>1 DEF Write, GoTo
    <2> QED BY <1>3, <1>5, <2>1 DEF Write
  <1>6. ASSUME NEW p \in Proc, Refuse(p) \/ ResendFails(p) \/ Dies(p) \/ Ioctl(p) \/
                               IoctlFails(p) \/ Resend(p) \/ Read(p)
        PROVE  PlaceInv' /\ AloneInv'
    BY <1>3, <1>6 DEF Refuse, ResendFails, Dies, Ioctl, IoctlFails, Resend, Read
  <1>7. CASE UNCHANGED vars
    BY <1>7 DEF vars, callVars
  <1> QED BY <1>1, <1>2, <1>4, <1>5, <1>6, <1>7 DEF Next, HostStep

\* Every step leaves the EC's response to the call that waits for it, or marks
\* the call as overtaken.
LEMMA AnswerStep == KernelInv /\ [Next]_vars => AnswerInv'
  <1> SUFFICES ASSUME KernelInv, [Next]_vars, NEW q \in Proc
               PROVE  /\ (At(q, "read") => Own(cur[q].cmd))'
                      /\ (At(q, "resend") /\ ~overtaken[q] => Own(cur[q].cmd))'
    BY DEF AnswerInv
  <1> USE DEF KernelInv, KernelTypeOK, AnswerInv, PlaceInv, AloneInv, At, Dev
  <1> DEFINE Kept == /\ (At(q, "read") => Own(cur[q].cmd))'
                     /\ (At(q, "resend") /\ ~overtaken[q] => Own(cur[q].cmd))'
  <1>1. CASE EcFinishes
    <2>1. Own(cur[q].cmd) /\ cur[q].cmd \in Command => job = cur[q].cmd
      BY <1>1, KernelAssumption DEF EcFinishes, Own
    <2>2. last'.cmd = job /\ (last'.result = "success" => last'.len = RespLen[job])
      BY <1>1, ResponsesType DEF EcFinishes
    <2> QED BY <1>1, <2>1, <2>2 DEF EcFinishes, Own, callVars
  <1>2. ASSUME NEW p \in Proc, Call(p) PROVE Kept
    BY <1>2 DEF Call, Own
  <1>3. ASSUME NEW p \in Proc, NEW r, Return(p, r), UNCHANGED <<overtaken, job, last>>
        PROVE  Kept
    BY <1>3 DEF Return, Own
  <1>4. ASSUME NEW p \in Proc, Ioctl(p) PROVE Kept
    BY <1>4 DEF Ioctl, Return, Overtakes, Own
  <1>5. ASSUME NEW p \in Proc, IoctlInProgress(p) PROVE Kept
    BY <1>5 DEF IoctlInProgress, GoTo, Overtakes, Own
  <1>6. ASSUME NEW p \in Proc, IoctlFails(p) PROVE Kept
    <2>1. CASE UNCHANGED <<overtaken, job, last>>
      BY <1>3, <1>6, <2>1 DEF IoctlFails
    <2>2. CASE overtaken' = Overtakes(p)
      BY <1>6, <2>2 DEF IoctlFails, Return, Overtakes, Own
    <2> QED BY <1>6, <2>1, <2>2 DEF IoctlFails
  <1>7. ASSUME NEW p \in Proc, Write(p) PROVE Kept
    <2>1. CASE job' = cur[p].cmd /\ last' = NoResponse /\ GoTo(p, "read")
      <3>1. CASE q = p
        BY <1>7, <2>1, <3>1 DEF Write, GoTo, Own
      <3>2. CASE q # p
        <4>1. At(q, "idle")
          BY <1>7, <3>2 DEF Write
        <4> QED BY <2>1, <3>2, <4>1 DEF GoTo
      <3> QED BY <3>1, <3>2
    <2>2. CASE Return(p, Failed) /\ UNCHANGED <<job, last>>
      BY <1>3, <1>7, <2>2 DEF Write
    <2> QED BY <1>7, <2>1, <2>2 DEF Write
  <1>8. ASSUME NEW p \in Proc, Refuse(p) \/ ResendFails(p) \/ Dies(p) \/ Resend(p) \/ Read(p)
        PROVE  Kept
    BY <1>3, <1>8 DEF Refuse, ResendFails, Dies, Resend, Read
  <1>9. CASE UNCHANGED vars
    BY <1>9 DEF vars, callVars, Own
  <1> QED BY <1>1, <1>2, <1>4, <1>5, <1>6, <1>7, <1>8, <1>9 DEF Next, HostStep

\* The invariant of ec_command_dev(), ec_command_dev_v2() and
\* ec_command_i2c_3(): in every reachable state the response the EC keeps is
\* that of the call that waits for it, unless another process was served.
THEOREM KernelInvariant == Spec => []KernelInv
  <1>1. KernelInv /\ [Next]_vars => KernelInv'
    BY KernelTypeStep, PlaceStep, AnswerStep DEF KernelInv
  <1> QED BY KernelInvInit, <1>1, PTL DEF Spec

\* Of the two nodes' calls, of the EC's work and of its last response every part
\* has its type: no answer has a negative length, and no process is in a place
\* the other node has.
THEOREM KernelTypeCorrect == Spec => [](KernelTypeOK /\ PlaceInv)
  <1> QED BY KernelInvariant, PTL DEF KernelInv

-----------------------------------------------------------------------------
\* A call that gets its result from a response which is the command's own
\* returns its own answer, whole, or an error.
LEMMA OwnResult ==
  ASSUME KernelInv, NEW p \in Proc, cur[p].cmd \in Command,
         NEW r \in Response, Result(r, p).status = "ok",
         r.result = "success" => r.cmd = cur[p].cmd /\ r.len = RespLen[cur[p].cmd]
  PROVE  Result(r, p) = Ok(cur[p].cmd, RespLen[cur[p].cmd])
  BY ResultType

\* ... which the response kept for it is.
LEMMA OwnKept ==
  ASSUME KernelInv, NEW p \in Proc, cur[p].cmd \in Command, Own(cur[p].cmd)
  PROVE  last.result = "success" =>
           last.cmd = cur[p].cmd /\ last.len = RespLen[cur[p].cmd]
  BY DEF Own, NoResponse

\* Over /dev and over I2C a call succeeds only with its own whole answer, for
\* any number of processes, commands and lengths, whatever fails or dies,
\* unless the EC served another process between its two ioctls.
THEOREM KernelOwnAnswer == Spec => OwnAnswer
  <1> DEFINE Step == \A p \in Proc :
               ret'[p] # ret[p] /\ ret'[p].status = "ok" /\ ~overtaken[p] =>
                 ret'[p] = Ok(cur[p].cmd, RespLen[cur[p].cmd])
  <1>1. KernelInv /\ [Next]_vars => [Step]_vars
    <2> SUFFICES ASSUME KernelInv, Next, NEW q \in Proc, ret'[q] # ret[q],
                        ret'[q].status = "ok", ~overtaken[q]
                 PROVE  ret'[q] = Ok(cur[q].cmd, RespLen[cur[q].cmd])
      BY DEF vars, callVars
    <2> USE DEF KernelInv, KernelTypeOK
    <2>1. ASSUME NEW p \in Proc, NEW r, Return(p, r) PROVE p = q /\ ret'[q] = r
      BY <2>1 DEF Return
    <2>2. ~EcFinishes
      BY DEF EcFinishes, callVars
    <2>3. ASSUME NEW p \in Proc, Call(p) PROVE FALSE
      BY <2>3 DEF Call, Pending
    <2>4. ASSUME NEW p \in Proc, Return(p, Failed) \/ Return(p, Pending) PROVE FALSE
      BY <2>1, <2>4 DEF Failed, Pending
    <2>5. ASSUME NEW p \in Proc, Refuse(p) \/ ResendFails(p) \/ Dies(p) \/ IoctlFails(p)
          PROVE  FALSE
      BY <2>4, <2>5 DEF Refuse, ResendFails, Dies, IoctlFails
    <2>6. ASSUME NEW p \in Proc, IoctlInProgress(p) PROVE FALSE
      BY <2>6 DEF IoctlInProgress, GoTo
    <2>7. ASSUME NEW p \in Proc, Write(p) PROVE FALSE
      BY <2>4, <2>7 DEF Write, GoTo
    <2>8. ASSUME NEW p \in Proc, Ioctl(p)
          PROVE  ret'[q] = Ok(cur[q].cmd, RespLen[cur[q].cmd])
      <3>1. PICK r \in Responses(cur[p].cmd) : Return(p, Result(r, p))
        BY <2>8 DEF Ioctl
      <3>2. cur[p].cmd \in Command
        BY <2>8 DEF Ioctl, PlaceInv, At
      <3>3. r \in Response /\ r.cmd = cur[p].cmd /\ (r.result = "success" => r.len = RespLen[cur[p].cmd])
        BY <3>2, ResponsesType
      <3> QED BY <2>1, <3>1, <3>2, <3>3, OwnResult
    <2>9. ASSUME NEW p \in Proc, Resend(p)
          PROVE  ret'[q] = Ok(cur[q].cmd, RespLen[cur[q].cmd])
      <3>1. p = q /\ ret'[q] = Result(last, q)
        BY <2>1, <2>4, <2>9 DEF Resend
      <3>2. cur[q].cmd \in Command /\ Own(cur[q].cmd)
        BY <2>9, <3>1 DEF Resend, PlaceInv, AnswerInv, At
      <3> QED BY <3>1, <3>2, OwnKept, OwnResult
    <2>10. ASSUME NEW p \in Proc, Read(p)
           PROVE  ret'[q] = Ok(cur[q].cmd, RespLen[cur[q].cmd])
      <3>1. p = q /\ ret'[q] = Result(last, q)
        BY <2>1, <2>4, <2>10 DEF Read
      <3>2. cur[q].cmd \in Command /\ Own(cur[q].cmd)
        BY <2>10, <3>1 DEF Read, PlaceInv, AnswerInv, At
      <3> QED BY <3>1, <3>2, OwnKept, OwnResult
    <2> QED BY <2>2, <2>3, <2>5, <2>6, <2>7, <2>8, <2>9, <2>10 DEF Next, HostStep
  <1> QED BY <1>1, KernelInvariant, PTL DEF Spec, OwnAnswer

-----------------------------------------------------------------------------
\* A call that succeeds, and was not overtaken, had room for its answer.
LEMMA OwnFits ==
  ASSUME KernelInv, NEW p \in Proc, cur[p].cmd \in Command,
         NEW r \in Response, Result(r, p).status = "ok",
         r.result = "success" => r.cmd = cur[p].cmd /\ r.len = RespLen[cur[p].cmd]
  PROVE  RespLen[cur[p].cmd] <= cur[p].insize
  BY ResultType DEF Result, Fits, Failed

\* For each process, a step of any of them is a step of its abstract call or
\* leaves it alone, unless it is a success of a call that was overtaken.
LEMMA PromiseStep ==
  ASSUME NEW q \in Proc
  PROVE  KernelInv /\ [Next]_vars /\ (ret'[q].status = "ok" => ~overtaken[q]) =>
           [Promise(q)!Next]_<<cur[q], ret[q]>>
  <1> SUFFICES ASSUME KernelInv, Next, ret'[q].status = "ok" => ~overtaken[q],
                      ~UNCHANGED <<cur[q], ret[q]>>
               PROVE  Promise(q)!Next
    BY DEF vars, callVars
  <1> USE DEF KernelInv, KernelTypeOK, NoCall, Pending, Failed
  <1>1. At(q, "idle") <=> cur[q] = NoCall
    BY KernelAssumption DEF PlaceInv
  <1>2. ~EcFinishes
    BY DEF EcFinishes, callVars
  <1>3. ASSUME NEW p \in Proc, Call(p) PROVE Promise(q)!Next
    <2>1. p = q /\ ret'[q] = Pending /\ cur[q] = NoCall
          /\ \E c \in Command, n \in InSizes : cur'[q] = [cmd |-> c, insize |-> n]
      BY <1>1, <1>3 DEF Call
    <2> QED BY <2>1 DEF Promise!Next, Promise!Call, Promise!NoCall, Promise!Pending
  <1>4. ASSUME NEW p \in Proc, ~At(p, "idle"), Return(p, Failed) PROVE Promise(q)!Next
    <2>1. p = q /\ ret'[q] = Failed /\ cur'[q] = NoCall /\ cur[q] # NoCall
      BY <1>1, <1>4 DEF Return, At
    <2> QED BY <2>1 DEF Promise!Next, Promise!Fail, Promise!NoCall, Promise!Failed
  <1>5. ASSUME NEW p \in Proc, Dies(p) PROVE Promise(q)!Next
    <2>1. p = q /\ ret'[q] = Pending /\ cur'[q] = NoCall
      BY <1>5 DEF Dies, Return
    <2> QED BY <2>1 DEF Promise!Next, Promise!Abandon, Promise!NoCall, Promise!Pending
  <1>6. ASSUME NEW p \in Proc, Refuse(p) \/ ResendFails(p) \/ IoctlFails(p)
        PROVE  Promise(q)!Next
    BY <1>4, <1>6 DEF Refuse, ResendFails, IoctlFails, At
  <1>7. ASSUME NEW p \in Proc, IoctlInProgress(p) PROVE Promise(q)!Next
    BY <1>7 DEF IoctlInProgress, GoTo
  <1>8. ASSUME NEW p \in Proc, Write(p) PROVE Promise(q)!Next
    BY <1>4, <1>8 DEF Write, GoTo, At
  <1>9. ASSUME NEW p \in Proc, NEW r \in Response, ~At(p, "idle"), Return(p, Result(r, p)),
               p = q /\ ~overtaken[q] =>
                 (r.result = "success" => r.cmd = cur[p].cmd /\ r.len = RespLen[cur[p].cmd])
        PROVE  Promise(q)!Next
    <2>1. p = q /\ cur[q] # NoCall /\ cur[q].cmd \in Command
      BY <1>1, <1>9 DEF Return, PlaceInv, At
    <2>2. ret'[q] = Result(r, q) /\ cur'[q] = NoCall
      BY <1>9, <2>1 DEF Return
    <2>3. CASE Result(r, q).status = "ok"
      <3>1. ~overtaken[q]
        BY <2>2, <2>3
      <3>2. r.result = "success" => r.cmd = cur[q].cmd /\ r.len = RespLen[cur[q].cmd]
        BY <1>9, <2>1, <3>1
      <3>3. /\ Result(r, q) = Ok(cur[q].cmd, RespLen[cur[q].cmd])
            /\ RespLen[cur[q].cmd] <= cur[q].insize
        BY <2>1, <2>3, <3>2, OwnResult, OwnFits
      <3> QED BY <2>1, <2>2, <3>3
              DEF Promise!Next, Promise!Succeed, Promise!Answer, Promise!NoCall, Ok
    <2>4. CASE Result(r, q).status # "ok"
      <3>1. Result(r, q) = Failed
        BY <2>4 DEF Result, Ok
      <3> QED BY <1>4, <1>9, <2>1, <3>1
    <2> QED BY <2>3, <2>4
  <1>10. ASSUME NEW p \in Proc, Ioctl(p) PROVE Promise(q)!Next
    <2>1. PICK r \in Responses(cur[p].cmd) : Return(p, Result(r, p))
      BY <1>10 DEF Ioctl
    <2>2. cur[p].cmd \in Command /\ ~At(p, "idle")
      BY <1>10 DEF Ioctl, PlaceInv, At
    <2>3. /\ r \in Response /\ r.cmd = cur[p].cmd
          /\ r.result = "success" => r.len = RespLen[cur[p].cmd]
      BY <2>2, ResponsesType
    <2> QED BY <1>9, <2>1, <2>2, <2>3
  <1>11. ASSUME NEW p \in Proc, Resend(p) PROVE Promise(q)!Next
    <2>1. cur[p].cmd \in Command /\ ~At(p, "idle") /\ (~overtaken[p] => Own(cur[p].cmd))
      BY <1>11 DEF Resend, PlaceInv, AnswerInv, At
    <2>2. p = q /\ ~overtaken[q] =>
            (last.result = "success" => last.cmd = cur[p].cmd /\ last.len = RespLen[cur[p].cmd])
      BY <2>1, OwnKept
    <2> QED BY <1>4, <1>9, <1>11, <2>1, <2>2 DEF Resend
  <1>12. ASSUME NEW p \in Proc, Read(p) PROVE Promise(q)!Next
    <2>1. cur[p].cmd \in Command /\ ~At(p, "idle") /\ Own(cur[p].cmd)
      BY <1>12 DEF Read, PlaceInv, AnswerInv, At
    <2>2. p = q /\ ~overtaken[q] =>
            (last.result = "success" => last.cmd = cur[p].cmd /\ last.len = RespLen[cur[p].cmd])
      BY <2>1, OwnKept
    <2> QED BY <1>4, <1>9, <1>12, <2>1, <2>2 DEF Read
  <1> QED BY <1>2, <1>3, <1>5, <1>6, <1>7, <1>8, <1>10, <1>11, <1>12 DEF Next, HostStep

\* For any number of processes, call by call, both nodes implement ec_command().
THEOREM KernelKeepsPromise == Spec => KeepsPromise
  <1> DEFINE Step == \A p \in Proc :
               (ret'[p].status = "ok" => ~overtaken[p]) =>
                 [Promise(p)!Next]_<<cur[p], ret[p]>>
  <1>1. Init => \A p \in Proc : Promise(p)!Init
    BY DEF Init, Promise!Init, NoCall, Pending, Promise!NoCall, Promise!Pending
  <1>2. KernelInv /\ [Next]_vars => Step
    BY PromiseStep
  <1> QED BY <1>1, <1>2, KernelInvariant, PTL DEF Spec, KeepsPromise
=============================================================================
