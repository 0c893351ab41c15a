-------------------------------- MODULE Script --------------------------------
(***************************************************************************)
(* The vocabulary in which the command handlers of ectool.cc are written   *)
(* down: a handler is a sequence of steps, each with what follows when it  *)
(* goes one way or the other. What it keeps of a handler is its control:   *)
(* which commands it sends, in which version and order, what it does when  *)
(* one fails, where it looks at its arguments, and what it returns.        *)
(* Handlers gives the steps their meaning.                                 *)
(***************************************************************************)
EXTENDS Naturals, Sequences

CONSTANT MaxRounds    \* bound: the rounds of a loop
ASSUME MaxRoundsAssumption == MaxRounds \in Nat

Step(o, c, v, a) == [op |-> o, cmd |-> c, ver |-> v, alt |-> a]

\* Arguments, or a file named by one, are looked at: goes on, or ends with a
\* failure.
Args == Step("args", "", 0, <<>>)
File == Step("args", "", 0, <<>>)

\* Light bar parameters of a format are read from a file.
Reads(format) == Step("reads", format, 0, <<>>)

\* The user asks for a change that not every version of the command, or not
\* every branch of the handler, makes; and the step that makes it.
Asked(what) == Step("asked", what, 0, <<>>)
Makes(what) == Step("makes", what, 0, <<>>)

\* Files, memory or an answer are looked at: goes on, or ends with a failure.
Check == Step("check", "", 0, <<>>)

\* The answer has to be as long as its struct.
Whole == Step("whole", "", 0, <<>>)

\* ec_readmem(), which ends the process when it fails.
Mem == Step("mem", "", 0, <<>>)

\* ec_pollevent() through wait_event(), the test whether there is one, and
\* inb() and outb(), for which main() must have got the I/O ports.
Poll == Step("poll", "", 0, <<>>)
CanPoll == Step("canpoll", "", 0, <<>>)
PortIo == Step("ports", "", 0, <<>>)

\* ec_command(): one that only asks, one that changes something, one that does
\* both. A failure ends the handler unless IfOk says otherwise.
Get(c, v) == Step("get", c, v, <<>>)
Set(c, v) == Step("set", c, v, <<>>)
SetGet(c, v) == Step("setget", c, v, <<>>)

IfOk(s, yes, no) == [s EXCEPT !.alt = <<yes, no>>]
Or(s, no) == IfOk(s, <<>>, no)
Try(s) == IfOk(s, <<>>, <<>>)

\* ec_cmd_version_supported(c, v).
Supported(c, v, yes, no) == Step("supported", c, v, <<yes, no>>)

\* The mask of versions of c, and a test of the versions learned.
Versions(c) == Step("versions", c, 0, <<>>)
Knows(c, v, yes, no) == Step("knows", c, v, <<yes, no>>)

\* Whether the last command returned a length, and not 0.
Positive(yes, no) == Step("positive", "", 0, <<yes, no>>)

\* Arguments or an answer decide.
Pick(alternatives) == Step("pick", "", 0, alternatives)
Repeat(body) == Step("repeat", "", MaxRounds, <<body>>)
\* Until the user interrupts it.
Forever(body) == Step("forever", "", 0, <<body>>)
Maybe(body) == Pick(<<<<>>, body>>)

\* The end of a script returns 0. Otherwise: a failure, or the result of the
\* last command, which is the length of its answer. A failure follows one of
\* the steps before; or what the EC answered, or a file says, rules the request
\* out; or the arguments make no sense.
Return(what) == Step("return", what, 0, <<>>)
Fail == Return("failure")
Refuse == Return("answer")
Reject == Return("input")
Done == Return("zero")
ReturnRv == Return("rv")
=============================================================================
