------------------------------- MODULE KeyScan --------------------------------
(***************************************************************************)
(* cmd_keyscan() of ectool_keyscan.cc: a file of tests is read, and for    *)
(* each test the EC is given a sequence of keyboard scans, told to play    *)
(* it, and what then arrives at the terminal is compared with what the     *)
(* test expects. A file is lines: "test", "expect", "seq", "endtest".      *)
(***************************************************************************)
EXTENDS Naturals, Sequences

CONSTANTS
  KEYSCAN_MAX_TESTS,
  Scans,       \* the keys pressed at a beat: a line "seq" that can be parsed
  Texts,       \* what a test may expect: sequences of keys
  MaxLines     \* bound: the lines of a file that are commands

ASSUME KeyScanAssumption ==
  /\ KEYSCAN_MAX_TESTS \in Nat /\ MaxLines \in Nat
  /\ \A t \in Texts : t \in Seq(Scans)

VARIABLES
  pc,           \* where cmd_keyscan() is
  lines,        \* lines read
  tests,        \* keyscan->tests: their items, the text expected or {}
  test_count,
  cur_test,     \* the test being read, {} when NULL
  testnum,      \* the test being run
  upto,         \* the items of it sent
  any_err,
  tty,          \* the terminal, "cooked" or "raw"
  typed,        \* the keys that wait at the terminal
  sequence,     \* EC: the scans to play
  played        \* history: for each test, what the EC was told to play

fileVars == <<lines, tests, test_count, cur_test>>
runVars == <<testnum, upto, any_err, tty, typed, played>>
vars == <<pc, fileVars, runVars, sequence>>

Index == 0..KEYSCAN_MAX_TESTS - 1
NoTest == [expect |-> {}, items |-> <<>>]
Ends == {"zero", "failure", "crashed"}

Init ==
  /\ pc = "file"
  /\ lines = 0
  /\ tests = [i \in Index |-> NoTest]
  /\ test_count = 0
  /\ cur_test = {}
  /\ testnum = 0
  /\ upto = 0
  /\ any_err = FALSE
  /\ tty = "cooked"
  /\ typed = <<>>
  /\ sequence \in {<<>>} \cup {<<s>> : s \in Scans}
  /\ played = [i \in Index |-> {}]

-----------------------------------------------------------------------------
\* Arguments, the key matrix and the file: cannot be read, or cannot be parsed.
GiveUp ==
  /\ pc = "file"
  /\ pc' = "failure"
  /\ UNCHANGED <<fileVars, runVars, sequence>>

Line == pc = "file" /\ lines < MaxLines /\ lines' = lines + 1

FullAtEnd == test_count > KEYSCAN_MAX_TESTS     \* a bug
Full == test_count = KEYSCAN_MAX_TESTS

\* What a test had from an earlier line "test" without "endtest", it keeps.
\* Past the limit, which "endtest" does not look at, is not memory of tests.
TestLine ==
  /\ Line
  /\ \/ Full /\ pc' = "failure" /\ UNCHANGED cur_test
     \/ ~Full /\ test_count > KEYSCAN_MAX_TESTS /\ pc' = "crashed" /\ UNCHANGED cur_test
     \/ ~Full /\ test_count <= KEYSCAN_MAX_TESTS /\ cur_test' = {test_count} /\ UNCHANGED pc
  /\ UNCHANGED <<tests, test_count, runVars, sequence>>

ExpectLine ==
  /\ Line
  /\ \/ cur_test = {} /\ pc' = "failure" /\ UNCHANGED tests
     \/ \E i \in cur_test, text \in Texts :
          tests' = [tests EXCEPT ![i].expect = {text}] /\ UNCHANGED pc
  /\ UNCHANGED <<test_count, cur_test, runVars, sequence>>

\* Outside of a test nothing says that there is none.
SeqLine ==
  /\ Line
  /\ \/ cur_test = {} /\ pc' = "crashed" /\ UNCHANGED tests
     \/ \E i \in cur_test, s \in Scans :
          tests' = [tests EXCEPT ![i].items = Append(@, s)] /\ UNCHANGED pc
  /\ UNCHANGED <<test_count, cur_test, runVars, sequence>>

\* Nor does anything say that a test was begun, or that there is room for one.
EndTestLine ==
  /\ Line
  /\ test_count' = test_count + 1
  /\ cur_test' = {}
  /\ UNCHANGED <<pc, tests, runVars, sequence>>

\* keyscan_print() looks at every test counted.
EndOfFile ==
  /\ pc = "file"
  /\ pc' = IF test_count > KEYSCAN_MAX_TESTS THEN "crashed" ELSE "next"
  /\ UNCHANGED <<fileVars, runVars, sequence>>

ReadFile ==
  GiveUp \/ TestLine \/ ExpectLine \/ SeqLine \/ EndTestLine \/ EndOfFile

-----------------------------------------------------------------------------
NextTest ==
  /\ pc = "next"
  /\ upto' = 0
  /\ pc' = IF testnum < test_count THEN "clear"
           ELSE IF any_err THEN "failure" ELSE "zero"
  /\ UNCHANGED <<fileVars, testnum, any_err, tty, typed, played, sequence>>

test == tests[testnum]

\* run_test() returns; the tests go on whatever it returned.
Verdict(err) ==
  /\ any_err' = (any_err \/ err)
  /\ testnum' = testnum + 1
  /\ pc' = "next"

\* A command to the EC: it may fail before or after it took effect.
Acknowledged(next) == pc' = next /\ UNCHANGED <<any_err, testnum>>
Outcome(effect, next) ==
  \/ effect /\ Acknowledged(next)
  \/ (effect \/ UNCHANGED sequence) /\ Verdict(TRUE)

Clear ==
  /\ pc = "clear"
  /\ Outcome(sequence' = <<>>, "add")
  /\ UNCHANGED <<fileVars, upto, tty, typed, played>>

\* A bug: what could not be added is left out.
AddGoesOn ==
  /\ pc = "add" /\ upto < Len(test.items)
  /\ upto' = upto + 1
  /\ sequence' \in {sequence, Append(sequence, test.items[upto + 1])}
  /\ UNCHANGED <<pc, any_err, testnum, fileVars, tty, typed, played>>
Add ==
  /\ pc = "add" /\ upto < Len(test.items)
  /\ upto' = upto + 1
  /\ Outcome(sequence' = Append(sequence, test.items[upto + 1]), "add")
  /\ UNCHANGED <<fileVars, tty, typed, played>>

SetToRaw ==
  /\ pc = "add" /\ upto = Len(test.items)
  /\ tty' = "raw"
  /\ pc' = "start"
  /\ UNCHANGED <<fileVars, testnum, upto, any_err, typed, sequence, played>>

\* When this fails the terminal stays raw, and the keys come all the same if
\* only the answer was lost.
Start ==
  /\ pc = "start"
  /\ \/ /\ typed' = typed \o sequence
        /\ played' = [played EXCEPT ![testnum] = @ \cup {sequence}]
        /\ Acknowledged("input")
     \/ typed' \in {typed, typed \o sequence} /\ Verdict(TRUE) /\ UNCHANGED played
  /\ UNCHANGED <<fileVars, upto, tty, sequence>>

\* What arrived in time is read, and compared when the EC said how it went.
\* A test without "expect" has nothing to compare with.
GetInput(input) ==
  \/ Verdict(TRUE)
  \/ IF test.expect = {}
     THEN pc' = "crashed" /\ UNCHANGED <<any_err, testnum>>
     ELSE Verdict(input \notin test.expect)

CollectInput ==
  /\ pc = "input"
  /\ tty' = "cooked"
  /\ \E n \in 0..Len(typed) :
       /\ typed' = SubSeq(typed, n + 1, Len(typed))
       /\ GetInput(SubSeq(typed, 1, n))
  /\ UNCHANGED <<fileVars, upto, sequence, played>>

RunTests == NextTest \/ Clear \/ Add \/ SetToRaw \/ Start \/ CollectInput

Next == ReadFile \/ RunTests

Spec == Init /\ [][Next]_vars

-----------------------------------------------------------------------------
\* Every variable has its type; the test being read is one of the array.
TypeOK ==
  /\ pc \in {"file", "next", "clear", "add", "start", "input"} \cup Ends
  /\ lines \in 0..MaxLines
  /\ DOMAIN tests = Index
  /\ \A i \in Index : /\ tests[i].expect \subseteq Texts
                      /\ tests[i].items \in Seq(Scans)
  /\ test_count \in Nat
  /\ cur_test \subseteq Index
  /\ testnum \in 0..test_count
  /\ upto \in Nat
  /\ any_err \in BOOLEAN
  /\ tty \in {"cooked", "raw"}
  /\ typed \in Seq(Scans) /\ sequence \in Seq(Scans)

\* When cmd_keyscan() returns 0, the EC was told to play, for each test, the
\* scans of that test and nothing else, whatever an earlier user or a failed
\* test had left in it, and the terminal is as it was.
SuccessIsWhole ==
  pc = "zero" =>
    /\ \A i \in 0..test_count - 1 : played[i] = {tests[i].items}
    /\ tty = "cooked"
=============================================================================
