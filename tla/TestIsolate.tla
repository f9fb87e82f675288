----------------------------- MODULE TestIsolate -----------------------------
(***************************************************************************)
(* The isolated test runner of lullaby test                                  *)
(* (src/crates/lullaby_cli/src/commands/test_isolate.rs): a parent starts a   *)
(* child process for the rest of the suite, the child reports each test on a *)
(* private pipe, a reader thread moves the lines to a channel, and when the  *)
(* child crashes or a deadline passes the parent settles the test in flight   *)
(* and starts another child behind it.                                       *)
(*                                                                         *)
(* A line is one write to the pipe, so a child that dies has written it or   *)
(* has not.  The time limit of a test is longer or shorter than any of its    *)
(* steps: a deadline may pass whenever the parent waits on an empty channel.   *)
(* A child compiles the file again, which may have changed since the parent   *)
(* listed its tests.                                                         *)
(*                                                                         *)
(* An operator named Mutant... is a deliberate mistake in the operator that  *)
(* follows it; no action uses it.                                          *)
(***************************************************************************)
EXTENDS Integers, Sequences

CONSTANTS
    Tests,        \* number of tests the parent found; they are 0 .. Tests - 1
    SuiteSizes    \* numbers of tests a child may find

ASSUME SuiteAssumption == Tests \in Nat /\ SuiteSizes \subseteq Nat

None == -1     \* no test

VARIABLES
    pc,        \* the parent: at the top of its loop, in a batch, reaping, ended
    deadline,  \* whether tests have a time limit (--timeout 0 turns it off)
    next,      \* the test to resume at
    inFlight,  \* the test the parent believes to be running
    last,      \* the last test reported in this batch
    resume,    \* where the finished batch says to resume
    verdicts,  \* the verdicts printed
    chan,      \* lines the reader has moved, eof when it has ended
    eof,
    pipe,      \* lines written and not yet read
    helper,    \* what a background process of the tests holds as its stdin
    child,     \* what the child is doing
    at,        \* the test it is at
    size,      \* the number of tests it found
    outcome,   \* how its last test returned
    slot,      \* what is in its stdin slot, which its own children inherit
    returned   \* history: <<test, outcome>> of the tests this child returned from

parentVars == <<pc, deadline, next, inFlight, last, resume, verdicts>>
childVars  == <<child, at, size, outcome, slot, returned, helper>>
pipeVars   == <<chan, eof, pipe>>
vars == <<parentVars, childVars, pipeVars>>

Kinds == {"pass", "fail", "crash", "timeout", "silent"}
Line  == [verb : {"start", "pass", "fail", "done"}, index : Nat]

TypeOK ==
    /\ pc \in {"resume", "batch", "reap", "ended", "error"}
    /\ deadline \in BOOLEAN
    /\ next \in Nat /\ resume \in Nat
    /\ inFlight \in Nat \cup {None} /\ last \in Nat \cup {None}
    /\ verdicts \in Seq([index : Nat, kind : Kinds])
    /\ chan \in Seq(Line) /\ pipe \in Seq(Line) /\ eof \in BOOLEAN
    /\ child \in {"boot", "compile", "start", "run", "hung", "report", "exit", "dead"}
    /\ at \in Nat /\ size \in Nat
    /\ outcome \in {"pass", "fail"}
    /\ slot \in {"pipe", "null"} /\ helper \in {"pipe", "null", "none"}
    /\ returned \subseteq Nat \X {"pass", "fail"}

Init ==
    /\ pc = "resume" /\ deadline \in BOOLEAN
    /\ next = 0 /\ resume = 0 /\ inFlight = None /\ last = None
    /\ verdicts = <<>>
    /\ chan = <<>> /\ pipe = <<>> /\ eof = FALSE
    /\ child = "dead" /\ at = 0 /\ size = 0 /\ outcome = "pass"
    /\ slot = "null" /\ helper = "none" /\ returned = {}

(***************************************************************************)
(* The child                                                               *)
(***************************************************************************)
Alive == child # "dead"

Write(verb, index) == pipe' = Append(pipe, [verb |-> verb, index |-> index])

Die == child' = "dead"

(* Someone can still write to the pipe.                                    *)
WriteEndOpen == Alive \/ helper = "pipe"

MutantSlotKept == "pipe"

(* take_protocol_channel leaves the null device in the slot.               *)
SlotAfterTake == "null"

TakeChannel ==
    /\ child = "boot" /\ child' = "compile"
    /\ slot' = SlotAfterTake
    /\ UNCHANGED <<parentVars, pipeVars, at, size, outcome, returned, helper>>

(* No channel to take, or the file no longer compiles: the child ends with   *)
(* an error and reports no test.                                           *)
FailEarly ==
    /\ child \in {"boot", "compile"} /\ Die
    /\ UNCHANGED <<parentVars, pipeVars, at, size, outcome, slot, returned, helper>>

Compile ==
    /\ child = "compile" /\ child' = "start"
    /\ size' \in SuiteSizes
    /\ UNCHANGED <<parentVars, pipeVars, at, outcome, slot, returned, helper>>

StartTest ==
    /\ child = "start" /\ at < size
    /\ Write("start", at) /\ child' = "run"
    /\ UNCHANGED <<parentVars, chan, eof, at, size, outcome, slot, returned, helper>>

Return(how) ==
    /\ child = "run" /\ child' = "report"
    /\ outcome' = how
    /\ returned' = returned \cup {<<at, how>>}
    /\ UNCHANGED <<parentVars, pipeVars, at, size, slot, helper>>

(* The test never returns.                                                 *)
Hang ==
    /\ child = "run" /\ child' = "hung"
    /\ UNCHANGED <<parentVars, pipeVars, at, size, outcome, slot, returned, helper>>

(* proc_spawn inherits the stdin slot: a background process holds whatever   *)
(* the slot held, for as long as it lives.                                 *)
SpawnHelper ==
    /\ child = "run" /\ helper = "none" /\ helper' = slot
    /\ UNCHANGED <<parentVars, pipeVars, child, at, size, outcome, slot, returned>>

HelperEnds ==
    /\ helper # "none" /\ helper' = "none"
    /\ UNCHANGED <<parentVars, pipeVars, child, at, size, outcome, slot, returned>>

ReportTest ==
    /\ child = "report" /\ child' = "start"
    /\ Write(outcome, at) /\ at' = at + 1
    /\ UNCHANGED <<parentVars, chan, eof, size, outcome, slot, returned, helper>>

ReportDone ==
    /\ child = "start" /\ at >= size
    /\ Write("done", 0) /\ child' = "exit"
    /\ UNCHANGED <<parentVars, chan, eof, at, size, outcome, slot, returned, helper>>

Exit ==
    /\ child = "exit" /\ Die
    /\ UNCHANGED <<parentVars, pipeVars, at, size, outcome, slot, returned, helper>>

(* A stack overflow of the test or of a thread it left behind, or a signal.  *)
Crash ==
    /\ child \in {"start", "run", "hung", "report"} /\ Die
    /\ UNCHANGED <<parentVars, pipeVars, at, size, outcome, slot, returned, helper>>

ChildStep ==
    \/ TakeChannel \/ FailEarly \/ Compile \/ StartTest \/ ReportTest \/ ReportDone
    \/ Exit \/ Crash \/ Hang \/ \E how \in {"pass", "fail"} : Return(how)

(***************************************************************************)
(* The reader thread                                                       *)
(***************************************************************************)
ReadLine ==
    /\ pipe # <<>> /\ ~eof
    /\ chan' = Append(chan, Head(pipe)) /\ pipe' = Tail(pipe)
    /\ UNCHANGED <<parentVars, childVars, eof>>

ReadEof ==
    /\ pc = "batch" /\ pipe = <<>> /\ ~eof /\ ~WriteEndOpen
    /\ eof' = TRUE
    /\ UNCHANGED <<parentVars, childVars, chan, pipe>>

(***************************************************************************)
(* The parent: run_isolated                                                *)
(***************************************************************************)
(* A verdict on test i; the summary counts them.                            *)
Judge(i, kind) == verdicts' = Append(verdicts, [index |-> i, kind |-> kind])

MutantStaleChannel == eof' = FALSE /\ UNCHANGED <<chan, pipe>>

(* Lines of an earlier child that are still unread are lost with its channel. *)
FreshChannel == eof' = FALSE /\ chan' = <<>> /\ pipe' = <<>>

(* The top of run_batch: a fresh pipe, channel and child.                    *)
Spawn ==
    /\ pc = "resume" /\ next < Tests /\ pc' = "batch"
    /\ inFlight' = None /\ last' = None
    /\ FreshChannel
    /\ child' = "boot" /\ at' = next /\ slot' = "pipe"
    /\ returned' = {}
    /\ UNCHANGED <<deadline, next, resume, verdicts, size, outcome, helper>>

(* No pipe, or no child process: the command ends with an error.             *)
SpawnFails ==
    /\ pc = "resume" /\ next < Tests /\ pc' = "error"
    /\ UNCHANGED <<deadline, next, inFlight, last, resume, verdicts, childVars, pipeVars>>

Finish ==
    /\ pc = "resume" /\ next >= Tests /\ pc' = "ended"
    /\ UNCHANGED <<deadline, next, inFlight, last, resume, verdicts, childVars, pipeVars>>

(* The child is waited for.  A batch that made no progress fails the test it  *)
(* was started at, so that the run goes on behind it.                        *)
Reap ==
    /\ pc = "reap" /\ ~Alive /\ pc' = "resume"
    /\ \/ resume > next /\ next' = resume /\ UNCHANGED verdicts
       \/ resume <= next /\ next' = next + 1 /\ Judge(next, "silent")
    /\ UNCHANGED <<deadline, inFlight, last, resume, childVars, pipeVars>>

(***************************************************************************)
(* The parent: the loop of run_batch                                        *)
(***************************************************************************)
MutantAfterReported == IF last = None THEN next ELSE last - 1

(* Behind the last test reported, never the end of the suite on a guess.      *)
AfterReported == IF last = None THEN next ELSE last + 1

Hear(verb) ==
    /\ pc = "batch" /\ chan # <<>> /\ Head(chan).verb = verb
    /\ chan' = Tail(chan)

HearStart ==
    /\ Hear("start") /\ Head(chan).index < Tests
    /\ inFlight' = Head(chan).index
    /\ UNCHANGED <<pc, deadline, next, last, resume, verdicts, childVars, eof, pipe>>

HearResult(kind) ==
    /\ Hear(kind) /\ Head(chan).index < Tests
    /\ Judge(Head(chan).index, kind)
    /\ inFlight' = None /\ last' = Head(chan).index
    /\ UNCHANGED <<pc, deadline, next, resume, childVars, eof, pipe>>

(* A test the parent does not know is skipped.                             *)
HearUnknown ==
    /\ \E verb \in {"start", "pass", "fail"} : Hear(verb)
    /\ Head(chan).index >= Tests
    /\ UNCHANGED <<parentVars, childVars, eof, pipe>>

MutantDoneTrusted == Tests

(* done ends the suite only when its last test has been reported.           *)
AfterDone == IF last # None /\ last + 1 = Tests THEN Tests ELSE AfterReported

HearDone ==
    /\ Hear("done") /\ pc' = "reap" /\ resume' = AfterDone
    /\ UNCHANGED <<deadline, next, inFlight, last, verdicts, childVars, eof, pipe>>

MutantBehind(i) == i

Behind(i) == i + 1

(* The batch is over without a done: the test in flight, if there is one,     *)
(* gets the verdict, and the next batch starts behind it.                    *)
Settle(kind) ==
    /\ pc' = "reap"
    /\ \/ inFlight # None /\ Judge(inFlight, kind) /\ resume' = Behind(inFlight)
       \/ inFlight = None /\ resume' = AfterReported /\ UNCHANGED verdicts

Drained == chan = <<>>

(* The child's end of the pipe is closed and every line has been heard.       *)
Disconnected ==
    /\ pc = "batch" /\ Drained /\ eof /\ ~Alive
    /\ Settle("crash")
    /\ UNCHANGED <<deadline, next, inFlight, last, childVars, pipeVars>>

Late == pc = "batch" /\ deadline /\ Drained /\ ~eof

(* try_wait finds that the child has died already, though the reader has not  *)
(* reached the end of its lines.                                            *)
LateAndDead ==
    /\ Late /\ ~Alive
    /\ Settle("crash")
    /\ UNCHANGED <<deadline, next, inFlight, last, childVars, pipeVars>>

(* The whole process tree is killed; a process that has left the group lives. *)
LateAndKilled ==
    /\ Late /\ Alive
    /\ Settle("timeout")
    /\ child' = "dead" /\ helper' \in {"none", helper}
    /\ UNCHANGED <<deadline, next, inFlight, last, at, size, outcome, slot, returned,
                   pipeVars>>

ParentStep ==
    \/ Spawn \/ SpawnFails \/ Finish \/ Reap
    \/ HearStart \/ HearUnknown \/ HearDone \/ \E kind \in {"pass", "fail"} : HearResult(kind)
    \/ Disconnected \/ LateAndDead \/ LateAndKilled

ReaderStep == ReadLine \/ ReadEof

(* The command has printed its summary or its error.                         *)
Ended == pc \in {"ended", "error"} /\ UNCHANGED vars

Next == ChildStep \/ SpawnHelper \/ HelperEnds \/ ReaderStep \/ ParentStep \/ Ended

Spec == Init /\ [][Next]_vars

(* The processes and the reader are scheduled by the operating system, and a  *)
(* deadline passes.  Nothing says that a hung test or a background process    *)
(* ever ends.                                                              *)
FairSpec == Spec /\ WF_vars(ChildStep) /\ WF_vars(ReaderStep) /\ WF_vars(ParentStep)
=============================================================================
