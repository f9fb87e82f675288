------------------------ MODULE TestIsolateProperties ------------------------
(* What must hold of a run of the isolated test runner.                     *)
EXTENDS TestIsolate, Functions

(***************************************************************************)
(* The run keeps the promise of SuiteReport: every test gets one verdict, in  *)
(* order, whatever crashes, hangs, dies silently, ends early or lists other    *)
(* tests, and it does not end before the last one.                           *)
(***************************************************************************)
Status == IF pc \in {"ended", "error"} THEN pc ELSE "running"
Suite == INSTANCE SuiteReport WITH report <- verdicts, status <- Status
SuiteSpec == Suite!Spec

(***************************************************************************)
(* What is printed of a test is true of it.  A PASS is printed only for a test *)
(* that returned without an error in this batch, and a FAIL with a message      *)
(* only for one that returned with one; a test is called crashed only when its  *)
(* process has died, and, unless a deadline passed first, only when that        *)
(* process had not reported the test.                                       *)
(***************************************************************************)
ResultsTrue ==
    \A i \in 0..(Tests - 1), kind \in {"pass", "fail"} :
        Judge(i, kind) => <<i, kind>> \in returned

CrashExact ==
    \A i \in 0..(Tests - 1) : Judge(i, "crash") => ~Alive /\ (deadline \/ at = i)

VerdictsAreTrue == [][ResultsTrue /\ CrashExact]_vars

(***************************************************************************)
(* Once a test has a verdict no child runs it again: resuming never repeats    *)
(* what was reported, also after a kill in the middle of a test.              *)
(***************************************************************************)
NeverRerun ==
    [][child' = "run" /\ child # "run" => at >= Len(verdicts)]_vars

(***************************************************************************)
(* Why: the lines of a batch are numbered without a gap, two to a test, and    *)
(* what the parent has heard, what the channel and the pipe hold and what the  *)
(* child has written follow one another.  Only the tests the parent does not    *)
(* know leave it behind.                                                   *)
(***************************************************************************)
Beat(line) == 2 * line.index + IF line.verb = "start" THEN 0 ELSE 1
Place == 2 * Len(verdicts) + IF inFlight = None THEN 0 ELSE 1
Written(h) == h + Len(chan) + Len(pipe)

Aligned(h) ==
    /\ h = Place \/ (Place >= 2 * Tests /\ h >= 2 * Tests)
    /\ \A k \in 1..Len(chan) : chan[k].verb = "done" \/ Beat(chan[k]) = h + k - 1
    /\ \A k \in 1..Len(pipe) :
          pipe[k].verb = "done" \/ Beat(pipe[k]) = h + Len(chan) + k - 1
    /\ 2 * at <= Written(h) /\ Written(h) <= 2 * at + 1
    /\ child \in {"boot", "compile", "start"} => Written(h) = 2 * at
    /\ child \in {"run", "hung", "report"} => Written(h) = 2 * at + 1

LinesAligned == pc = "batch" => \E h \in 0..(Place + 2 * (at + 1)) : Aligned(h)

ParentPlaced ==
    /\ Len(verdicts) <= Tests
    /\ pc = "resume" => next = Len(verdicts)
    /\ pc \in {"batch", "reap"} => next < Tests /\ next <= Len(verdicts)
    /\ pc = "batch" =>
          /\ inFlight # None => inFlight = Len(verdicts) /\ inFlight < Tests
          /\ IF last = None THEN next = Len(verdicts) ELSE last + 1 = Len(verdicts)
    /\ pc = "reap" => resume = Len(verdicts)
    /\ pc = "ended" => Len(verdicts) = Tests

(* A line says what the test did, done is the last word of a child, and the    *)
(* end of the pipe comes after the child's.                                 *)
LinesTrue ==
    /\ \A line \in Range(chan) \cup Range(pipe) :
          /\ line.verb \in {"pass", "fail"} => <<line.index, line.verb>> \in returned
          /\ line.verb = "done" => child \in {"exit", "dead"}
    /\ child = "report" => <<at, outcome>> \in returned
    /\ eof => pipe = <<>> /\ ~Alive
    /\ pc # "batch" => child \in {"exit", "dead"}

ReportInvariant == LinesAligned /\ ParentPlaced /\ LinesTrue

(***************************************************************************)
(* The run ends, except when a test that never returns runs without a          *)
(* deadline.  Background processes of the tests may live for ever.             *)
(***************************************************************************)
AlwaysEnds == <>(pc \in {"ended", "error"} \/ (~deadline /\ child = "hung"))

(***************************************************************************)
(* Why the run ends.  First: no one waits for ever.  Unless a test that never  *)
(* returns runs without a deadline, the child has something to do that does    *)
(* not need it to fail, or the reader has a line or the end of the pipe to      *)
(* read, or the parent has a line, the end of the lines, a dead child or a      *)
(* deadline to act on.  In particular no background process of a test keeps     *)
(* the pipe open behind a dead child.                                        *)
(***************************************************************************)
CanWork == child \in {"boot", "compile", "start", "run", "report", "exit"}

CanRead == ~eof /\ (pipe # <<>> \/ (pc = "batch" /\ ~WriteEndOpen))

CanGoOn ==
    \/ pc = "resume"
    \/ pc = "reap" /\ ~Alive
    \/ pc = "batch" /\ (chan # <<>> \/ (eof /\ ~Alive) \/ (deadline /\ ~eof))

NeverStuck ==
    \/ pc \in {"ended", "error"}
    \/ CanWork \/ CanRead \/ CanGoOn
    \/ ~deadline /\ child = "hung"

(***************************************************************************)
(* Second: every step uses something up, but for the background processes',    *)
(* which are none of the runner's business.  It gives tests their verdicts, or  *)
(* brings the batch or the child nearer to its end, or the child nearer to the  *)
(* end of its suite or of its test, or takes a line from the pipe or the        *)
(* channel, or ends the reader; each counts only if those before it did not     *)
(* grow.                                                                    *)
(***************************************************************************)
BatchLeft(p) == CASE p = "resume" -> 3 [] p = "batch" -> 2 [] p = "reap" -> 1 [] OTHER -> 0
InSuite == {"start", "run", "hung", "report"}
LifeLeft(c) ==
    CASE c = "boot" -> 4 [] c = "compile" -> 3 [] c \in InSuite -> 2 [] c = "exit" -> 1
      [] OTHER -> 0
TestLeft(c) ==
    CASE c = "start" -> 3 [] c = "run" -> 2 [] c \in {"hung", "report"} -> 1 [] OTHER -> 0

Remaining ==
    <<Tests - next,
      BatchLeft(pc),
      LifeLeft(child),
      IF child \in InSuite /\ at < size THEN size - at ELSE 0,
      TestLeft(child),
      Len(pipe), Len(chan),
      IF eof THEN 0 ELSE 1>>

(* The first of the quantities that differs is smaller in x than in y.        *)
Less(x, y) == \E k \in 1..8 : /\ x[k] < y[k]
                              /\ \A j \in 1..(k - 1) : x[j] = y[j]

OnlyHelper == (SpawnHelper \/ HelperEnds) /\ Remaining' = Remaining

EveryStepUsesUp == [][Less(Remaining', Remaining) \/ OnlyHelper]_vars

=============================================================================
