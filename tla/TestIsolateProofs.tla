-------------------------- MODULE TestIsolateProofs --------------------------
(***************************************************************************)
(* Proofs about the isolated test runner: it implements SuiteReport, its       *)
(* PASS and FAIL lines are true, no test runs again after its verdict, a       *)
(* crash is blamed on the right test, and the run ends - for every suite,      *)
(* whatever number of tests a child finds.                                   *)
(***************************************************************************)
EXTENDS TestIsolateProperties, WellFoundedInduction, TLAPS

(* LinesAligned without the bound TLC needs.                                *)
Lined == pc = "batch" => \E h \in Nat : Aligned(h)

Inv == TypeOK /\ Lined /\ ParentPlaced /\ LinesTrue

LEMMA LinedAligned == TypeOK /\ Lined => LinesAligned
<1> SUFFICES ASSUME TypeOK, Lined, pc = "batch"
             PROVE  \E h \in 0..(Place + 2 * (at + 1)) : Aligned(h)
  BY DEF LinesAligned
<1>1. PICK h \in Nat : Aligned(h)
  BY DEF Lined
<1>2. h <= 2 * at + 1 /\ at \in Nat
  BY <1>1 DEF Aligned, Written, TypeOK
<1>3. Place \in Nat
  BY DEF Place, TypeOK
<1> QED
  BY <1>1, <1>2, <1>3

(* Taking the first line of a sequence of lines shifts the others.            *)
LEMMA TailShifts ==
    ASSUME NEW S, NEW q \in Seq(S), q # <<>>
    PROVE  /\ Head(q) \in S /\ Tail(q) \in Seq(S)
           /\ Head(q) = q[1] /\ 1 \in 1..Len(q)
           /\ Len(q) \in Nat \ {0} /\ Len(Tail(q)) = Len(q) - 1
           /\ \A k \in 1..Len(Tail(q)) : Tail(q)[k] = q[k + 1] /\ k + 1 \in 1..Len(q)
  OBVIOUS

LEMMA AppendKeeps ==
    ASSUME NEW S, NEW q \in Seq(S), NEW e \in S
    PROVE  /\ Append(q, e) \in Seq(S)
           /\ Len(q) \in Nat /\ Len(Append(q, e)) = Len(q) + 1
           /\ \A k \in 1..Len(q) : Append(q, e)[k] = q[k]
           /\ Append(q, e)[Len(q) + 1] = e
  OBVIOUS

LEMMA RangeOfSeq ==
    ASSUME NEW S, NEW q \in Seq(S)
    PROVE  /\ \A k \in 1..Len(q) : q[k] \in Range(q)
           /\ \A e \in Range(q) : \E k \in 1..Len(q) : q[k] = e
  BY DEF Range

LEMMA TailInRange ==
    ASSUME NEW S, NEW q \in Seq(S), q # <<>>
    PROVE  Range(Tail(q)) \subseteq Range(q) /\ Head(q) \in Range(q)
<1>1. Tail(q) \in Seq(S) /\ Head(q) = q[1] /\ 1 \in 1..Len(q)
  BY TailShifts
<1>2. ASSUME NEW e \in Range(Tail(q)) PROVE e \in Range(q)
  <2>1. PICK k \in 1..Len(Tail(q)) : Tail(q)[k] = e
    BY <1>1, <1>2, RangeOfSeq
  <2>2. e = q[k + 1] /\ k + 1 \in 1..Len(q)
    BY <2>1, TailShifts
  <2> QED
    BY <2>2, RangeOfSeq
<1> QED
  BY <1>1, <1>2, RangeOfSeq

LEMMA AppendInRange ==
    ASSUME NEW S, NEW q \in Seq(S), NEW e \in S
    PROVE  Range(Append(q, e)) \subseteq Range(q) \cup {e}
<1>1. Append(q, e) \in Seq(S) /\ Len(q) \in Nat
  BY AppendKeeps
<1> SUFFICES ASSUME NEW k \in 1..Len(Append(q, e))
             PROVE  Append(q, e)[k] \in Range(q) \cup {e}
  BY <1>1, RangeOfSeq
<1>2. CASE k \in 1..Len(q)
  BY <1>2, AppendKeeps, RangeOfSeq
<1>3. CASE k = Len(q) + 1
  BY <1>3, AppendKeeps
<1> QED
  BY <1>1, <1>2, <1>3, AppendKeeps

(***************************************************************************)
(* Types                                                                   *)
(***************************************************************************)
LEMMA LineType ==
    \A verb \in {"start", "pass", "fail", "done"}, i \in Nat :
        [verb |-> verb, index |-> i] \in Line
  BY DEF Line

LEMMA HeardType ==
    ASSUME TypeOK, NEW verb, Hear(verb)
    PROVE  /\ chan' \in Seq(Line) /\ Head(chan) \in Line
           /\ Head(chan).index \in Nat /\ Head(chan).verb = verb
<1>1. chan \in Seq(Line) /\ chan # <<>> /\ chan' = Tail(chan) /\ Head(chan).verb = verb
  BY DEF TypeOK, Hear
<1>2. chan' \in Seq(Line) /\ Head(chan) \in Line
  BY <1>1, TailShifts
<1> QED
  BY <1>1, <1>2 DEF Line

LEMMA VerdictType ==
    ASSUME TypeOK, NEW i \in Nat, NEW kind \in Kinds, Judge(i, kind)
    PROVE  /\ verdicts' \in Seq([index : Nat, kind : Kinds])
           /\ Len(verdicts) \in Nat /\ Len(verdicts') = Len(verdicts) + 1
<1>1. [index |-> i, kind |-> kind] \in [index : Nat, kind : Kinds]
  OBVIOUS
<1> QED
  BY <1>1, AppendKeeps DEF Judge, TypeOK

LEMMA SettleType ==
    ASSUME TypeOK, NEW kind \in {"crash", "timeout"}, Settle(kind)
    PROVE  /\ pc' = "reap" /\ resume' \in Nat
           /\ verdicts' \in Seq([index : Nat, kind : Kinds])
<1>1. kind \in Kinds
  BY DEF Kinds
<1>2. CASE inFlight # None /\ Judge(inFlight, kind) /\ resume' = Behind(inFlight)
  <2>1. inFlight \in Nat
    BY <1>2 DEF TypeOK
  <2>2. verdicts' \in Seq([index : Nat, kind : Kinds])
    BY <1>1, <1>2, <2>1, VerdictType
  <2> QED
    BY <1>2, <2>1, <2>2 DEF Settle, Behind
<1>3. CASE inFlight = None /\ resume' = AfterReported /\ UNCHANGED verdicts
  BY <1>3 DEF Settle, TypeOK, AfterReported, None
<1> QED
  BY <1>2, <1>3 DEF Settle

LEMMA TypeStep == TypeOK /\ [Next]_vars => TypeOK'
<1> SUFFICES ASSUME TypeOK, [Next]_vars
             PROVE  TypeOK'
  OBVIOUS
<1> USE SuiteAssumption
<1>1. CASE TakeChannel
  BY <1>1 DEF TypeOK, TakeChannel, SlotAfterTake, parentVars, pipeVars
<1>2. CASE FailEarly \/ Exit \/ Crash
  BY <1>2 DEF TypeOK, FailEarly, Exit, Crash, Die, parentVars, pipeVars
<1>3. CASE Compile
  BY <1>3 DEF TypeOK, Compile, parentVars, pipeVars
<1>4. CASE StartTest
  <2>1. [verb |-> "start", index |-> at] \in Line
    BY LineType DEF TypeOK
  <2>2. pipe' \in Seq(Line)
    BY <1>4, <2>1, AppendKeeps DEF TypeOK, StartTest, Write
  <2> QED
    BY <1>4, <2>2 DEF TypeOK, StartTest, parentVars
<1>5. CASE \E how \in {"pass", "fail"} : Return(how)
  BY <1>5 DEF TypeOK, Return, parentVars, pipeVars
<1>6. CASE Hang \/ SpawnHelper \/ HelperEnds
  BY <1>6 DEF TypeOK, Hang, SpawnHelper, HelperEnds, parentVars, pipeVars
<1>7. CASE ReportTest
  <2>1. [verb |-> outcome, index |-> at] \in Line
    BY LineType DEF TypeOK
  <2>2. pipe' \in Seq(Line)
    BY <1>7, <2>1, AppendKeeps DEF TypeOK, ReportTest, Write
  <2> QED
    BY <1>7, <2>2 DEF TypeOK, ReportTest, parentVars
<1>8. CASE ReportDone
  <2>1. [verb |-> "done", index |-> 0] \in Line
    BY LineType
  <2>2. pipe' \in Seq(Line)
    BY <1>8, <2>1, AppendKeeps DEF TypeOK, ReportDone, Write
  <2> QED
    BY <1>8, <2>2 DEF TypeOK, ReportDone, parentVars
<1>9. CASE ReadLine
  <2>1. chan' \in Seq(Line) /\ pipe' \in Seq(Line)
    BY <1>9, TailShifts, AppendKeeps DEF TypeOK, ReadLine
  <2> QED
    BY <1>9, <2>1 DEF TypeOK, ReadLine, parentVars, childVars
<1>10. CASE ReadEof
  BY <1>10 DEF TypeOK, ReadEof, parentVars, childVars
<1>11. CASE Spawn
  <2>1. chan' = <<>> /\ pipe' = <<>> /\ eof' = FALSE /\ <<>> \in Seq(Line)
    BY <1>11 DEF Spawn, FreshChannel
  <2>2. chan' \in Seq(Line) /\ pipe' \in Seq(Line) /\ eof' \in BOOLEAN
    BY <2>1
  <2>3. /\ pc' \in {"resume", "batch", "reap", "ended", "error"}
        /\ child' \in {"boot", "compile", "start", "run", "hung", "report", "exit", "dead"}
        /\ slot' \in {"pipe", "null"} /\ returned' \subseteq Nat \X {"pass", "fail"}
        /\ inFlight' \in Nat \cup {None} /\ last' \in Nat \cup {None}
    BY <1>11 DEF Spawn
  <2>4. /\ deadline' \in BOOLEAN /\ next' \in Nat /\ resume' \in Nat
        /\ verdicts' \in Seq([index : Nat, kind : Kinds])
        /\ at' \in Nat /\ size' \in Nat /\ outcome' \in {"pass", "fail"}
        /\ helper' \in {"pipe", "null", "none"}
    BY <1>11 DEF TypeOK, Spawn
  <2> QED
    BY <2>2, <2>3, <2>4, Zenon DEF TypeOK
<1>12. CASE SpawnFails \/ Finish
  BY <1>12 DEF TypeOK, SpawnFails, Finish, childVars, pipeVars
<1>13. CASE Reap
  <2>1. next' \in Nat /\ verdicts' \in Seq([index : Nat, kind : Kinds])
    BY <1>13, VerdictType DEF TypeOK, Reap, Kinds
  <2> QED
    BY <1>13, <2>1 DEF TypeOK, Reap, childVars, pipeVars
<1>14. CASE HearStart
  <2>1. chan' \in Seq(Line) /\ Head(chan).index \in Nat
    BY <1>14, HeardType DEF HearStart
  <2> QED
    BY <1>14, <2>1 DEF TypeOK, HearStart, childVars
<1>15. ASSUME NEW kind \in {"pass", "fail"}, HearResult(kind)
       PROVE  TypeOK'
  <2>1. chan' \in Seq(Line) /\ Head(chan).index \in Nat
    BY <1>15, HeardType DEF HearResult
  <2>2. verdicts' \in Seq([index : Nat, kind : Kinds])
    BY <1>15, <2>1, VerdictType DEF HearResult, Kinds
  <2> QED
    BY <1>15, <2>1, <2>2 DEF TypeOK, HearResult, childVars
<1>16. CASE HearUnknown
  <2>1. chan' \in Seq(Line)
    BY <1>16, HeardType DEF HearUnknown
  <2> QED
    BY <1>16, <2>1 DEF TypeOK, HearUnknown, childVars, parentVars
<1>17. CASE HearDone
  <2>1. chan' \in Seq(Line)
    BY <1>17, HeardType DEF HearDone
  <2>2. resume' \in Nat /\ pc' = "reap"
    BY <1>17 DEF TypeOK, HearDone, AfterDone, AfterReported, None
  <2> QED
    BY <1>17, <2>1, <2>2 DEF TypeOK, HearDone, childVars
<1>18. CASE Disconnected \/ LateAndDead
  <2>1. Settle("crash")
    BY <1>18 DEF Disconnected, LateAndDead
  <2>2. UNCHANGED <<deadline, next, inFlight, last, childVars, pipeVars>>
    BY <1>18 DEF Disconnected, LateAndDead
  <2>3. /\ pc' = "reap" /\ resume' \in Nat
        /\ verdicts' \in Seq([index : Nat, kind : Kinds])
    BY <2>1, SettleType
  <2> QED
    BY <2>2, <2>3 DEF TypeOK, childVars, pipeVars
<1>19. CASE LateAndKilled
  <2>1. Settle("timeout")
    BY <1>19 DEF LateAndKilled
  <2>2. /\ pc' = "reap" /\ resume' \in Nat
        /\ verdicts' \in Seq([index : Nat, kind : Kinds])
    BY <2>1, SettleType
  <2> QED
    BY <1>19, <2>2 DEF TypeOK, LateAndKilled, pipeVars
<1>20. CASE UNCHANGED vars \/ Ended
  BY <1>20 DEF TypeOK, Ended, vars, parentVars, childVars, pipeVars
<1> QED
  BY <1>1, <1>2, <1>3, <1>4, <1>5, <1>6, <1>7, <1>8, <1>9, <1>10, <1>11, <1>12, <1>13,
     <1>14, <1>15, <1>16, <1>17, <1>18, <1>19, <1>20
     DEF Next, ChildStep, ReaderStep, ParentStep

(***************************************************************************)
(* Where the parent is                                                     *)
(***************************************************************************)
(* The next line the parent hears is the next it expects.                     *)
LEMMA HeardPlace ==
    ASSUME TypeOK, ParentPlaced, NEW h \in Nat, Aligned(h),
           NEW verb \in {"start", "pass", "fail"}, Hear(verb), Head(chan).index < Tests
    PROVE  /\ h = Place /\ Head(chan).index = Len(verdicts)
           /\ verb = "start" => inFlight = None
           /\ verb # "start" => inFlight # None
<1> USE SuiteAssumption
<1> DEFINE line == Head(chan)
<1>1. line.index \in Nat /\ line.verb = verb
  BY HeardType
<1>2. line = chan[1] /\ 1 \in 1..Len(chan)
  BY TailShifts DEF Hear, TypeOK
<1>3. Beat(line) = h
  BY <1>1, <1>2 DEF Aligned
<1>4. Beat(line) = 2 * line.index + IF verb = "start" THEN 0 ELSE 1
  BY <1>1 DEF Beat
<1>5. h < 2 * Tests /\ h = 2 * line.index + IF verb = "start" THEN 0 ELSE 1
  BY <1>1, <1>3, <1>4
<1>6. h = Place
  BY <1>5 DEF Aligned
<1>7. Len(verdicts) \in Nat
  BY DEF TypeOK
<1>8. Place = 2 * Len(verdicts) + IF inFlight = None THEN 0 ELSE 1
  BY DEF Place
<1> QED
  BY <1>1, <1>5, <1>6, <1>7, <1>8

LEMMA SettlePlaced ==
    ASSUME TypeOK, ParentPlaced, pc = "batch", NEW kind \in {"crash", "timeout"},
           Settle(kind), UNCHANGED next
    PROVE  /\ ParentPlaced'
           /\ Judge(inFlight, kind) => inFlight = Len(verdicts) /\ Len(verdicts) < Tests
<1> USE SuiteAssumption
<1>1. Len(verdicts) \in Nat /\ next \in Nat /\ last \in Nat \cup {None} /\ Len(verdicts) <= Tests
  BY DEF TypeOK, ParentPlaced
<1>2. pc' = "reap" /\ next < Tests /\ next <= Len(verdicts)
  BY DEF Settle, ParentPlaced
<1>3. CASE inFlight # None /\ Judge(inFlight, kind) /\ resume' = Behind(inFlight)
  <2>1. inFlight = Len(verdicts) /\ inFlight < Tests /\ inFlight \in Nat
    BY <1>3, <1>1 DEF ParentPlaced
  <2>2. Len(verdicts') = Len(verdicts) + 1
    BY <1>3, <2>1, VerdictType DEF Kinds
  <2>3. resume' = Len(verdicts')
    BY <1>3, <2>1, <2>2 DEF Behind
  <2> QED
    BY <1>1, <1>2, <2>1, <2>2, <2>3 DEF ParentPlaced
<1>4. CASE inFlight = None /\ resume' = AfterReported /\ UNCHANGED verdicts
  <2>1. IF last = None THEN next = Len(verdicts) ELSE last + 1 = Len(verdicts)
    BY DEF ParentPlaced
  <2>2. resume' = Len(verdicts)
    BY <1>4, <2>1 DEF AfterReported
  <2>3. ~Judge(inFlight, kind)
    <3>1. [index |-> inFlight, kind |-> kind] # verdicts \/ TRUE
      OBVIOUS
    <3>2. Len(Append(verdicts, [index |-> inFlight, kind |-> kind])) = Len(verdicts) + 1
      BY DEF TypeOK
    <3> QED
      BY <1>1, <1>4, <3>2 DEF Judge
  <2> QED
    BY <1>1, <1>2, <1>4, <2>2, <2>3 DEF ParentPlaced
<1> QED
  BY <1>3, <1>4 DEF Settle

LEMMA PlacedStep == Inv /\ [Next]_vars => ParentPlaced'
<1> SUFFICES ASSUME Inv, [Next]_vars
             PROVE  ParentPlaced'
  OBVIOUS
<1> USE SuiteAssumption
<1>0. TypeOK /\ ParentPlaced /\ LinesTrue /\ Len(verdicts) \in Nat /\ next \in Nat /\ resume \in Nat
  BY DEF Inv, TypeOK
<1>1. CASE ChildStep \/ SpawnHelper \/ HelperEnds \/ ReaderStep \/ HearUnknown \/ Ended \/ UNCHANGED vars
  <2>1. UNCHANGED parentVars
    BY <1>1 DEF ChildStep, ReaderStep, vars, TakeChannel, FailEarly, Compile, StartTest,
         ReportTest, ReportDone, Exit, Crash, Hang, SpawnHelper, HelperEnds, Return, ReadLine,
         ReadEof, HearUnknown, Ended
  <2> QED
    BY <1>0, <2>1 DEF ParentPlaced, parentVars
<1>2. CASE Spawn
  BY <1>0, <1>2 DEF ParentPlaced, Spawn
<1>3. CASE SpawnFails \/ Finish
  BY <1>0, <1>3 DEF ParentPlaced, SpawnFails, Finish
<1>4. CASE Reap
  <2>1. pc = "reap" /\ next < Tests /\ next <= Len(verdicts) /\ resume = Len(verdicts) /\ pc' = "resume"
    BY <1>0, <1>4 DEF ParentPlaced, Reap
  <2>2. CASE resume > next /\ next' = resume /\ UNCHANGED verdicts
    BY <1>0, <2>1, <2>2 DEF ParentPlaced
  <2>3. CASE resume <= next /\ next' = next + 1 /\ Judge(next, "silent")
    <3>1. Len(verdicts') = Len(verdicts) + 1
      BY <1>0, <2>3, VerdictType DEF Kinds
    <3> QED
      BY <1>0, <2>1, <2>3, <3>1 DEF ParentPlaced
  <2> QED
    BY <1>4, <2>2, <2>3 DEF Reap
<1>5. CASE HearStart
  <2>1. pc = "batch" /\ Hear("start") /\ Head(chan).index < Tests
    BY <1>5 DEF HearStart, Hear
  <2>2. PICK h \in Nat : Aligned(h)
    BY <2>1 DEF Inv, Lined
  <2>3. Head(chan).index = Len(verdicts)
    BY <1>0, <2>1, <2>2, HeardPlace
  <2> QED
    BY <1>0, <1>5, <2>1, <2>3 DEF ParentPlaced, HearStart
<1>6. ASSUME NEW kind \in {"pass", "fail"}, HearResult(kind)
      PROVE  ParentPlaced'
  <2>1. pc = "batch" /\ Hear(kind) /\ Head(chan).index < Tests
    BY <1>6 DEF HearResult, Hear
  <2>2. PICK h \in Nat : Aligned(h)
    BY <2>1 DEF Inv, Lined
  <2>3. Head(chan).index = Len(verdicts) /\ Head(chan).index \in Nat
    BY <1>0, <2>1, <2>2, HeardPlace
  <2>4. Len(verdicts') = Len(verdicts) + 1
    BY <1>0, <1>6, <2>3, VerdictType DEF Kinds, HearResult
  <2>5. UNCHANGED <<pc, next>> /\ inFlight' = None /\ last' = Len(verdicts) /\ next <= Len(verdicts)
    BY <1>0, <1>6, <2>1, <2>3 DEF HearResult, ParentPlaced
  <2> QED
    BY <1>0, <2>1, <2>3, <2>4, <2>5 DEF ParentPlaced, None
<1>7. CASE HearDone
  <2>1. pc = "batch" /\ pc' = "reap" /\ resume' = AfterDone /\ UNCHANGED <<next, verdicts>>
    BY <1>7 DEF HearDone, Hear
  <2>2. IF last = None THEN next = Len(verdicts) ELSE last + 1 = Len(verdicts)
    BY <1>0, <2>1 DEF ParentPlaced
  <2>3. resume' = Len(verdicts)
    BY <2>1, <2>2 DEF AfterDone, AfterReported
  <2> QED
    BY <1>0, <2>1, <2>3 DEF ParentPlaced
<1>8. CASE Disconnected \/ LateAndDead
  BY <1>0, <1>8, SettlePlaced DEF Disconnected, LateAndDead, Late
<1>9. CASE LateAndKilled
  BY <1>0, <1>9, SettlePlaced DEF LateAndKilled, Late
<1> QED
  BY <1>1, <1>2, <1>3, <1>4, <1>5, <1>6, <1>7, <1>8, <1>9 DEF Next, ParentStep

(***************************************************************************)
(* What the lines say                                                      *)
(***************************************************************************)
LEMMA TrueStep == Inv /\ [Next]_vars => LinesTrue'
<1> SUFFICES ASSUME Inv, [Next]_vars
             PROVE  LinesTrue'
  OBVIOUS
<1>0. /\ TypeOK /\ ParentPlaced /\ LinesTrue
      /\ chan \in Seq(Line) /\ pipe \in Seq(Line)
  BY DEF Inv, TypeOK
<1>a. ASSUME UNCHANGED <<chan, pipe, eof, pc>>, returned \subseteq returned',
             child' = "report" => <<at', outcome'>> \in returned',
             child \in {"exit", "dead"} => child' \in {"exit", "dead"},
             eof => child' = "dead", pc # "batch" => child' \in {"exit", "dead"}
      PROVE  LinesTrue'
  BY <1>0, <1>a DEF LinesTrue, Alive
<1>1. CASE TakeChannel \/ FailEarly \/ Compile \/ Exit \/ Crash \/ Hang \/ SpawnHelper \/ HelperEnds
  BY <1>0, <1>1, <1>a DEF LinesTrue, Alive, TakeChannel, FailEarly, Compile, Exit, Crash, Hang,
     SpawnHelper, HelperEnds, Die, pipeVars, parentVars
<1>2. ASSUME NEW how \in {"pass", "fail"}, Return(how)
      PROVE  LinesTrue'
  BY <1>0, <1>2, <1>a DEF LinesTrue, Alive, Return, pipeVars, parentVars
<1>3. ASSUME NEW verb \in {"start", "pass", "fail", "done"}, NEW i \in Nat, Write(verb, i),
             UNCHANGED <<chan, eof, returned>>, child' # "report", Alive, child # "exit", pc' = pc,
             verb \in {"pass", "fail"} => <<i, verb>> \in returned,
             verb = "done" => child' = "exit"
      PROVE  LinesTrue'
  <2> DEFINE new == [verb |-> verb, index |-> i]
  <2>1. new \in Line /\ pipe' = Append(pipe, new)
    BY <1>3, LineType DEF Write
  <2>2. Range(pipe') \subseteq Range(pipe) \cup {new}
    BY <1>0, <2>1, AppendInRange
  <2>3. ~eof /\ pc = "batch"
    BY <1>0, <1>3 DEF LinesTrue, Alive
  <2>4. \A line \in Range(chan) \cup Range(pipe) : line.verb # "done"
    BY <1>0, <1>3 DEF LinesTrue, Alive
  <2>5. \A line \in Range(chan') \cup Range(pipe') :
          /\ line.verb \in {"pass", "fail"} => <<line.index, line.verb>> \in returned'
          /\ line.verb = "done" => child' \in {"exit", "dead"}
    <3> SUFFICES ASSUME NEW line \in Range(chan') \cup Range(pipe')
                 PROVE  /\ line.verb \in {"pass", "fail"} =>
                              <<line.index, line.verb>> \in returned'
                        /\ line.verb = "done" => child' \in {"exit", "dead"}
      OBVIOUS
    <3>1. line \in Range(chan) \cup Range(pipe) \/ line = new
      BY <1>3, <2>2
    <3>2. CASE line \in Range(chan) \cup Range(pipe)
      BY <1>0, <1>3, <2>4, <3>2 DEF LinesTrue
    <3>3. CASE line = new
      BY <1>3, <3>3
    <3> QED
      BY <3>1, <3>2, <3>3
  <2> QED
    BY <1>3, <2>3, <2>5 DEF LinesTrue
<1>4. CASE StartTest
  BY <1>0, <1>3, <1>4 DEF StartTest, Alive, parentVars, TypeOK
<1>5. CASE ReportTest
  BY <1>0, <1>3, <1>5 DEF ReportTest, Alive, parentVars, TypeOK, LinesTrue
<1>6. CASE ReportDone
  BY <1>0, <1>3, <1>6 DEF ReportDone, Alive, parentVars, TypeOK
<1>7. CASE ReadLine
  <2>1. /\ chan' = Append(chan, Head(pipe)) /\ pipe' = Tail(pipe) /\ pipe # <<>>
        /\ UNCHANGED <<childVars, eof, pc>> /\ ~eof
    BY <1>7 DEF ReadLine, parentVars
  <2>2. Range(pipe') \subseteq Range(pipe) /\ Head(pipe) \in Range(pipe) /\ Head(pipe) \in Line
    BY <1>0, <2>1, TailInRange, TailShifts
  <2>3. Range(chan') \subseteq Range(chan) \cup {Head(pipe)}
    BY <1>0, <2>1, <2>2, AppendInRange
  <2> QED
    BY <1>0, <2>1, <2>2, <2>3 DEF LinesTrue, childVars
<1>8. CASE ReadEof
  BY <1>0, <1>8 DEF ReadEof, LinesTrue, childVars, parentVars, WriteEndOpen, Alive
<1>9. CASE Spawn
  <2>1. Range(<<>>) = {}
    BY DEF Range
  <2> QED
    BY <1>9, <2>1 DEF Spawn, FreshChannel, LinesTrue
<1>10. CASE SpawnFails \/ Finish \/ Reap
  BY <1>0, <1>10, <1>a DEF SpawnFails, Finish, Reap, LinesTrue, childVars, pipeVars, Alive
<1>11. ASSUME NEW verb, Hear(verb), UNCHANGED <<childVars, eof, pipe>>,
              pc' = "batch" \/ verb = "done"
       PROVE  LinesTrue'
  <2>1. chan' = Tail(chan) /\ chan # <<>> /\ Head(chan).verb = verb /\ pc = "batch"
    BY <1>11 DEF Hear
  <2>2. Range(chan') \subseteq Range(chan) /\ Head(chan) \in Range(chan)
    BY <1>0, <2>1, TailInRange
  <2> QED
    BY <1>0, <1>11, <2>1, <2>2 DEF LinesTrue, childVars, Alive
<1>12. CASE HearStart
  BY <1>11, <1>12 DEF HearStart, Hear
<1>13. ASSUME NEW kind \in {"pass", "fail"}, HearResult(kind)
       PROVE  LinesTrue'
  BY <1>11, <1>13 DEF HearResult, Hear
<1>14. CASE HearUnknown
  BY <1>11, <1>14 DEF HearUnknown, Hear, parentVars
<1>15. CASE HearDone
  BY <1>11, <1>15 DEF HearDone
<1>16. CASE Disconnected \/ LateAndDead
  BY <1>0, <1>16 DEF Disconnected, LateAndDead, LinesTrue, Alive, childVars, pipeVars, Settle
<1>17. CASE LateAndKilled
  BY <1>0, <1>17 DEF LateAndKilled, Late, LinesTrue, Alive, pipeVars, Settle
<1>18. CASE Ended \/ UNCHANGED vars
  BY <1>0, <1>18 DEF Ended, vars, childVars, pipeVars, parentVars, LinesTrue, Alive
<1> QED
  BY <1>1, <1>2, <1>4, <1>5, <1>6, <1>7, <1>8, <1>9, <1>10, <1>12, <1>13, <1>14, <1>15, <1>16,
     <1>17, <1>18 DEF Next, ChildStep, ReaderStep, ParentStep

(***************************************************************************)
(* How the lines are numbered                                              *)
(***************************************************************************)
LEMMA HearShifts ==
    ASSUME TypeOK, NEW h \in Nat, Aligned(h), NEW verb, Hear(verb),
           UNCHANGED <<at, child, pipe>>,
           h + 1 = Place' \/ (Place' >= 2 * Tests /\ h + 1 >= 2 * Tests)
    PROVE  Aligned(h + 1)'
<1>1. /\ chan \in Seq(Line) /\ chan # <<>> /\ chan' = Tail(chan)
      /\ Len(chan) \in Nat /\ Len(pipe) \in Nat /\ at \in Nat
  BY DEF TypeOK, Hear
<1>2. /\ Len(chan') = Len(chan) - 1
      /\ \A k \in 1..Len(chan') : chan'[k] = chan[k + 1] /\ k + 1 \in 1..Len(chan)
  BY <1>1, TailShifts
<1>3. Written(h + 1)' = Written(h)
  BY <1>1, <1>2 DEF Written
<1>4. ASSUME NEW k \in 1..Len(chan')
      PROVE  chan'[k].verb = "done" \/ Beat(chan'[k]) = (h + 1) + k - 1
  <2>1. chan[k + 1].verb = "done" \/ Beat(chan[k + 1]) = h + (k + 1) - 1
    BY <1>2, <1>4 DEF Aligned
  <2>2. k \in Int
    BY <1>4
  <2> QED
    BY <1>2, <1>4, <2>1, <2>2
<1>5. ASSUME NEW k \in 1..Len(pipe')
      PROVE  pipe'[k].verb = "done" \/ Beat(pipe'[k]) = (h + 1) + Len(chan') + k - 1
  <2>1. pipe[k].verb = "done" \/ Beat(pipe[k]) = h + Len(chan) + k - 1
    BY <1>5 DEF Aligned
  <2> QED
    BY <1>1, <1>2, <1>5, <2>1
<1> QED
  BY <1>1, <1>3, <1>4, <1>5 DEF Aligned, Beat

(* The child writes the line that comes next.                               *)
LEMMA WriteAligns ==
    ASSUME TypeOK, NEW h \in Nat, Aligned(h), NEW verb \in {"start", "pass", "fail", "done"},
           NEW i \in Nat, Write(verb, i), UNCHANGED <<chan, verdicts, inFlight>>,
           verb = "done" \/ Beat([verb |-> verb, index |-> i]) = Written(h),
           at' \in Nat, 2 * at' <= Written(h) + 1, Written(h) <= 2 * at',
           child' \in {"boot", "compile", "start"} => Written(h) + 1 = 2 * at',
           child' \in {"run", "hung", "report"} => Written(h) = 2 * at'
    PROVE  Aligned(h)'
<1> DEFINE new == [verb |-> verb, index |-> i]
<1>1. /\ new \in Line /\ pipe' = Append(pipe, new) /\ pipe \in Seq(Line)
      /\ Len(chan) \in Nat /\ Len(pipe) \in Nat
  BY LineType DEF TypeOK, Write
<1>2. /\ Len(pipe') = Len(pipe) + 1
      /\ \A k \in 1..Len(pipe) : pipe'[k] = pipe[k]
      /\ pipe'[Len(pipe) + 1] = new
  BY <1>1, AppendKeeps
<1>3. Written(h)' = Written(h) + 1 /\ Written(h) \in Nat
  BY <1>1, <1>2 DEF Written
<1>4. ASSUME NEW k \in 1..Len(pipe')
      PROVE  pipe'[k].verb = "done" \/ Beat(pipe'[k]) = h + Len(chan') + k - 1
  <2>1. CASE k \in 1..Len(pipe)
    BY <1>2, <2>1 DEF Aligned
  <2>2. CASE k = Len(pipe) + 1
    <3>1. new.verb = "done" \/ Beat(new) = Written(h)
      OBVIOUS
    <3>2. Written(h) = h + Len(chan) + k - 1
      BY <1>1, <2>2 DEF Written
    <3> QED
      BY <1>2, <2>2, <3>1, <3>2
  <2> QED
    BY <1>1, <1>2, <1>4, <2>1, <2>2
<1>5. Place' = Place
  BY DEF Place
<1>6. h = Place' \/ (Place' >= 2 * Tests /\ h >= 2 * Tests)
  BY <1>5 DEF Aligned
<1>7. \A k \in 1..Len(chan') : chan'[k].verb = "done" \/ Beat(chan'[k]) = h + k - 1
  BY DEF Aligned
<1> HIDE DEF Beat, Written, Place
<1>8. 2 * at' <= Written(h)' /\ Written(h)' <= 2 * at' + 1
  BY <1>3
<1>9. /\ child' \in {"boot", "compile", "start"} => Written(h)' = 2 * at'
      /\ child' \in {"run", "hung", "report"} => Written(h)' = 2 * at' + 1
  BY <1>3
<1> QED
  BY <1>4, <1>6, <1>7, <1>8, <1>9 DEF Aligned, Beat

(* The reader moves the first line of the pipe to the channel.                *)
LEMMA ReadAligns ==
    ASSUME TypeOK, NEW h \in Nat, Aligned(h), ReadLine
    PROVE  Aligned(h)'
<1>1. /\ chan \in Seq(Line) /\ pipe \in Seq(Line) /\ pipe # <<>>
      /\ chan' = Append(chan, Head(pipe)) /\ pipe' = Tail(pipe)
      /\ UNCHANGED <<at, child, verdicts, inFlight>>
  BY DEF TypeOK, ReadLine, parentVars, childVars
<1>2. /\ Head(pipe) \in Line /\ Head(pipe) = pipe[1] /\ 1 \in 1..Len(pipe)
      /\ Len(pipe) \in Nat \ {0} /\ Len(pipe') = Len(pipe) - 1
      /\ \A k \in 1..Len(pipe') : pipe'[k] = pipe[k + 1] /\ k + 1 \in 1..Len(pipe)
  BY <1>1, TailShifts
<1>3. /\ Len(chan) \in Nat /\ Len(chan') = Len(chan) + 1
      /\ \A k \in 1..Len(chan) : chan'[k] = chan[k]
      /\ chan'[Len(chan) + 1] = pipe[1]
  BY <1>1, <1>2, AppendKeeps
<1>4. Written(h)' = Written(h) /\ Place' = Place
  BY <1>1, <1>2, <1>3 DEF Written, Place
<1>5. ASSUME NEW k \in 1..Len(chan')
      PROVE  chan'[k].verb = "done" \/ Beat(chan'[k]) = h + k - 1
  <2>1. CASE k \in 1..Len(chan)
    BY <1>3, <2>1 DEF Aligned
  <2>2. CASE k = Len(chan) + 1
    <3>1. pipe[1].verb = "done" \/ Beat(pipe[1]) = h + Len(chan) + 1 - 1
      BY <1>2 DEF Aligned
    <3> QED
      BY <1>3, <2>2, <3>1
  <2> QED
    BY <1>3, <1>5, <2>1, <2>2
<1>6. ASSUME NEW k \in 1..Len(pipe')
      PROVE  pipe'[k].verb = "done" \/ Beat(pipe'[k]) = h + Len(chan') + k - 1
  <2>1. pipe[k + 1].verb = "done" \/ Beat(pipe[k + 1]) = h + Len(chan) + (k + 1) - 1
    BY <1>2, <1>6 DEF Aligned
  <2> QED
    BY <1>2, <1>3, <1>6, <2>1
<1> QED
  BY <1>1, <1>4, <1>5, <1>6 DEF Aligned, Beat

LEMMA SameAligned ==
    ASSUME TypeOK, NEW h \in Nat, Aligned(h), UNCHANGED <<chan, pipe, verdicts, inFlight, at>>,
           child' \in {"boot", "compile", "start"} => child \in {"boot", "compile", "start"},
           child' \in {"run", "hung", "report"} => child \in {"run", "hung", "report"}
    PROVE  Aligned(h)'
  BY DEF Aligned, Place, Written, Beat

LEMMA LinedStep == Inv /\ [Next]_vars => Lined'
<1> SUFFICES ASSUME Inv, [Next]_vars, pc' = "batch"
             PROVE  (\E h \in Nat : Aligned(h))'
  BY DEF Lined
<1> USE SuiteAssumption
<1>0. TypeOK /\ ParentPlaced /\ LinesTrue /\ at \in Nat
  BY DEF Inv, TypeOK
<1>s. CASE Spawn
  <2>1. /\ next \in Nat /\ next = Len(verdicts) /\ at' = next /\ chan' = <<>> /\ pipe' = <<>>
        /\ child' = "boot" /\ inFlight' = None /\ verdicts' = verdicts
    BY <1>0, <1>s DEF Spawn, FreshChannel, ParentPlaced, TypeOK
  <2>2. PICK n \in Nat : n = 2 * next
    BY <2>1
  <2>3. Place' = n /\ Written(n)' = n
    BY <2>1, <2>2 DEF Place, Written
  <2>4. Aligned(n)'
    BY <2>1, <2>2, <2>3 DEF Aligned
  <2> QED
    BY <2>4
<1>b. ASSUME pc = "batch"
      PROVE  (\E h \in Nat : Aligned(h))'
  <2>h. PICK h \in Nat : Aligned(h)
    BY <1>b DEF Inv, Lined
  <2>w. Written(h) \in Nat
    BY <1>0 DEF Written, TypeOK
  <2>1. CASE TakeChannel \/ FailEarly \/ Compile \/ Exit \/ Crash \/ Hang \/ SpawnHelper \/ HelperEnds
    BY <1>0, <2>h, <2>1, SameAligned DEF TakeChannel, FailEarly, Compile, Exit, Crash, Hang,
       SpawnHelper, HelperEnds, Die, pipeVars, parentVars
  <2>2. ASSUME NEW how \in {"pass", "fail"}, Return(how)
        PROVE  (\E g \in Nat : Aligned(g))'
    BY <1>0, <2>h, <2>2, SameAligned DEF Return, pipeVars, parentVars
  <2>3. CASE ReadEof \/ Ended \/ UNCHANGED vars
    BY <1>0, <2>h, <2>3, SameAligned DEF ReadEof, Ended, vars, childVars, pipeVars, parentVars
  <2>4. CASE StartTest
    <3>1. Written(h) = 2 * at
      BY <2>h, <2>4 DEF Aligned, StartTest
    <3>2. Beat([verb |-> "start", index |-> at]) = 2 * at
      BY <1>0 DEF Beat
    <3> QED
      BY <1>0, <2>h, <2>4, <3>1, <3>2, WriteAligns DEF StartTest, parentVars
  <2>5. CASE ReportTest
    <3>1. Written(h) = 2 * at + 1
      BY <2>h, <2>5 DEF Aligned, ReportTest
    <3>2. outcome \in {"pass", "fail"} /\ outcome # "start"
      BY <1>0 DEF TypeOK
    <3>3. Beat([verb |-> outcome, index |-> at]) = 2 * at + 1
      BY <1>0, <3>2 DEF Beat
    <3> QED
      BY <1>0, <2>h, <2>5, <3>1, <3>2, <3>3, WriteAligns DEF ReportTest, parentVars
  <2>6. CASE ReportDone
    <3>1. Written(h) = 2 * at
      BY <2>h, <2>6 DEF Aligned, ReportDone
    <3> QED
      BY <1>0, <2>h, <2>6, <3>1, WriteAligns DEF ReportDone, parentVars
  <2>7. CASE ReadLine
    BY <1>0, <2>h, <2>7, ReadAligns
  <2>8. CASE HearStart
    <3>1. Hear("start") /\ Head(chan).index < Tests /\ UNCHANGED <<at, child, pipe, verdicts>>
      BY <2>8 DEF HearStart, childVars
    <3>2. h = Place /\ Head(chan).index = Len(verdicts) /\ inFlight = None
      BY <1>0, <2>h, <3>1, HeardPlace
    <3>3. inFlight' # None /\ Len(verdicts) \in Nat
      BY <1>0, <2>8, <3>2 DEF HearStart, TypeOK, None
    <3>4. Place' = h + 1
      BY <3>1, <3>2, <3>3 DEF Place
    <3> QED
      BY <1>0, <2>h, <3>1, <3>4, HearShifts
  <2>9. ASSUME NEW kind \in {"pass", "fail"}, HearResult(kind)
        PROVE  (\E g \in Nat : Aligned(g))'
    <3>1. Hear(kind) /\ Head(chan).index < Tests /\ UNCHANGED <<at, child, pipe>> /\ inFlight' = None
      BY <2>9 DEF HearResult, childVars
    <3>2. h = Place /\ Head(chan).index = Len(verdicts) /\ inFlight # None
      BY <1>0, <2>h, <3>1, HeardPlace
    <3>3. Len(verdicts') = Len(verdicts) + 1 /\ Len(verdicts) \in Nat
      BY <1>0, <2>9, <3>2, VerdictType, HeardType DEF HearResult, Kinds
    <3>4. Place' = h + 1
      BY <3>1, <3>2, <3>3 DEF Place
    <3> QED
      BY <1>0, <2>h, <3>1, <3>4, HearShifts
  <2>10. CASE HearUnknown
    <3>1. PICK verb \in {"start", "pass", "fail"} : Hear(verb)
      BY <2>10 DEF HearUnknown
    <3>2. /\ Head(chan).index >= Tests /\ UNCHANGED <<at, child, pipe, verdicts, inFlight>>
          /\ Head(chan).index \in Nat /\ Head(chan).verb = verb
      BY <1>0, <2>10, <3>1, HeardType DEF HearUnknown, childVars, parentVars
    <3>3. Head(chan) = chan[1] /\ 1 \in 1..Len(chan)
      BY <1>0, <3>1, TailShifts DEF Hear, TypeOK
    <3>4. Beat(Head(chan)) = h
      BY <2>h, <3>2, <3>3 DEF Aligned
    <3>5. h >= 2 * Tests
      BY <3>2, <3>4 DEF Beat
    <3>6. Place >= 2 * Tests /\ Place' = Place
      BY <2>h, <3>2, <3>5 DEF Aligned, Place
    <3> QED
      BY <1>0, <2>h, <3>1, <3>2, <3>5, <3>6, HearShifts
  <2>11. ~(SpawnFails \/ Finish \/ Reap \/ HearDone \/ Disconnected \/ LateAndDead \/ LateAndKilled \/ Spawn)
    BY <1>b DEF SpawnFails, Finish, Reap, HearDone, Disconnected, LateAndDead, LateAndKilled,
       Settle, Spawn
  <2> QED
    BY <2>1, <2>2, <2>3, <2>4, <2>5, <2>6, <2>7, <2>8, <2>9, <2>10, <2>11
       DEF Next, ChildStep, ReaderStep, ParentStep
<1> QED
  <2>1. pc = "batch" \/ Spawn
    BY DEF Next, ChildStep, ReaderStep, ParentStep, TakeChannel, FailEarly, Compile, Exit, Crash,
       Hang, SpawnHelper, HelperEnds, StartTest, ReportTest, ReportDone, Return, ReadLine,
       ReadEof, SpawnFails, Finish, Reap, HearStart, HearResult, HearUnknown, HearDone, Hear,
       Disconnected, LateAndDead, LateAndKilled, Late, Ended, vars, parentVars
  <2> QED
    BY <1>s, <1>b, <2>1

(***************************************************************************)
(* The theorems                                                            *)
(***************************************************************************)
LEMMA InitInv == Init => Inv
<1> USE SuiteAssumption
<1> SUFFICES ASSUME Init
             PROVE  Inv
  OBVIOUS
<1>1. TypeOK
  <2>1. <<>> \in Seq(Line) /\ <<>> \in Seq([index : Nat, kind : Kinds])
    OBVIOUS
  <2>2. /\ verdicts = <<>> /\ chan = <<>> /\ pipe = <<>> /\ returned = {}
        /\ returned \subseteq Nat \X {"pass", "fail"}
    BY DEF Init
  <2> QED
    BY <2>1, <2>2 DEF Init, TypeOK
<1>2. ParentPlaced /\ Lined
  BY DEF Init, ParentPlaced, Lined
<1>3. LinesTrue
  <2>1. Range(<<>>) = {}
    BY DEF Range
  <2> QED
    BY <2>1 DEF Init, LinesTrue
<1> QED
  BY <1>1, <1>2, <1>3 DEF Inv

LEMMA InvStep == Inv /\ [Next]_vars => Inv'
  BY TypeStep, PlacedStep, TrueStep, LinedStep DEF Inv

LEMMA InvHolds == Spec => []Inv
<1>1. Init => Inv
  BY InitInv
<1>2. Inv /\ [Next]_vars => Inv'
  BY InvStep
<1> QED
  BY <1>1, <1>2, PTL DEF Spec

(* The variables of the runner hold values of their types.                     *)
THEOREM TypeCorrect == Spec => []TypeOK
<1>1. Inv => TypeOK
  BY DEF Inv
<1> QED
  BY <1>1, InvHolds, PTL

(* The invariant the run checks: what the parent has heard, the lines under     *)
(* way and what the child has written follow one another without a gap.         *)
THEOREM ReportIsAligned == Spec => []ReportInvariant
<1>1. Inv => ReportInvariant
  BY LinedAligned DEF Inv, ReportInvariant
<1> QED
  BY <1>1, InvHolds, PTL

(***************************************************************************)
(* Every test gets one verdict, in order, and the run does not end before the   *)
(* last one: the runner implements SuiteReport.                              *)
(***************************************************************************)
LEMMA JudgeRefines ==
    ASSUME TypeOK, NEW i \in Nat, NEW kind \in Kinds, Judge(i, kind), i = Len(verdicts),
           Len(verdicts) < Tests, pc \notin {"ended", "error"}, pc' \notin {"ended", "error"}
    PROVE  Suite!Next
<1>1. Status = "running" /\ Status' = "running"
  BY DEF Status
<1>2. Suite!Judge(kind)
  BY <1>1 DEF Suite!Judge, Judge
<1> QED
  BY <1>2 DEF Suite!Next

LEMMA SuiteStep == Inv /\ [Next]_vars => [Suite!Next]_<<verdicts, Status>>
<1> SUFFICES ASSUME Inv, [Next]_vars, ~UNCHANGED <<verdicts, Status>>
             PROVE  Suite!Next
  OBVIOUS
<1> USE SuiteAssumption
<1>0. TypeOK /\ ParentPlaced /\ Len(verdicts) \in Nat /\ Len(verdicts) <= Tests /\ next \in Nat
  BY DEF Inv, TypeOK, ParentPlaced
<1>1. CASE SpawnFails
  <2>1. next = Len(verdicts) /\ next < Tests /\ pc = "resume" /\ pc' = "error" /\ UNCHANGED verdicts
    BY <1>0, <1>1 DEF SpawnFails, ParentPlaced
  <2> QED
    BY <2>1 DEF Suite!Next, Suite!Abort, Status
<1>2. CASE Finish
  <2>1. next = Len(verdicts) /\ next >= Tests /\ pc = "resume" /\ pc' = "ended" /\ UNCHANGED verdicts
    BY <1>0, <1>2 DEF Finish, ParentPlaced
  <2> QED
    BY <1>0, <2>1 DEF Suite!Next, Suite!Finish, Status
<1>3. CASE Reap
  <2>1. pc = "reap" /\ pc' = "resume" /\ resume = Len(verdicts) /\ next < Tests /\ next <= Len(verdicts)
    BY <1>0, <1>3 DEF Reap, ParentPlaced
  <2>2. CASE UNCHANGED verdicts
    BY <2>1, <2>2 DEF Status
  <2>3. CASE resume <= next /\ Judge(next, "silent")
    BY <1>0, <2>1, <2>3, JudgeRefines DEF Kinds
  <2> QED
    BY <1>3, <2>2, <2>3 DEF Reap
<1>4. ASSUME NEW kind \in {"pass", "fail"}, HearResult(kind)
      PROVE  Suite!Next
  <2>1. /\ pc = "batch" /\ pc' = pc /\ Hear(kind) /\ Head(chan).index < Tests
        /\ Judge(Head(chan).index, kind)
    BY <1>4 DEF HearResult, Hear
  <2>2. PICK h \in Nat : Aligned(h)
    BY <2>1 DEF Inv, Lined
  <2>3. Head(chan).index = Len(verdicts)
    BY <1>0, <2>1, <2>2, HeardPlace
  <2> QED
    BY <1>0, <2>1, <2>3, JudgeRefines DEF Kinds
<1>5. ASSUME NEW kind \in {"crash", "timeout"}, Settle(kind), pc = "batch", UNCHANGED next
      PROVE  Suite!Next
  <2>1. pc' = "reap" /\ (Judge(inFlight, kind) \/ UNCHANGED verdicts)
    BY <1>5 DEF Settle
  <2>2. CASE UNCHANGED verdicts
    BY <1>5, <2>1, <2>2 DEF Status
  <2>3. CASE Judge(inFlight, kind)
    <3>1. inFlight = Len(verdicts) /\ Len(verdicts) < Tests
      BY <1>0, <1>5, <2>3, SettlePlaced
    <3> QED
      BY <1>0, <1>5, <2>1, <2>3, <3>1, JudgeRefines DEF Kinds
  <2> QED
    BY <2>1, <2>2, <2>3
<1>6. CASE Disconnected \/ LateAndDead
  BY <1>5, <1>6 DEF Disconnected, LateAndDead, Late
<1>7. CASE LateAndKilled
  BY <1>5, <1>7 DEF LateAndKilled, Late
<1>8. CASE Spawn \/ HearStart \/ HearDone
  BY <1>8 DEF Spawn, HearStart, HearDone, Hear, Status
<1>9. CASE ChildStep \/ SpawnHelper \/ HelperEnds \/ ReaderStep \/ HearUnknown \/ Ended \/ UNCHANGED vars
  <2>1. UNCHANGED parentVars
    BY <1>9 DEF ChildStep, ReaderStep, vars, TakeChannel, FailEarly, Compile, StartTest,
         ReportTest, ReportDone, Exit, Crash, Hang, SpawnHelper, HelperEnds, Return, ReadLine,
         ReadEof, HearUnknown, Ended
  <2> QED
    BY <2>1 DEF parentVars, Status
<1> QED
  BY <1>1, <1>2, <1>3, <1>4, <1>6, <1>7, <1>8, <1>9 DEF Next, ParentStep

THEOREM ImplementsSuite == Spec => SuiteSpec
<1>1. Init => Suite!Init
  BY DEF Init, Suite!Init, Status
<1>2. Inv /\ [Next]_vars => [Suite!Next]_<<verdicts, Status>>
  BY SuiteStep
<1> QED
  BY <1>1, <1>2, InvHolds, PTL DEF Spec, SuiteSpec, Suite!Spec

(***************************************************************************)
(* Two verdicts of different kinds, or a verdict and none, are different steps. *)
(***************************************************************************)
LEMMA OneVerdict ==
    ASSUME TypeOK, NEW i, NEW j, NEW kind, NEW sort, Judge(i, kind), Judge(j, sort)
    PROVE  i = j /\ kind = sort
<1>1. Append(verdicts, [index |-> i, kind |-> kind]) = Append(verdicts, [index |-> j, kind |-> sort])
  BY DEF Judge
<1>2. /\ Append(verdicts, [index |-> i, kind |-> kind])[Len(verdicts) + 1] = [index |-> i, kind |-> kind]
      /\ Append(verdicts, [index |-> j, kind |-> sort])[Len(verdicts) + 1] = [index |-> j, kind |-> sort]
  BY DEF TypeOK
<1> QED
  BY <1>1, <1>2

LEMMA JudgeChanges ==
    ASSUME TypeOK, NEW i, NEW kind, Judge(i, kind)
    PROVE  verdicts' # verdicts
<1>1. Len(Append(verdicts, [index |-> i, kind |-> kind])) = Len(verdicts) + 1 /\ Len(verdicts) \in Nat
  BY DEF TypeOK
<1> QED
  BY <1>1 DEF Judge

(* Every verdict comes from one of four places.                               *)
LEMMA WhoJudges ==
    ASSUME TypeOK, [Next]_vars, NEW i, NEW kind, Judge(i, kind)
    PROVE  \/ Reap /\ kind = "silent"
           \/ HearResult(kind) /\ kind \in {"pass", "fail"} /\ i = Head(chan).index
           \/ (Disconnected \/ LateAndDead) /\ kind = "crash" /\ i = inFlight /\ i # None
           \/ LateAndKilled /\ kind = "timeout" /\ i = inFlight
<1>1. verdicts' # verdicts
  BY JudgeChanges
<1>2. \/ Reap \/ (\E sort \in {"pass", "fail"} : HearResult(sort))
      \/ Disconnected \/ LateAndDead \/ LateAndKilled
  BY <1>1 DEF Next, ChildStep, ReaderStep, ParentStep, TakeChannel, FailEarly, Compile, Exit,
     Crash, Hang, SpawnHelper, HelperEnds, StartTest, ReportTest, ReportDone, Return, ReadLine,
     ReadEof, Spawn, SpawnFails, Finish, HearStart, HearUnknown, HearDone, Ended, vars, parentVars
<1>3. CASE Reap
  <2>1. Judge(next, "silent")
    BY <1>1, <1>3 DEF Reap
  <2> QED
    BY <1>3, <2>1, OneVerdict
<1>4. ASSUME NEW sort \in {"pass", "fail"}, HearResult(sort)
      PROVE  HearResult(kind) /\ kind \in {"pass", "fail"} /\ i = Head(chan).index
  <2>1. Judge(Head(chan).index, sort)
    BY <1>4 DEF HearResult
  <2>2. i = Head(chan).index /\ kind = sort
    BY <2>1, OneVerdict
  <2> QED
    BY <1>4, <2>2
<1>5. CASE Disconnected \/ LateAndDead
  <2>1. inFlight # None /\ Judge(inFlight, "crash")
    BY <1>1, <1>5 DEF Disconnected, LateAndDead, Settle
  <2>2. i = inFlight /\ kind = "crash"
    BY <2>1, OneVerdict
  <2> QED
    BY <1>5, <2>1, <2>2
<1>6. CASE LateAndKilled
  <2>1. Judge(inFlight, "timeout")
    BY <1>1, <1>6 DEF LateAndKilled, Settle
  <2>2. i = inFlight /\ kind = "timeout"
    BY <2>1, OneVerdict
  <2> QED
    BY <1>6, <2>2
<1> QED
  BY <1>2, <1>3, <1>4, <1>5, <1>6

(* A PASS or FAIL line is printed only for a test that returned that way in     *)
(* the child that reported it.                                              *)
LEMMA ResultsStep == ASSUME Inv, [Next]_vars PROVE ResultsTrue
<1> SUFFICES ASSUME NEW i \in 0..(Tests - 1), NEW kind \in {"pass", "fail"}, Judge(i, kind)
             PROVE  <<i, kind>> \in returned
  BY DEF ResultsTrue
<1>0. TypeOK /\ LinesTrue
  BY DEF Inv
<1>1. HearResult(kind) /\ i = Head(chan).index
  BY <1>0, WhoJudges
<1>2. chan \in Seq(Line) /\ chan # <<>> /\ Head(chan).verb = kind
  BY <1>0, <1>1 DEF HearResult, Hear, TypeOK
<1>3. Head(chan) \in Range(chan)
  BY <1>2, TailInRange
<1> QED
  BY <1>0, <1>1, <1>2, <1>3 DEF LinesTrue

(* Once a test has a verdict no child runs it again.                           *)
THEOREM NoRerun == Spec => NeverRerun
<1>1. ASSUME Inv, [Next]_vars
      PROVE  child' = "run" /\ child # "run" => at >= Len(verdicts)
  <2> SUFFICES ASSUME child' = "run", child # "run"
               PROVE  at >= Len(verdicts)
    OBVIOUS
  <2>0. TypeOK /\ LinesTrue /\ ParentPlaced
    BY <1>1 DEF Inv
  <2>1. StartTest
    BY <1>1 DEF Next, ChildStep, ReaderStep, ParentStep, TakeChannel, FailEarly, Compile, Exit,
       Crash, Die, Hang, SpawnHelper, HelperEnds, ReportTest, ReportDone, Return, ReadLine,
       ReadEof, Spawn, SpawnFails, Finish, Reap, HearStart, HearResult, HearUnknown, HearDone,
       Disconnected, LateAndDead, LateAndKilled, Ended, vars, childVars
  <2>2. child = "start" /\ pc = "batch"
    BY <2>0, <2>1 DEF StartTest, LinesTrue
  <2>3. PICK h \in Nat : Aligned(h)
    BY <1>1, <2>2 DEF Inv, Lined
  <2>4. Written(h) = 2 * at /\ h <= Written(h)
    BY <2>0, <2>2, <2>3 DEF Aligned, Written, TypeOK
  <2>5. Len(verdicts) \in Nat /\ at \in Nat /\ Len(verdicts) <= Tests
    BY <2>0 DEF TypeOK, ParentPlaced
  <2>6. h >= 2 * Len(verdicts)
    <3>1. h = Place \/ h >= 2 * Tests
      BY <2>3 DEF Aligned
    <3>2. Place >= 2 * Len(verdicts)
      BY <2>5 DEF Place
    <3> QED
      BY <2>5, <3>1, <3>2, SuiteAssumption
  <2> QED
    BY <2>4, <2>5, <2>6
<1> QED
  BY <1>1, InvHolds, PTL DEF Spec, NeverRerun

(* A test is called crashed only when its process has died, and, unless a        *)
(* deadline passed first, only when that process had not reported the test.      *)
LEMMA CrashStep == ASSUME Inv, [Next]_vars PROVE CrashExact
<1> SUFFICES ASSUME NEW i \in 0..(Tests - 1), Judge(i, "crash")
             PROVE  ~Alive /\ (deadline \/ at = i)
  BY DEF CrashExact
<1>0. TypeOK /\ LinesTrue /\ ParentPlaced
  BY DEF Inv
<1>1. (Disconnected \/ LateAndDead) /\ i = inFlight /\ i # None
  BY <1>0, WhoJudges
<1>2. CASE LateAndDead
  BY <1>2 DEF LateAndDead, Late
<1>3. CASE Disconnected
  <2>1. ~Alive /\ pc = "batch" /\ chan = <<>> /\ pipe = <<>>
    BY <1>0, <1>3 DEF Disconnected, Drained, LinesTrue
  <2>2. PICK h \in Nat : Aligned(h)
    BY <2>1 DEF Inv, Lined
  <2>3. Written(h) = h
    BY <2>1 DEF Written
  <2>4. i = Len(verdicts) /\ i < Tests /\ Place = 2 * i + 1
    BY <1>0, <1>1, <2>1 DEF ParentPlaced, Place
  <2>5. h = 2 * i + 1
    BY <2>2, <2>4, SuiteAssumption DEF Aligned
  <2>6. 2 * at <= 2 * i + 1 /\ 2 * i + 1 <= 2 * at + 1 /\ at \in Nat
    BY <1>0, <2>2, <2>3, <2>5 DEF Aligned, TypeOK
  <2> QED
    BY <2>1, <2>6
<1> QED
  BY <1>1, <1>2, <1>3

(* What is printed of a test, that it passed, failed or crashed, is true of it.   *)
THEOREM VerdictsTrue == Spec => VerdictsAreTrue
<1>1. Inv /\ [Next]_vars => ResultsTrue /\ CrashExact
  BY ResultsStep, CrashStep
<1> QED
  BY <1>1, InvHolds, PTL DEF Spec, VerdictsAreTrue

(***************************************************************************)
(* Why every run ends                                                       *)
(***************************************************************************)
(* A child that runs a test has found it; once it has taken its channel, what   *)
(* it hands down is the null device.                                        *)
Placed ==
    /\ next <= Tests
    /\ child \in {"run", "hung", "report"} => at < size
    /\ child \in {"compile", "start", "run", "hung", "report", "exit"} => slot = "null"
    /\ helper # "pipe"

LEMMA PlacedNext == Inv /\ Placed /\ [Next]_vars => Placed'
<1> SUFFICES ASSUME Inv, Placed, [Next]_vars PROVE Placed'
  OBVIOUS
<1> USE SuiteAssumption
<1>0. TypeOK /\ ParentPlaced /\ next \in Nat /\ at \in Nat /\ size \in Nat /\ Len(verdicts) \in Nat
  BY DEF Inv, TypeOK
<1>1. next' <= Tests
  <2>1. CASE Reap
    <3>1. next < Tests /\ resume <= Tests
      BY <1>0, <2>1 DEF Reap, ParentPlaced
    <3> QED
      BY <1>0, <2>1, <3>1 DEF Reap
  <2>2. ASSUME ~ Reap PROVE next' = next
    BY <2>2 DEF Next, ChildStep, ReaderStep, ParentStep, TakeChannel, FailEarly, Compile,
       StartTest, Return, Hang, SpawnHelper, HelperEnds, ReportTest, ReportDone, Exit, Crash,
       ReadLine, ReadEof, Spawn, SpawnFails, Finish, HearStart, HearResult, HearUnknown,
       HearDone, Disconnected, LateAndDead, LateAndKilled, Ended, vars, parentVars
  <2> QED
    BY <2>1, <2>2 DEF Placed
<1>2. /\ child' \in {"run", "hung", "report"} => at' < size'
      /\ child' \in {"compile", "start", "run", "hung", "report", "exit"} => slot' = "null"
      /\ helper' # "pipe"
  <2>1. CASE ChildStep
    BY <2>1 DEF Placed, ChildStep, TakeChannel, SlotAfterTake, FailEarly, Compile, StartTest,
       Return, Hang, ReportTest, ReportDone, Exit, Crash, Die
  <2>2. CASE SpawnHelper \/ HelperEnds
    BY <2>2 DEF Placed, SpawnHelper, HelperEnds
  <2>3. CASE ReaderStep
    BY <2>3 DEF Placed, ReaderStep, ReadLine, ReadEof, childVars
  <2>4. CASE ParentStep
    BY <2>4 DEF Placed, ParentStep, Spawn, SpawnFails, Finish, Reap, HearStart, HearResult,
       HearUnknown, HearDone, Disconnected, LateAndDead, LateAndKilled, childVars
  <2>5. CASE UNCHANGED vars
    BY <2>5 DEF Placed, vars, childVars
  <2> QED
    BY <2>1, <2>2, <2>3, <2>4, <2>5 DEF Next, Ended
<1> QED
  BY <1>1, <1>2 DEF Placed

LEMMA PlacedHolds == Spec => []Placed
<1>1. Init => Placed
  BY SuiteAssumption DEF Init, Placed
<1> QED
  BY <1>1, PlacedNext, InvHolds, PTL DEF Spec

(* Until it has ended the run goes on without any failure, whatever crashed,    *)
(* hung or stayed behind before, unless a test hangs and there is no deadline.  *)
THEOREM NeverStuckCorrect == Spec => []NeverStuck
<1>1. Inv /\ Placed => NeverStuck
  <2> SUFFICES ASSUME Inv, Placed, pc \notin {"ended", "error"}, ~ CanWork, ~ CanRead, ~ CanGoOn
               PROVE  ~ deadline /\ child = "hung"
    BY DEF NeverStuck
  <2>1. TypeOK /\ LinesTrue
    BY DEF Inv
  <2>2. child \in {"hung", "dead"} /\ deadline \in BOOLEAN /\ eof \in BOOLEAN
    BY <2>1 DEF TypeOK, CanWork
  <2>3. pc = "batch"
    BY <2>1, <2>2 DEF TypeOK, LinesTrue, CanGoOn, Alive
  <2>4. chan = <<>> /\ ~ eof
    BY <2>1, <2>3 DEF CanGoOn, LinesTrue
  <2>5. WriteEndOpen
    BY <2>3, <2>4 DEF CanRead
  <2>6. child = "hung"
    BY <2>2, <2>5 DEF WriteEndOpen, Alive, Placed
  <2> QED
    BY <2>2, <2>3, <2>4, <2>6 DEF CanGoOn
<1> QED
  BY <1>1, InvHolds, PlacedHolds, PTL

LEMMA LessAt ==
    ASSUME NEW x, NEW y, \A j \in 1..8 : x[j] \in Nat /\ y[j] \in Nat,
           NEW k \in 1..8, x[k] < y[k], \A j \in 1..(k - 1) : x[j] <= y[j]
    PROVE  Less(x, y)
<1> DEFINE T == {j \in 1..8 : x[j] # y[j]}
<1>1. T \in SUBSET Nat /\ T # {} /\ k \in T
  OBVIOUS
<1>2. PICK m \in T : \A j \in T : ~ (<<j, m>> \in OpToRel(<, Nat))
  BY <1>1, NatLessThanWellFounded, WFMin
<1>3. m \in 1..8 /\ x[m] # y[m] /\ \A j \in T : ~ (j < m)
  BY <1>1, <1>2 DEF OpToRel
<1>4. x[m] < y[m]
  <2>1. CASE m = k
    BY <2>1
  <2>2. CASE m # k
    <3>1. m \in 1..(k - 1)
      BY <1>1, <1>3, <2>2
    <3> QED
      BY <1>3, <3>1
  <2> QED
    BY <2>1, <2>2
<1>5. ASSUME NEW j \in 1..(m - 1) PROVE x[j] = y[j]
  <2>1. j \in 1..8 /\ j < m
    BY <1>3
  <2> QED
    BY <1>3, <2>1
<1> QED
  BY <1>3, <1>4, <1>5 DEF Less

Working(c, i, n) == IF c \in InSuite /\ i < n THEN n - i ELSE 0

LEMMA RemainingIs ==
    /\ Remaining[1] = Tests - next /\ Remaining[2] = BatchLeft(pc)
    /\ Remaining[3] = LifeLeft(child) /\ Remaining[4] = Working(child, at, size)
    /\ Remaining[5] = TestLeft(child)
    /\ Remaining[6] = Len(pipe) /\ Remaining[7] = Len(chan)
    /\ Remaining[8] = IF eof THEN 0 ELSE 1
BY DEF Remaining, Working

LEMMA RemainingIsNext ==
    /\ Remaining'[1] = Tests - next' /\ Remaining'[2] = BatchLeft(pc')
    /\ Remaining'[3] = LifeLeft(child') /\ Remaining'[4] = Working(child', at', size')
    /\ Remaining'[5] = TestLeft(child')
    /\ Remaining'[6] = Len(pipe') /\ Remaining'[7] = Len(chan')
    /\ Remaining'[8] = IF eof' THEN 0 ELSE 1
BY DEF Remaining, Working, BatchLeft, LifeLeft, TestLeft, InSuite

LEMMA RemainingType ==
    TypeOK /\ Placed => \A j \in 1..8 : Remaining[j] \in Nat
<1> SUFFICES ASSUME TypeOK, Placed PROVE \A j \in 1..8 : Remaining[j] \in Nat
  OBVIOUS
<1>1. next \in Nat /\ at \in Nat /\ size \in Nat /\ pipe \in Seq(Line) /\ chan \in Seq(Line)
  BY DEF TypeOK
<1>2. Tests - next \in Nat
  BY <1>1, SuiteAssumption DEF Placed
<1>3. Working(child, at, size) \in Nat
  BY <1>1 DEF Working
<1>4. BatchLeft(pc) \in Nat /\ LifeLeft(child) \in Nat /\ TestLeft(child) \in Nat
  BY DEF BatchLeft, LifeLeft, TestLeft, TypeOK
<1>5. Len(pipe) \in Nat /\ Len(chan) \in Nat
  BY <1>1
<1>6. /\ Remaining[1] \in Nat /\ Remaining[2] \in Nat /\ Remaining[3] \in Nat
      /\ Remaining[4] \in Nat /\ Remaining[5] \in Nat
  BY <1>2, <1>3, <1>4, RemainingIs, Zenon
<1>7. Remaining[6] \in Nat /\ Remaining[7] \in Nat
  BY <1>5, RemainingIs, Zenon
<1>8. Remaining[8] \in Nat
  BY RemainingIs
<1> QED
  BY <1>6, <1>7, <1>8

LEMMA StepLess ==
    ASSUME TypeOK, TypeOK', Placed, Placed', NEW k \in 1..8, Remaining'[k] < Remaining[k],
           \A j \in 1..(k - 1) : Remaining'[j] <= Remaining[j]
    PROVE  Less(Remaining', Remaining)
<1>1. (TypeOK /\ Placed => \A j \in 1..8 : Remaining[j] \in Nat)'
  BY RemainingType, PTL
<1>2. \A j \in 1..8 : Remaining'[j] \in Nat /\ Remaining[j] \in Nat
  BY <1>1, RemainingType
<1> QED
  BY <1>2, LessAt

(* What a step leaves alone it does not add to.                              *)
LEMMA Stays ==
    ASSUME TypeOK, TypeOK', Placed, Placed'
    PROVE  /\ next' = next => Remaining'[1] <= Remaining[1]
           /\ pc' = pc => Remaining'[2] <= Remaining[2]
           /\ child' = child => Remaining'[3] <= Remaining[3] /\ Remaining'[5] <= Remaining[5]
           /\ child' = child /\ at' = at /\ size' = size => Remaining'[4] <= Remaining[4]
           /\ pipe' = pipe => Remaining'[6] <= Remaining[6]
           /\ chan' = chan => Remaining'[7] <= Remaining[7]
<1>1. (TypeOK /\ Placed => \A j \in 1..8 : Remaining[j] \in Nat)'
  BY RemainingType, PTL
<1>2. \A j \in 1..8 : Remaining'[j] \in Nat /\ Remaining[j] \in Nat
  BY <1>1, RemainingType
<1>3. /\ next' = next => Remaining'[1] = Remaining[1]
      /\ pc' = pc => Remaining'[2] = Remaining[2]
      /\ child' = child => Remaining'[3] = Remaining[3] /\ Remaining'[5] = Remaining[5]
      /\ child' = child /\ at' = at /\ size' = size => Remaining'[4] = Remaining[4]
      /\ pipe' = pipe => Remaining'[6] = Remaining[6]
      /\ chan' = chan => Remaining'[7] = Remaining[7]
  BY RemainingIs, RemainingIsNext
<1> QED
  BY <1>2, <1>3

LEMMA LessByChild ==
    ASSUME TypeOK, TypeOK', Placed, Placed', ChildStep
    PROVE  Less(Remaining', Remaining)
<1>0. next' = next /\ pc' = pc /\ at \in Nat /\ size \in Nat
  BY DEF TypeOK, ChildStep, TakeChannel, FailEarly, Compile, StartTest, Return, Hang,
     ReportTest, ReportDone, Exit, Crash, parentVars
<1>1. CASE TakeChannel \/ FailEarly \/ Compile \/ ReportDone \/ Exit \/ Crash
  <2>1. LifeLeft(child') < LifeLeft(child)
    BY <1>1 DEF TakeChannel, FailEarly, Compile, ReportDone, Exit, Crash, Die, LifeLeft, InSuite
  <2>2. Remaining'[3] < Remaining[3] /\ \A j \in 1..(3 - 1) : Remaining'[j] <= Remaining[j]
    BY <1>0, <2>1, Stays, RemainingIs, RemainingIsNext
  <2> QED
    BY <2>2, StepLess
<1>2. CASE ReportTest
  <2>1. /\ child = "report" /\ child' = "start" /\ at' = at + 1 /\ size' = size /\ at < size
    BY <1>2 DEF ReportTest, Placed
  <2>2. LifeLeft(child') = 2 /\ LifeLeft(child) = 2
    BY <2>1 DEF LifeLeft, InSuite
  <2>3. Working(child', at', size') < Working(child, at, size)
    BY <1>0, <2>1 DEF Working, InSuite
  <2>4. Remaining'[4] < Remaining[4] /\ Remaining'[3] <= Remaining[3]
    BY <2>2, <2>3, RemainingIs, RemainingIsNext
  <2>5. \A j \in 1..(4 - 1) : Remaining'[j] <= Remaining[j]
    BY <1>0, <2>4, Stays
  <2> QED
    BY <2>4, <2>5, StepLess
<1>3. CASE StartTest \/ Hang \/ \E how \in {"pass", "fail"} : Return(how)
  <2>1. /\ child \in {"start", "run"} /\ child' \in InSuite /\ at' = at /\ size' = size
        /\ TestLeft(child') < TestLeft(child)
    BY <1>3 DEF StartTest, Hang, Return, TestLeft, InSuite
  <2>2. LifeLeft(child') = 2 /\ LifeLeft(child) = 2
    BY <2>1 DEF LifeLeft, InSuite
  <2>3. Working(child', at', size') = Working(child, at, size)
    BY <2>1 DEF Working, InSuite
  <2>4. Working(child, at, size) \in Nat
    BY <1>0 DEF Working
  <2>5. /\ Remaining'[5] < Remaining[5] /\ Remaining'[3] <= Remaining[3]
        /\ Remaining'[4] <= Remaining[4]
    BY <2>1, <2>2, <2>3, <2>4, RemainingIs, RemainingIsNext
  <2>6. \A j \in 1..(5 - 1) : Remaining'[j] <= Remaining[j]
    BY <1>0, <2>5, Stays
  <2> QED
    BY <2>5, <2>6, StepLess
<1> QED
  BY <1>1, <1>2, <1>3 DEF ChildStep

LEMMA LessByReader ==
    ASSUME TypeOK, TypeOK', Placed, Placed', ReaderStep
    PROVE  Less(Remaining', Remaining)
<1>0. next' = next /\ pc' = pc /\ child' = child /\ at' = at /\ size' = size
  BY DEF ReaderStep, ReadLine, ReadEof, parentVars, childVars
<1>1. CASE ReadLine
  <2>1. pipe \in Seq(Line) /\ pipe # <<>> /\ pipe' = Tail(pipe)
    BY <1>1 DEF ReadLine, TypeOK
  <2>2. Len(pipe') < Len(pipe)
    BY <2>1, TailShifts
  <2>3. Remaining'[6] < Remaining[6]
    BY <2>2, RemainingIs, RemainingIsNext
  <2>4. \A j \in 1..(6 - 1) : Remaining'[j] <= Remaining[j]
    BY <1>0, Stays
  <2> QED
    BY <2>3, <2>4, StepLess
<1>2. CASE ReadEof
  <2>1. ~ eof /\ eof' /\ pipe' = pipe /\ chan' = chan
    BY <1>2 DEF ReadEof
  <2>2. Remaining'[8] < Remaining[8]
    BY <2>1, RemainingIs, RemainingIsNext
  <2>3. \A j \in 1..(8 - 1) : Remaining'[j] <= Remaining[j]
    BY <1>0, <2>1, Stays
  <2> QED
    BY <2>2, <2>3, StepLess
<1> QED
  BY <1>1, <1>2 DEF ReaderStep

LEMMA MoreLeavesLess == \A a, b, c \in Nat : b > c => a - b < a - c
OBVIOUS

LEMMA LessByParent ==
    ASSUME TypeOK, TypeOK', Placed, Placed', ParentStep
    PROVE  Less(Remaining', Remaining)
<1>1. CASE Reap
  <2>1. next \in Nat /\ next' \in Nat /\ next' > next
    BY <1>1 DEF Reap, TypeOK
  <2>2. Tests - next' < Tests - next
    BY <2>1, SuiteAssumption, MoreLeavesLess
  <2>3. Remaining'[1] < Remaining[1]
    <3>1. Remaining[1] = Tests - next
      BY RemainingIs
    <3>2. Remaining'[1] = Tests - next'
      BY RemainingIsNext
    <3>3. QED
      BY <2>2, <3>1, <3>2
  <2>4. \A j \in 1..(1 - 1) : Remaining'[j] <= Remaining[j]
    OBVIOUS
  <2> QED
    BY <2>3, <2>4, StepLess
<1>2. CASE \/ Spawn \/ SpawnFails \/ Finish \/ HearDone
           \/ Disconnected \/ LateAndDead \/ LateAndKilled
  <2>1. next' = next /\ BatchLeft(pc') < BatchLeft(pc)
    BY <1>2 DEF Spawn, SpawnFails, Finish, HearDone, Hear, Disconnected, LateAndDead,
       LateAndKilled, Late, Settle, BatchLeft
  <2>2. Remaining'[2] < Remaining[2] /\ \A j \in 1..(2 - 1) : Remaining'[j] <= Remaining[j]
    BY <2>1, Stays, RemainingIs, RemainingIsNext
  <2> QED
    BY <2>2, StepLess
<1>3. CASE HearStart \/ HearUnknown \/ \E kind \in {"pass", "fail"} : HearResult(kind)
  <2>1. /\ next' = next /\ pc' = pc /\ child' = child /\ at' = at /\ size' = size
        /\ pipe' = pipe /\ chan # <<>> /\ chan' = Tail(chan)
    BY <1>3 DEF HearStart, HearUnknown, HearResult, Hear, parentVars, childVars
  <2>2. chan \in Seq(Line)
    BY DEF TypeOK
  <2>3. Len(chan') < Len(chan)
    BY <2>1, <2>2, TailShifts
  <2>4. Remaining'[7] < Remaining[7]
    BY <2>3, RemainingIs, RemainingIsNext
  <2>5. \A j \in 1..(7 - 1) : Remaining'[j] <= Remaining[j]
    BY <2>1, Stays
  <2> QED
    BY <2>4, <2>5, StepLess
<1> QED
  BY <1>1, <1>2, <1>3 DEF ParentStep

(* Every step but a background process's uses something up: a run with any      *)
(* number of crashes, kills and silent children gets nearer to its end.        *)
THEOREM EveryStepUsesUpCorrect == Spec => EveryStepUsesUp
<1>1. TypeOK /\ TypeOK' /\ Placed /\ Placed' /\ [Next]_vars
         => [Less(Remaining', Remaining) \/ OnlyHelper]_vars
  <2> SUFFICES ASSUME TypeOK, TypeOK', Placed, Placed', Next, ~ (UNCHANGED vars)
               PROVE  Less(Remaining', Remaining) \/ OnlyHelper
    OBVIOUS
  <2>1. CASE SpawnHelper \/ HelperEnds
    <3>1. UNCHANGED <<next, pc, child, at, size, pipe, chan, eof>>
      BY <2>1 DEF SpawnHelper, HelperEnds, parentVars, pipeVars
    <3> QED
      BY <2>1, <3>1 DEF OnlyHelper, Remaining, BatchLeft, LifeLeft, TestLeft, InSuite
  <2> QED
    BY <2>1, LessByChild, LessByReader, LessByParent DEF Next, Ended
<1>2. Spec => []TypeOK
  BY TypeCorrect
<1> QED
  BY <1>1, <1>2, PlacedHolds, PTL DEF Spec, EveryStepUsesUp

(* The values of Remaining are eight numbers, and no descent through them is    *)
(* endless: any set of them has one than which none in the set is less.  So a   *)
(* run of the suite takes finitely many steps of its own.                     *)
THEOREM NoEndlessDescent ==
    /\ Spec => [](Remaining \in [1..8 -> Nat])
    /\ \A S \in SUBSET [1..8 -> Nat] :
          S # {} => \E x \in S : \A y \in S : ~ Less(y, x)
<1>1. TypeOK /\ Placed => Remaining \in [1..8 -> Nat]
  <2> SUFFICES ASSUME TypeOK, Placed PROVE Remaining \in [1..8 -> Nat]
    OBVIOUS
  <2>1. \A j \in 1..8 : Remaining[j] \in Nat
    BY RemainingType
  <2>2. Remaining = [j \in 1..8 |-> Remaining[j]]
    BY DEF Remaining
  <2> QED
    BY <2>1, <2>2
<1>2. Spec => [](Remaining \in [1..8 -> Nat])
  BY <1>1, TypeCorrect, PlacedHolds, PTL
<1>3. ASSUME NEW S \in SUBSET [1..8 -> Nat], S # {}
      PROVE  \E x \in S : \A y \in S : ~ Less(y, x)
  <2> DEFINE R == OpToRel(<, Nat)
             L == LexProductOrdering(R, Nat, 8)
  <2>1. \A j, k \in Nat : j < k => <<j, k>> \in R
    BY DEF OpToRel
  <2>2. IsWellFoundedOn(R, Nat)
    BY NatLessThanWellFounded
  <2> HIDE DEF R
  <2>3. IsWellFoundedOn(L, [1..8 -> Nat])
    BY <2>2, WFLexProductOrdering
  <2>4. ASSUME NEW x \in S, NEW y \in S, Less(y, x) PROVE <<y, x>> \in L
    <3>1. PICK k \in 1..8 : y[k] < x[k] /\ \A j \in 1..(k - 1) : y[j] = x[j]
      BY <2>4 DEF Less
    <3>2. <<y[k], x[k]>> \in R
      BY <2>1, <3>1
    <3> QED
      BY <3>1, <3>2 DEF LexProductOrdering
  <2> HIDE DEF L
  <2>5. PICK x \in S : \A y \in S : ~ (<<y, x>> \in L)
    BY <1>3, <2>3, WFMin
  <2> QED
    BY <2>4, <2>5
<1> QED
  BY <1>2, <1>3

=============================================================================
