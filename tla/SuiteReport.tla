----------------------------- MODULE SuiteReport -----------------------------
(***************************************************************************)
(* What lullaby test promises, whatever its tests do to the process that     *)
(* runs them: one verdict for each test, in the order of the suite, and no   *)
(* end before the last one - unless no child process can be started at all,  *)
(* which ends the command with an error instead of a summary.                *)
(***************************************************************************)
EXTENDS Naturals, Sequences

CONSTANTS Tests, Kinds
VARIABLES report, status

Init == report = <<>> /\ status = "running"

Judge(kind) ==
    /\ status = "running" /\ Len(report) < Tests
    /\ report' = Append(report, [index |-> Len(report), kind |-> kind])
    /\ UNCHANGED status

Finish ==
    /\ status = "running" /\ Len(report) = Tests
    /\ status' = "ended" /\ UNCHANGED report

Abort ==
    /\ status = "running" /\ Len(report) < Tests
    /\ status' = "error" /\ UNCHANGED report

Next == (\E kind \in Kinds : Judge(kind)) \/ Finish \/ Abort

Spec == Init /\ [][Next]_<<report, status>>
=============================================================================
