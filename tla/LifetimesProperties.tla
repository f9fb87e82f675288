------------------------- MODULE LifetimesProperties -------------------------
(* What must hold of the lifetime check.                                     *)
EXTENDS Lifetimes

TrackerType == [freed : [Names -> Names \cup {Live}], aliases : [Names -> SUBSET Names]]
BoxType     == [names : SUBSET Names, freedBy : Names \cup {Live}]
ReportType  == [name : Names, origin : Names]

(* The types of the variables; every name holds one box.                      *)
TypeOK ==
    /\ tracker \in TrackerType
    /\ boxes \subseteq BoxType
    /\ \A x \in Names : \E b \in boxes : \A c \in boxes : x \in c.names <=> c = b
    /\ enclosing \in Seq([kind : Forms, tracker : TrackerType, boxes : SUBSET BoxType,
                          untracked : SUBSET Names, written : SUBSET Names])
    /\ Len(enclosing) <= MaxDepth
    /\ reported \subseteq ReportType /\ faults \subseteq ReportType
    /\ untracked \subseteq Names /\ overlooked \subseteq Names /\ written \subseteq Names
    /\ statements \in 0 .. MaxStatements

(***************************************************************************)
(* Copying is "symmetric and transitive", and a rebinding "detaches and       *)
(* revives just that name": among the names outside untracked, the groups of   *)
(* the tracker are the names of one box, and a name counts as freed exactly    *)
(* when its box is, by the name the free was written on, after any sequence    *)
(* of copies, rebindings, frees and blocks (record_binding, record_free,       *)
(* detach). In untracked are the names of a box that a form the tracker does   *)
(* not follow has been applied to: an alias or a free it does not see, p = p,  *)
(* a store to a part, the variable of a for, catch, arm or closure that hides  *)
(* the name, or a block that ran and changed what the name holds.             *)
(***************************************************************************)
GroupsAreBoxes ==
    \A x \in Names \ untracked :
        /\ tracker.aliases[x] \ untracked = BoxOf(boxes, x).names \ ({x} \cup untracked)
        /\ tracker.freed[x] = BoxOf(boxes, x).freedBy

(* The reports of a statement that the tracker answers for.                    *)
Judged(reports) == {r \in reports : r.name \notin untracked \cup overlooked'}
Truthful == Judged(reported') = Judged(faults')

(***************************************************************************)
(* Every statement is reported for exactly the dead boxes it reads or frees     *)
(* again, each with the name whose free the message blames (check_freed_uses,   *)
(* record_free, freed_origin), on every execution that follows the text and     *)
(* skips or runs each block that may be skipped. Not answered for are the names  *)
(* in untracked, where the code misses a dead box or reports a live one, and    *)
(* the reads in overlooked, where it does not look: the path an assignment      *)
(* stores to and what a called closure has captured.                          *)
(***************************************************************************)
ReportsAreTheFaults == [][Truthful]_vars
=============================================================================
