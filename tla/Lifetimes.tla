------------------------------ MODULE Lifetimes ------------------------------
(***************************************************************************)
(* The lifetime check of a function's body (L0350), walk_lifetimes of           *)
(* src/crates/lullaby_semantics/src/lib.rs over the FreedTracker of              *)
(* semantics_lifetime_alias.rs: one action per statement the walk comes to,       *)
(* in the order of the text.                                                *)
(*                                                                         *)
(* Beside the tracker runs what it stands for: the boxes the names hold on an    *)
(* execution that follows the text and skips or runs each block that may be      *)
(* skipped. Forms of the language the tracker does not follow are actions as     *)
(* well: untracked collects the names they leave it wrong about, overlooked the    *)
(* reads that it does not look at. boxes, faults, untracked, overlooked and        *)
(* written are not state of the checker; of a name in untracked boxes claims       *)
(* nothing.                                                                 *)
(*                                                                         *)
(* An operator named Mutant... is a deliberate mistake in the operator that   *)
(* follows it; no action uses it.                                           *)
(***************************************************************************)
EXTENDS Naturals, Sequences

CONSTANTS
    Pointers,      \* names of variables that hold a box
    Aggregates,    \* names of variables that hold a struct, array or list of boxes
    Fresh,         \* a value that is no variable: alloc(8), a call, a literal
    Live,          \* no name's free has killed it
    Forms,         \* which of AllForms a body may use
    MaxDepth,      \* bound: how deeply blocks are nested
    MaxStatements  \* bound: how many statements the walk comes to

AllForms == {"conditional", "always", "binder",
             "self copy", "part store", "unseen copy", "unseen free"}
Names == Pointers \cup Aggregates

ASSUME LifetimesAssumption ==
    /\ Pointers \cap Aggregates = {} /\ Fresh \notin Names /\ Live \notin Names
    /\ Forms \subseteq AllForms
    /\ MaxDepth \in Nat /\ MaxStatements \in Nat

VARIABLES
    tracker,     \* the FreedTracker in force: whose free killed a name, and its group
    enclosing,   \* the blocks the walk is in, with what was in force at their start
    boxes,       \* the boxes some name holds, and the name the last free was written on
    reported,    \* the L0350s of the last statement
    faults,      \* the dead boxes the last statement touched
    overlooked,  \* the names it read where the walk does not look
    untracked,   \* names the tracker may be wrong about
    written,     \* names bound in the innermost block
    statements

vars == <<tracker, enclosing, boxes, reported, faults, overlooked, untracked, written,
          statements>>

Init ==
    /\ tracker = [freed |-> [x \in Names |-> Live], aliases |-> [x \in Names |-> {}]]
    /\ enclosing = << >>
    /\ boxes = {[names |-> {x}, freedBy |-> Live] : x \in Names}
    /\ reported = {} /\ faults = {} /\ overlooked = {}
    /\ untracked = {} /\ written = {}
    /\ statements = 0

(***************************************************************************)
(* FreedTracker.                                                            *)
(***************************************************************************)
MutantDetach(t, x) == [t EXCEPT !.freed[x] = Live, !.aliases[x] = {}]

Detach(t, x) ==
    [freed   |-> [t.freed EXCEPT ![x] = Live],
     aliases |-> [y \in Names |-> CASE y = x              -> {}
                                    [] y \in t.aliases[x] -> t.aliases[y] \ {x}
                                    [] OTHER              -> t.aliases[y]]]

MutantRecordBinding(t, dest, value) ==
    LET detached == Detach(t, dest)
        group    == {value}
    IN IF value \in {Fresh, dest} THEN detached
       ELSE [freed   |-> [detached.freed EXCEPT ![dest] = detached.freed[value]],
             aliases |-> [y \in Names |-> CASE y = dest     -> group
                                            [] y \in group -> detached.aliases[y] \cup {dest}
                                            [] OTHER       -> detached.aliases[y]]]

(* The name leaves its group; a copy of a variable joins that variable's group *)
(* and is as dead as it.                                                    *)
RecordBinding(t, dest, value) ==
    LET detached == Detach(t, dest)
        group    == detached.aliases[value] \cup {value}
    IN IF value \in {Fresh, dest} THEN detached
       ELSE [freed   |-> [detached.freed EXCEPT ![dest] = detached.freed[value]],
             aliases |-> [y \in Names |-> CASE y = dest     -> group
                                            [] y \in group -> detached.aliases[y] \cup {dest}
                                            [] OTHER       -> detached.aliases[y]]]

RecordFree(t, target) ==
    [t EXCEPT !.freed = [y \in Names |-> IF y \in t.aliases[target] \cup {target}
                                         THEN target ELSE t.freed[y]]]

MutantDead(t, reads) == {[name |-> x, origin |-> t.freed[x]] : x \in reads}

(* check_freed_uses, with the name whose free the message blames.             *)
Dead(t, reads) == {[name |-> x, origin |-> t.freed[x]] : x \in {y \in reads : t.freed[y] # Live}}

(***************************************************************************)
(* The boxes themselves.                                                    *)
(***************************************************************************)
BoxOf(B, x) == CHOOSE b \in B : x \in b.names

DeadBoxes(reads) ==
    {[name |-> x, origin |-> BoxOf(boxes, x).freedBy] :
        x \in {y \in reads : BoxOf(boxes, y).freedBy # Live}}

Without(x) == {b \in boxes : x \notin b.names}
              \cup {[b EXCEPT !.names = @ \ {x}] : b \in {c \in boxes : x \in c.names /\ c.names # {x}}}

Rebound(dest, value) ==
    CASE value = dest  -> boxes
      [] value = Fresh -> Without(dest) \cup {[names |-> {dest}, freedBy |-> Live]}
      [] OTHER         -> LET joined == CHOOSE b \in Without(dest) : value \in b.names
                          IN (Without(dest) \ {joined})
                             \cup {[joined EXCEPT !.names = @ \cup {dest}]}

Freed(target) ==
    (boxes \ {BoxOf(boxes, target)}) \cup {[BoxOf(boxes, target) EXCEPT !.freedBy = target]}

(* The names of the boxes that are in one of B and C only.                    *)
Changed(B, C) == UNION {b.names : b \in (B \ C) \cup (C \ B)}

SharingWith(names) == UNION {BoxOf(boxes, x).names : x \in names}

(***************************************************************************)
(* The walk.                                                                *)
(***************************************************************************)
Statement ==
    /\ statements < MaxStatements
    /\ statements' = statements + 1

(* The names read where the walk looks, and those read where it does not.         *)
Reads(seen, unseen) ==
    /\ reported' = Dead(tracker, seen)
    /\ faults' = DeadBoxes(seen \cup unseen)
    /\ overlooked' = unseen \ seen

Touches(reads) == Reads(reads, {})

(* A name bound in a block may be a variable of that block, which hides one of     *)
(* the same name.                                                           *)
Writes(names) == written' = IF enclosing' = << >> THEN {} ELSE names

SameKind(x, y) == {x, y} \subseteq Pointers \/ {x, y} \subseteq Aggregates

(* let dest = value, dest = value: the value's reads first, then the binding.   *)
Bind(dest, value, reads) ==
    /\ Statement
    /\ value # dest
    /\ Touches(reads)
    /\ tracker' = RecordBinding(tracker, dest, value)
    /\ boxes' = Rebound(dest, value)
    /\ untracked' = IF value \in untracked THEN untracked \cup {dest} ELSE untracked \ {dest}
    /\ UNCHANGED enclosing
    /\ Writes(written \cup {dest})

BindFresh(dest, reads) == Bind(dest, Fresh, reads)
Copy(dest, source)     == SameKind(dest, source) /\ Bind(dest, source, {source})

(* q = s.f, q = identity(p), q = c ? p : r: whatever is no variable is taken for      *)
(* fresh.                                                                   *)
CopyUnseen(dest, source, reads) ==
    /\ "unseen copy" \in Forms
    /\ SameKind(dest, source) /\ dest # source
    /\ Statement
    /\ Touches(reads)
    /\ tracker' = RecordBinding(tracker, dest, Fresh)
    /\ boxes' = Rebound(dest, source)
    /\ untracked' = (untracked \ {dest}) \cup Changed(Rebound(dest, Fresh), boxes')
    /\ UNCHANGED enclosing
    /\ Writes(written \cup {dest})

(* p = p: the tracker takes it for a rebinding, and the box stays where it is.  *)
SelfCopy(x) ==
    /\ "self copy" \in Forms
    /\ Statement
    /\ Touches({x})
    /\ tracker' = RecordBinding(tracker, x, x)
    /\ untracked' = untracked \cup BoxOf(boxes, x).names
    /\ UNCHANGED <<enclosing, boxes, written>>

(* s.f = value, s[path] = value: the tracker takes it for a rebinding of s.       *)
StorePart(whole, value, reads, path) ==
    /\ "part store" \in Forms
    /\ Statement
    /\ Reads(reads, path)
    /\ tracker' = RecordBinding(tracker, whole, value)
    /\ untracked' = untracked \cup BoxOf(boxes, whole).names
    /\ UNCHANGED <<enclosing, boxes, written>>

(* dealloc(target), rc_release(target) as a statement or a returned value: the      *)
(* target is not a use of its own.                                           *)
Free(target) ==
    /\ Statement
    /\ Touches({target})
    /\ tracker' = RecordFree(tracker, target)
    /\ boxes' = Freed(target)
    /\ UNCHANGED <<enclosing, untracked, written>>

(* let x = dealloc(p), f(p) with an f that frees it, dealloc(s.f): reads only.       *)
FreeUnseen(target, reads) ==
    /\ "unseen free" \in Forms
    /\ Statement
    /\ Touches(reads)
    /\ boxes' = Freed(target)
    /\ untracked' = untracked \cup Changed(boxes, boxes')
    /\ UNCHANGED <<tracker, enclosing, written>>

(* An expression, a condition, a range, a thrown value; a call may read what the    *)
(* closure it calls has captured.                                            *)
Use(reads, captured) ==
    /\ Statement
    /\ Reads(reads, captured)
    /\ UNCHANGED <<tracker, enclosing, boxes, untracked, written>>

Enter(kind) ==
    /\ kind \in Forms
    /\ Len(enclosing) < MaxDepth
    /\ Statement
    /\ enclosing' = Append(enclosing, [kind |-> kind, tracker |-> tracker, boxes |-> boxes,
                                       untracked |-> untracked, written |-> written])
    /\ Touches({})
    /\ UNCHANGED tracker

(* A branch, a while's body, an arm without bindings, a try's body: conditional.     *)
(* The body of loop, unsafe and region: always.                               *)
Open(kind) ==
    /\ Enter(kind)
    /\ written' = {}
    /\ UNCHANGED <<boxes, untracked>>

(* The body of for and of catch, an arm with a binding, a closure with a parameter:   *)
(* x is a new variable, of which the tracker is not told.                       *)
OpenBinder(x, value) ==
    /\ Enter("binder")
    /\ boxes' = Rebound(x, value)
    /\ untracked' = untracked \cup Changed(boxes, boxes')
    /\ written' = {x}

Block == enclosing[Len(enclosing)]

(* The body was walked over a clone of the tracker.                           *)
TrackerAfter == Block.tracker

Leave ==
    /\ enclosing # << >>
    /\ enclosing' = SubSeq(enclosing, 1, Len(enclosing) - 1)
    /\ Touches({})
    /\ tracker' = TrackerAfter
    /\ UNCHANGED statements

LeaveSkipped ==
    /\ Leave
    /\ Block.kind # "always"
    /\ boxes' = Block.boxes
    /\ untracked' = Block.untracked
    /\ written' = Block.written

LeaveRan ==
    /\ Leave
    /\ untracked' = untracked \cup Block.untracked \cup Changed(Block.boxes, boxes)
                    \cup SharingWith(written)
    /\ Writes(written \cup Block.written)
    /\ UNCHANGED boxes

OneOf(names) == {{x} : x \in names} \cup {{}}

Next ==
    \/ \E x \in Names : \E reads \in OneOf({x}) : BindFresh(x, reads)
    \/ \E x, y \in Names : Copy(x, y)
    \/ \E x, y \in Names : \E reads \in OneOf({y}) : CopyUnseen(x, y, reads)
    \/ \E x \in Names : SelfCopy(x)
    \/ \E s \in Aggregates, path \in OneOf(Pointers) :
          \/ \E x \in Names \ {s} : StorePart(s, x, {x}, path)
          \/ StorePart(s, Fresh, {}, path)
    \/ \E x \in Pointers : Free(x)
    \/ \E x \in Pointers : \E reads \in OneOf({x}) : FreeUnseen(x, reads)
    \/ \E reads \in OneOf(Names) : Use(reads, {})
    \/ \E captured \in OneOf(Pointers) : Use({}, captured)
    \/ Open("conditional") \/ Open("always")
    \/ \E x \in Names : OpenBinder(x, Fresh)
    \/ \E x, y \in Names : SameKind(x, y) /\ OpenBinder(x, y)
    \/ LeaveSkipped \/ LeaveRan

Spec == Init /\ [][Next]_vars
=============================================================================
