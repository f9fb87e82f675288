--------------------------- MODULE LoaderProperties ---------------------------
(* What must hold of a load.                                                *)
EXTENDS Loader

(***************************************************************************)
(* No module is loaded twice; the names being loaded are those of the stack,   *)
(* each once, so that the visiting.remove at the end of load_module never      *)
(* forgets a name that is still being loaded; and each module on the stack is   *)
(* imported by the one below it, so that a cycle reported is one.             *)
(***************************************************************************)
LoadedOnce ==
    \A j, k \in 1..Len(modules) : Name(modules[j]) = Name(modules[k]) => j = k

VisitingIsStack ==
    /\ visiting = {Name(stack[k].file) : k \in 1..Len(stack)}
    /\ \A j, k \in 1..Len(stack) : Name(stack[j].file) = Name(stack[k].file) => j = k
    /\ \A k \in 1..Len(stack) : \E j \in 1..Len(modules) : modules[j] = stack[k].file
    /\ call # Nothing => Name(call) \notin visiting

(* The import the module at k of the stack is waiting for.                    *)
Underway(k) ==
    (IF k < Len(stack) THEN {Name(stack[k + 1].file)} ELSE {}) \cup
    (IF k = Len(stack) /\ call # Nothing THEN {Name(call)} ELSE {})

ImportsOf(file) == Range(Text(file).imports)

ChainOfImports ==
    \A k \in 1..Len(stack) :
        Range(stack[k].todo) \cup Underway(k) \subseteq ImportsOf(stack[k].file)

PhaseEnds ==
    /\ phase # "load" => stack = <<>> /\ call = Nothing /\ roots = {}
    /\ phase \in {"check", "accepted"} => diagnostics = {}

LoadingInvariant == LoadedOnce /\ VisitingIsStack /\ ChainOfImports /\ PhaseEnds

(***************************************************************************)
(* A program that passes has no import cycle and no hole: there is an order     *)
(* of its modules, the one load_module left them in, in which every import of   *)
(* every module comes before it.                                            *)
(***************************************************************************)
Before(s, name, other) ==
    \E p, q \in 1..Len(s) : p < q /\ s[p] = name /\ s[q] = other

ImportsLeftFirst ==
    phase \in {"check", "accepted"} =>
        \A k \in 1..Len(modules) : \A i \in Imports(k) : Before(left, i, Name(modules[k]))

(* Why: without a complaint, a module that is not being loaded has left behind  *)
(* its imports, and one that is has them left, ahead, or just being loaded.    *)
Among(s, name) == \E p \in 1..Len(s) : s[p] = name

DoneInOrder ==
    \A k \in 1..Len(modules) : Name(modules[k]) \notin visiting =>
        /\ Among(left, Name(modules[k]))
        /\ \A i \in Imports(k) : Before(left, i, Name(modules[k]))

StackOnItsWay ==
    \A k \in 1..Len(stack) : \A i \in ImportsOf(stack[k].file) :
        Among(left, i) \/ i \in Range(stack[k].todo) \cup Underway(k)

OrderSoFar == diagnostics = {} => DoneInOrder /\ StackOnItsWay

(***************************************************************************)
(* In an accepted program no top-level name has two meanings, and every name    *)
(* the collectors look at is the module's own or exported by a module it        *)
(* imports (or nobody's: a builtin).                                        *)
(***************************************************************************)
AcceptedIsVisible ==
    phase = "accepted" =>
        /\ \A j, k \in 1..Len(modules) : j # k => Declares(j) \cap Declares(k) = {}
        /\ \A j, k \in 1..Len(modules) :
              \A d \in Collected(k) \cap Declares(j) :
                  j = k \/ (d \in Text(modules[j]).exports /\ Name(modules[j]) \in Imports(k))

(***************************************************************************)
(* The result against the definition of a good program, for a project in       *)
(* which a name is found in one directory only, one that is searched:       *)
(* the missing and the broken files that the roots reach are reported and no    *)
(* others, a cycle is reported exactly if there is one, and otherwise the       *)
(* program holds the reached files and passes exactly if its names are good.    *)
(***************************************************************************)
Plain ==
    LET existing == {f \in Files : Exists(f)} IN
    /\ \A f, g \in existing : Name(f) = Name(g) => f = g
    /\ \/ \A f, g \in existing : Dir(f) = Dir(g)
       \/ \A f \in existing : Dir(f) \in Range(project.search)

(* A good file leads to the files it imports; and the files a set leads to, the *)
(* least set that holds them and, with a file, those it leads to.             *)
Leads(f, g) ==
    /\ Text(f).state = "good" /\ Name(g) \in Range(Text(f).imports)
    /\ \/ Exists(g)
       \/ Dir(g) = Dir(f) /\ \A d \in Dirs : ~Exists(<<d, Name(g)>>)

Targets(f) == {g \in Files : Leads(f, g)}
Closed(S) == \A f \in S, g \in Files \ S : ~Leads(f, g)
Closure(files) ==
    {f \in Files : \A S \in SUBSET (Files \ {f}) : files \subseteq S => ~Closed(S)}

Reached  == Closure(Roots)
Circular == \E f \in Reached : f \in Closure(Targets(f))

Reports(code) == {r.file : r \in {x \in diagnostics : x.code = code}}

NamesAreGood ==
    LET reached == Reached IN
    /\ \A f, g \in reached : f # g => Text(f).declares \cap Text(g).declares = {}
    /\ \A f, g \in reached : \A d \in Text(g).declares :
          <<"call", d>> \in Text(f).uses =>
              f = g \/ (d \in Text(g).exports /\ g \in Targets(f))

VerdictIsExact ==
    phase \in {"accepted", "rejected"} /\ Plain =>
        LET reached == Reached
            InState(states) == {f \in reached : Text(f).state \in states}
        IN
        /\ Reports("L0397") = InState({"absent", "unreadable"})
        /\ Reports("syntax") = InState({"broken"})
        /\ Reports("L0393") # {} <=> Circular
        /\ InState({"good"}) = Range(modules)
        /\ reached = Range(modules) /\ ~Circular => (phase = "accepted" <=> NamesAreGood)

(***************************************************************************)
(* Why, at every moment of the walk.  Whatever it has come to is reached and   *)
(* what was reported of it is so.                                           *)
(***************************************************************************)
WalkIsReached ==
    /\ roots \subseteq Roots
    /\ \A f \in roots : Exists(f) \/ (modules = <<>> /\ call = Nothing)
    /\ call # Nothing =>
         /\ call \in Reached
         /\ stack # <<>> => Leads(Top.file, call)
         /\ Exists(call) \/ modules = <<>> \/ \A d \in Dirs : ~Exists(<<d, Name(call)>>)
    /\ \A k \in 1..Len(modules) :
         modules[k] \in Reached /\ Text(modules[k]).state = "good"

ReportsAreTrue ==
    \A r \in diagnostics :
        /\ r.code = "L0397" => /\ r.file \in Reached
                               /\ Text(r.file).state \in {"absent", "unreadable"}
        /\ r.code = "syntax" => r.file \in Reached /\ Text(r.file).state = "broken"
        /\ r.code = "L0393" => Circular

(* Each module on the stack is reached from all those below it.               *)
StackClimbs ==
    \A f \in Files : \A j, k \in 1..Len(stack) :
        j < k /\ stack[j].file = f => stack[k].file \in Closure(Targets(f))

(* What a root or a module leads to is loaded, reported or still ahead.        *)
Handled == Range(modules) \cup Reports("L0397") \cup Reports("syntax")

Ahead(f, g) ==
    \E j \in 1..Len(stack) :
        /\ stack[j].file = f
        /\ Name(g) \in Range(stack[j].todo) \/ (j = Len(stack) /\ call = g)

NothingForgotten ==
    /\ \A f \in Roots : f \in Handled \cup roots \/ call = f
    /\ \A f \in Range(modules) : \A g \in Targets(f) : g \in Handled \/ Ahead(f, g)

(* A module is left once; and as long as no cycle was reported, those that are  *)
(* left have left behind the good files they lead to.                       *)
LeftOnce ==
    /\ \A p, q \in 1..Len(left) : left[p] = left[q] => p = q
    /\ \A p \in 1..Len(left) : left[p] \in Loaded \ visiting

GoodTargets(f) == {g \in Targets(f) : Text(g).state = "good"}

CyclesAreSeen ==
    Reports("L0393") = {} =>
        /\ \A f \in Range(modules) : Name(f) \notin visiting =>
              /\ Among(left, Name(f))
              /\ \A g \in GoodTargets(f) : Before(left, Name(g), Name(f))
        /\ \A f \in Files : \A g \in GoodTargets(f), k \in 1..Len(stack) :
              stack[k].file = f =>
                  Among(left, Name(g)) \/ Name(g) \in Range(stack[k].todo) \cup Underway(k)

(* The names decide only if the walk found nothing wrong.                     *)
Structural == {"L0393", "L0397", "syntax"}
NamesPass == \A k \in 1..Len(modules) : Duplicates(k) = {} /\ Invisible(k) = {}

NamesDecide ==
    /\ phase \in {"load", "check"} => \A r \in diagnostics : r.code \in Structural
    /\ phase = "accepted" => NamesPass
    /\ phase = "rejected" /\ NamesPass => \E r \in diagnostics : r.code \in Structural

VerdictInvariant ==
    /\ LeftOnce /\ NamesDecide
    /\ Plain => /\ WalkIsReached /\ ReportsAreTrue /\ StackClimbs
                /\ NothingForgotten /\ CyclesAreSeen

(* The load ends.                                                          *)
Terminates == <>(phase \in {"accepted", "rejected"})

(***************************************************************************)
(* Why it ends, in two halves that speak of states and steps only.  First: it   *)
(* is never stuck.  The guards of its actions are each other's opposites but    *)
(* for one: between two roots there must be one that no other comes before,     *)
(* whichever are left, and though a search directory may be listed twice.     *)
(***************************************************************************)
IsNextRoot(f) == f \in roots /\ \A g \in roots : ~Earlier(g, f)

NeverStuck ==
    \/ phase # "load" \/ call # Nothing \/ stack # <<>> \/ roots = {}
    \/ \E f \in roots : IsNextRoot(f)

(***************************************************************************)
(* Second: every step uses something up.  It ends a phase, or loads a module   *)
(* that was not loaded, or takes a root, or leaves a module, or an import of    *)
(* the module on top, or answers a call; each counts only if those before it    *)
(* did not grow, so that a cycle of imports cannot keep the loader going.     *)
(***************************************************************************)
PhasesLeft(p) == IF p = "load" THEN 2 ELSE IF p = "check" THEN 1 ELSE 0

Remaining ==
    <<PhasesLeft(phase),
      Cardinality(Names \ Loaded),
      Cardinality(roots),
      Len(stack),
      IF stack = <<>> THEN 0 ELSE Len(Top.todo),
      IF call = Nothing THEN 0 ELSE 1>>

(* The first of the quantities that differs is smaller in x than in y.        *)
Less(x, y) == \E k \in 1..6 : /\ x[k] < y[k]
                              /\ \A j \in 1..(k - 1) : x[j] = y[j]

EveryStepUsesUp == [][Less(Remaining', Remaining)]_vars
=============================================================================
