---------------------------- MODULE TiersProperties ----------------------------
(***************************************************************************)
(* What the optimizer and the bytecode VM must keep: the meaning that the       *)
(* tree-walking interpreter gives to a program.  Where the code does not keep     *)
(* it, the shape of program concerned is named and left out, and a run shows     *)
(* what happens there.                                                      *)
(***************************************************************************)
EXTENDS Optimizer, IrInterpreter

CONSTANTS
    Entry,        \* the function that is run
    Arguments,    \* what it is run with
    Fuel          \* the loop turns that a run may take

(* The runs of a program that end within the fuel are the runs of the other.     *)
Ends(P, a) == Outcome(P, Entry, <<a>>, Fuel).stop # "fuel"

SameMeaning(P, Q) ==
    \A a \in Arguments :
        Ends(P, a) => Outcome(Q, Entry, <<a>>, Fuel) = Outcome(P, Entry, <<a>>, Fuel)

AllStatements(P) == UNION {Statements(P[f].body) : f \in DOMAIN P}

(* let x = x + 1 declares a second x, from the first.                        *)
SelfLet(P) == \E st \in AllStatements(P) : st.s = "let" /\ st.name \in Reads(st.value)

(* A for loop whose variable has the name of one that is declared around it.     *)
RECURSIVE Shadows(_, _)
Shadows(block, names) ==
    /\ block # <<>>
    /\ LET st    == Head(block)
           inner == IF st.s = "for" THEN names \cup {st.name} ELSE names
       IN \/ st.s = "for" /\ st.name \in names
          \/ \E b \in Blocks(st) : Shadows(b, inner)
          \/ Shadows(Tail(block), IF st.s = "let" THEN names \cup {st.name} ELSE names)

LoopVariableShadows(P) ==
    \E f \in DOMAIN P :
        Shadows(P[f].body, {P[f].params[i] : i \in DOMAIN P[f].params})

Conditions(P) == {st.cond : st \in {x \in AllStatements(P) : x.s = "while"}}

(* A for loop that assigns its variable, or whose end or step reads a variable   *)
(* of the same name.                                                        *)
CounterIsShared(P) ==
    \E st \in AllStatements(P) :
        /\ st.s = "for"
        /\ st.name \in Reads(st.end) \cup Reads(st.step) \cup NamesOf(st.body, {"assign"})

(* A program stays one that the semantic checker accepts: what is read or        *)
(* assigned is in scope, also what a pass has moved or renamed.                 *)
TypeOK ==
    /\ WellScoped(program)
    /\ passes \in UNION {[1..n -> Passes] : n \in 0..6}

(***************************************************************************)
(* Every pass keeps the output, the result and the error of every run, with     *)
(* the exceptions that the code has: a let that reads the name it declares (CSE), *)
(* a loop variable that hides another variable (LICM), and the condition of a     *)
(* while loop (copy propagation).                                           *)
(***************************************************************************)
Kept ==
    \/ CommonSubexpressions /\ SelfLet(program)
    \/ LoopInvariantMotion /\ LoopVariableShadows(program)
    \/ CopyPropagation /\ Conditions(program) # Conditions(program')
    \/ SameMeaning(program, program')

PassesKeepMeaning == [][Kept]_vars

(* The VM runs a program as the interpreter does, before the optimizer, after it   *)
(* and between any two passes, unless a for loop shares its counter.            *)
TiersAgree ==
    ~CounterIsShared(program) =>
        \A a \in Arguments :
            Ends(program, a) =>
                VmOutcome(program, Entry, <<a>>, Fuel) = Outcome(program, Entry, <<a>>, Fuel)

(* What the tests say (ir_lib_tests.rs, line 1032, and implementation_plan.md,    *)
(* line 75: "including optimized backend variants"): an optimized program        *)
(* matches the program.                                                     *)
OptimizingKeepsMeaning == [][SameMeaning(program, program')]_vars
=============================================================================
