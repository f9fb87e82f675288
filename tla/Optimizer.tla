------------------------------- MODULE Optimizer -------------------------------
(***************************************************************************)
(* The optimizer (src/crates/lullaby_ir/src/lib.rs, optimize, and the passes   *)
(* of ir_optimizer_*.rs): a program goes through a list of passes, each of      *)
(* which rewrites every function.                                           *)
(*                                                                         *)
(* An operator named Mutant... is a deliberate mistake in the operator that   *)
(* follows it; no action uses it.                                           *)
(***************************************************************************)
EXTENDS Ir, TLC

CONSTANTS
    Sources,     \* the programs that may be optimized
    Pipelines    \* the lists of passes they may go through

VARIABLES program, passes

vars == <<program, passes>>

Passes == {"inline", "fold", "reuse", "hoist", "copies", "dead"}

Init == program \in Sources /\ passes \in Pipelines

OnBodies(Rewritten(_)) ==
    [f \in DOMAIN program |-> [program[f] EXCEPT !.body = Rewritten(@)]]

Literal(e) == e.k = "int"

(***************************************************************************)
(* Inlining: calls of functions whose body is one pure expression, with        *)
(* arguments that cost nothing to evaluate twice.                           *)
(***************************************************************************)
Inlinable(f) ==
    /\ f \in DOMAIN program
    /\ Len(program[f].body) = 1
    /\ program[f].body[1].s \in {"return", "expr"}
    /\ ~HasCall(program[f].body[1].value)

Place(name, params) == CHOOSE i \in DOMAIN params : params[i] = name

(* All parameters at once, so that an argument may have a parameter's name.    *)
RECURSIVE Substitute(_, _, _)
Substitute(e, params, args) ==
    IF e.k = "var" THEN args[Place(e.name, params)]
    ELSE RewriteExpr(e, LAMBDA part : Substitute(part, params, args))

MutantSimpleArg(e) == TRUE

SimpleArg(e) == Literal(e) \/ e.k = "var"

RECURSIVE InlineExpr(_)
InlineExpr(e) ==
    LET inner == RewriteExpr(e, InlineExpr)
    IN IF inner.k = "call" /\ Inlinable(inner.f) /\ \A i \in DOMAIN inner.args : SimpleArg(inner.args[i])
       THEN Substitute(program[inner.f].body[1].value, program[inner.f].params, inner.args)
       ELSE inner

RECURSIVE InlineBlock(_)
InlineBlock(block) ==
    [i \in DOMAIN block |-> RewriteStmt(block[i], InlineExpr, InlineBlock)]

(***************************************************************************)
(* Constant folding: an operator on two literals, but no division by zero.      *)
(***************************************************************************)
Foldable(op, l, r) == ~(op = "div" /\ r.n = 0)

Folded(op, a, b) ==
    CASE op = "and" -> IF a = 1 THEN b ELSE 0
      [] op = "or"  -> IF a = 1 THEN 1 ELSE b
      [] OTHER      -> Operation(op, a, b)

RECURSIVE FoldExpr(_)
FoldExpr(e) ==
    LET inner == RewriteExpr(e, FoldExpr)
    IN IF /\ inner.k = "bin" /\ Literal(inner.left) /\ Literal(inner.right)
          /\ Foldable(inner.op, inner.left, inner.right)
       THEN Num(Folded(inner.op, inner.left.n, inner.right.n))
       ELSE inner

RECURSIVE FoldBlock(_)
FoldBlock(block) == [i \in DOMAIN block |-> RewriteStmt(block[i], FoldExpr, FoldBlock)]

(***************************************************************************)
(* Common subexpressions: the pure expressions that variables of the block      *)
(* hold are available, until the variable or one that is read changes, or a      *)
(* call happens; nothing is available in an inner block or after one.          *)
(***************************************************************************)
Eligible(e) == e.k = "bin" /\ ~HasCall(e)

StillValid(available, name) ==
    {a \in available : a.variable # name /\ name \notin Reads(a.expr)}

(* What is left when the value of the statement has been computed.            *)
Available(st, available) ==
    IF Simple(st) /\ HasCall(st.value) THEN {} ELSE available

Reused(st, available) ==
    LET holders == {a \in available : a.expr = st.value}
    IN IF Eligible(st.value) /\ holders # {}
       THEN [st EXCEPT !.value = Var((CHOOSE a \in holders : TRUE).variable)]
       ELSE st

AvailableAfter(st, available) ==
    LET valid == StillValid(Available(st, available), st.name)
        new   == [variable |-> st.name, expr |-> st.value]
    IN CASE Blocks(st) # {} \/ st.s = "throw" -> {}
         [] st.s = "let"      -> IF Eligible(st.value) /\ \A a \in valid : a.expr # st.value
                                 THEN valid \cup {new} ELSE valid
         [] st.s = "assign"   -> valid
         [] OTHER             -> Available(st, available)

RECURSIVE ReuseBlock(_, _)
ReuseBlock(block, available) ==
    IF block = <<>> THEN <<>>
    ELSE LET st == Head(block)
             first == IF st.s = "let"
                      THEN Reused(st, StillValid(Available(st, available), st.name))
                      ELSE RewriteStmt(st, LAMBDA e : e, LAMBDA b : ReuseBlock(b, {}))
         IN <<first>> \o ReuseBlock(Tail(block), AvailableAfter(st, available))

(***************************************************************************)
(* Loop-invariant code: a let directly in a loop, whose operator reads only      *)
(* names that were declared before the loop and that the loop neither declares   *)
(* nor assigns, is computed once, into a temporary in front of the loop.         *)
(***************************************************************************)
NamesOf(block, kinds) == {st.name : st \in {x \in Statements(block) : x.s \in kinds}}

Declared(block) == NamesOf(block, {"let", "for", "try"})
Mutated(block)  == NamesOf(block, {"assign", "for"})
LetNames(block) == {st.name : st \in {x \in {block[i] : i \in DOMAIN block} : x.s = "let"}}

TempName(n) == "__lullaby_loop_invariant_" \o ToString(n)

(* The next number whose name the function does not use.                      *)
RECURSIVE FreshTemp(_, _)
FreshTemp(next, reserved) ==
    IF TempName(next) \in reserved THEN FreshTemp(next + 1, reserved) ELSE next

RECURSIVE HasDivision(_)
HasDivision(e) ==
    e.k = "bin" /\ (e.op = "div" \/ HasDivision(e.left) \/ HasDivision(e.right))

MutantAnywhere(e, before, body) ==
    Eligible(e) /\ ~HasDivision(e) /\ Reads(e) \cap (Declared(body) \cup Mutated(body)) = {}

Invariant(e, before, body) ==
    /\ Eligible(e) /\ ~HasDivision(e)
    /\ Reads(e) \subseteq before \ (Declared(body) \cup Mutated(body))

(* From the i-th statement of a loop body on: what goes in front of the loop,    *)
(* what stays, and the next number.                                          *)
RECURSIVE HoistFrom(_, _, _, _, _)
HoistFrom(i, body, before, next, reserved) ==
    IF i > Len(body) THEN [front |-> <<>>, body |-> <<>>, next |-> next]
    ELSE LET st == body[i]
             n  == FreshTemp(next, reserved)
             moves == st.s = "let" /\ Invariant(st.value, before, body)
             rest  == HoistFrom(i + 1, body, before, IF moves THEN n + 1 ELSE next, reserved)
         IN IF moves
            THEN [front |-> <<Let(TempName(n), st.value)>> \o rest.front,
                  body  |-> <<Let(st.name, Var(TempName(n)))>> \o rest.body,
                  next  |-> rest.next]
            ELSE [rest EXCEPT !.body = <<st>> \o @]

RECURSIVE MoveStmt(_, _, _, _), MoveBlock(_, _, _, _)
MoveStmt(st, before, next, reserved) ==
    IF st.s = "if"
    THEN LET then == MoveBlock(st.then, before, next, reserved)
             else == MoveBlock(st.else, before, then.next, reserved)
         IN [code |-> <<[st EXCEPT !.then = then.code, !.else = else.code]>>, next |-> else.next]
    ELSE IF IsLoop(st)
    THEN LET inside == IF st.s = "for" THEN before \cup {st.name} ELSE before
             body   == MoveBlock(st.body, inside, next, reserved)
             split  == HoistFrom(1, body.code, before, body.next, reserved)
         IN [code |-> split.front \o <<[st EXCEPT !.body = split.body]>>, next |-> split.next]
    ELSE [code |-> <<st>>, next |-> next]

MoveBlock(block, before, next, reserved) ==
    IF block = <<>> THEN [code |-> <<>>, next |-> next]
    ELSE LET one  == MoveStmt(Head(block), before, next, reserved)
             rest == MoveBlock(Tail(block), before \cup LetNames(one.code), one.next, reserved)
         IN [code |-> one.code \o rest.code, next |-> rest.next]

MoveFunction(fn) ==
    LET params == {fn.params[i] : i \in DOMAIN fn.params}
    IN [fn EXCEPT !.body = MoveBlock(@, params, 0, params \cup Declared(@)).code]

(***************************************************************************)
(* Copies: a variable that a let has made a copy of another is replaced by the   *)
(* other, until one of them changes or a call happens; nothing is known in an     *)
(* inner block or after one, but a loop's condition is rewritten.             *)
(***************************************************************************)
NoAliases == [x \in {} |-> x]

RECURSIVE Resolve(_, _)
Resolve(name, aliases) ==
    IF name \in DOMAIN aliases THEN Resolve(aliases[name], aliases) ELSE name

Without(aliases, name) ==
    [x \in {y \in DOMAIN aliases : y # name /\ Resolve(y, aliases) # name} |-> aliases[x]]

RECURSIVE CopyExpr(_, _)
CopyExpr(e, aliases) ==
    IF e.k = "var" THEN Var(Resolve(e.name, aliases))
    ELSE RewriteExpr(e, LAMBDA part : CopyExpr(part, aliases))

AliasesAfter(st, aliases) ==
    LET kept   == IF Simple(st) /\ HasCall(st.value) THEN NoAliases ELSE aliases
        valid  == Without(kept, st.name)
        source == Resolve(st.value.name, valid)
    IN CASE Blocks(st) # {} \/ st.s = "throw" -> NoAliases
         [] st.s = "let"    -> IF st.value.k = "var" /\ source # st.name
                               THEN (st.name :> source) @@ valid ELSE valid
         [] st.s = "assign" -> valid
         [] OTHER           -> kept

RECURSIVE CopyBlock(_, _)
CopyBlock(block, aliases) ==
    IF block = <<>> THEN <<>>
    ELSE LET st == RewriteStmt(Head(block), LAMBDA e : CopyExpr(e, aliases),
                                            LAMBDA b : CopyBlock(b, NoAliases))
         IN <<st>> \o CopyBlock(Tail(block), AliasesAfter(st, aliases))

(***************************************************************************)
(* Dead code: what follows a return, a break or a continue in its block.         *)
(***************************************************************************)
EndsBlock(st) == Terminator(st)

RECURSIVE LiveBlock(_)
LiveBlock(block) ==
    IF block = <<>> THEN <<>>
    ELSE LET st == RewriteStmt(Head(block), LAMBDA e : e, LiveBlock)
         IN <<st>> \o IF EndsBlock(st) THEN <<>> ELSE LiveBlock(Tail(block))

(***************************************************************************)
(* optimize                                                                *)
(***************************************************************************)
Pass(pass) == passes # <<>> /\ Head(passes) = pass /\ passes' = Tail(passes)

Inlining             == Pass("inline") /\ program' = OnBodies(InlineBlock)
ConstantFolding      == Pass("fold") /\ program' = OnBodies(FoldBlock)
CommonSubexpressions == Pass("reuse") /\ program' = OnBodies(LAMBDA b : ReuseBlock(b, {}))
LoopInvariantMotion  ==
    Pass("hoist") /\ program' = [f \in DOMAIN program |-> MoveFunction(program[f])]
CopyPropagation      == Pass("copies") /\ program' = OnBodies(LAMBDA b : CopyBlock(b, NoAliases))
DeadCode             == Pass("dead") /\ program' = OnBodies(LiveBlock)

(* The program is optimized.                                                *)
Ended == passes = <<>> /\ UNCHANGED vars

Next ==
    \/ Inlining \/ ConstantFolding \/ CommonSubexpressions
    \/ LoopInvariantMotion \/ CopyPropagation \/ DeadCode \/ Ended

Spec == Init /\ [][Next]_vars
=============================================================================
