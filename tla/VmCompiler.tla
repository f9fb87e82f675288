------------------------------ MODULE VmCompiler ------------------------------
(***************************************************************************)
(* The compiler of the flat bytecode VM (src/crates/lullaby_ir/src/          *)
(* bytecode_vm.rs, VmCompiler): a function becomes a list of instructions with   *)
(* jumps and numbered slots, for an operand stack and a flat frame.          *)
(*                                                                         *)
(* Slots and instructions are numbered from 1.                              *)
(*                                                                         *)
(* An operator named Mutant... is a deliberate mistake in the operator that   *)
(* follows it; no definition uses it.                                       *)
(***************************************************************************)
EXTENDS Ir, TLC

Push(v)           == [op |-> "push", v |-> v]
Load(slot)        == [op |-> "load", slot |-> slot]
Store(slot)       == [op |-> "store", slot |-> slot]
Binary(operator)  == [op |-> "binary", operator |-> operator]
CallNamed(f, n)   == [op |-> "call", f |-> f, argc |-> n]
Jump(to)          == [op |-> "jump", to |-> to]
JumpIf(v, to)     == [op |-> "jumpIf", v |-> v, to |-> to]
ForCheck(v, end, step) == [op |-> "forCheck", var |-> v, end |-> end, step |-> step]
ForStep(v, step)  == [op |-> "forStep", var |-> v, step |-> step]
StepNonzero(step) == [op |-> "stepNonzero", step |-> step]
Plain(op)         == [op |-> op]      \* pop, return; break and continue until patched

(***************************************************************************)
(* The compiler: instructions so far, open scopes with the innermost last, and  *)
(* the next slot.  Every declaration has a slot of its own.                   *)
(***************************************************************************)
Emit(c, op) == [c EXCEPT !.ops = Append(@, op)]
Here(c)     == Len(c.ops) + 1

(* The jump at a site was emitted before its target was known.                *)
Patched(c, site, target) == [c EXCEPT !.ops[site].to = target]

Declare(c, name) ==
    [c EXCEPT !.scopes[Len(c.scopes)] = (name :> c.next) @@ @, !.next = @ + 1]

SlotOf(c, name) ==
    c.scopes[CHOOSE i \in DOMAIN c.scopes :
                /\ name \in DOMAIN c.scopes[i]
                /\ \A j \in DOMAIN c.scopes : j > i => name \notin DOMAIN c.scopes[j]][name]

EnterScope(c) == [c EXCEPT !.scopes = Append(@, <<>>)]
LeaveScope(c) == [c EXCEPT !.scopes = SubSeq(@, 1, Len(@) - 1)]

(* What comes next, from the compiler as the code before has left it.            *)
With(c, Next(_)) == Next(c)

RECURSIVE CompileExpr(_, _), CompileArgs(_, _)

(* and and or leave the right operand out when the left one decides.           *)
CompileDeciding(e, decided, c) ==
    With(CompileExpr(e.left, c), LAMBDA left :
        With(CompileExpr(e.right, Emit(left, JumpIf(decided, 0))), LAMBDA right :
            With(Patched(Emit(right, Jump(0)), Here(left), Here(right) + 1), LAMBDA short :
                Patched(Emit(short, Push(decided)), Here(right), Here(short) + 1))))

CompileExpr(e, c) ==
    CASE e.k = "int"  -> Emit(c, Push(e.n))
      [] e.k = "var"  -> Emit(c, Load(SlotOf(c, e.name)))
      [] e.k = "call" -> Emit(CompileArgs(e.args, c), CallNamed(e.f, Len(e.args)))
      [] e.k = "bin"  ->
            IF e.op \in {"and", "or"} THEN CompileDeciding(e, Truth(e.op = "or"), c)
            ELSE Emit(CompileExpr(e.right, CompileExpr(e.left, c)), Binary(e.op))

CompileArgs(args, c) ==
    IF args = <<>> THEN c ELSE CompileArgs(Tail(args), CompileExpr(Head(args), c))

(* The exits of a loop that starts at top, when it is compiled.               *)
MutantLoopPatched(c, top, again, end) ==
    [c EXCEPT !.ops = [i \in DOMAIN @ |->
        CASE i >= top /\ @[i].op = "break" -> Jump(end)
          [] i >= top /\ @[i].op = "continue" -> Jump(top)
          [] OTHER -> @[i]]]

LoopPatched(c, top, again, end) ==
    [c EXCEPT !.ops = [i \in DOMAIN @ |->
        CASE i >= top /\ @[i].op = "break" -> Jump(end)
          [] i >= top /\ @[i].op = "continue" -> Jump(again)
          [] OTHER -> @[i]]]

(* In tail position a statement leaves the value of the function on the stack.  *)
Yield(c, tail) == IF tail THEN Emit(c, Push(Void)) ELSE c

RECURSIVE CompileStmts(_, _, _)

CompileScope(block, c, tail) == LeaveScope(CompileStmts(block, EnterScope(c), tail))

(* The value on the stack goes to a new slot, which the name stands for from here. *)
StoreNew(name, c) == Emit(Declare(c, name), Store(c.next))

(* The same, to a slot without a name.                                       *)
StoreHidden(c) == Emit([c EXCEPT !.next = @ + 1], Store(c.next))

CompileIf(st, c, tail) ==
    With(CompileExpr(st.cond, c), LAMBDA cond :
        With(CompileScope(st.then, Emit(cond, JumpIf(0, 0)), tail), LAMBDA then :
            With(CompileScope(st.else,
                              Patched(Emit(then, Jump(0)), Here(cond), Here(then) + 1), tail),
                 LAMBDA else : Patched(else, Here(then), Here(else)))))

CompileWhile(st, c, tail) ==
    With(CompileExpr(st.cond, c), LAMBDA cond :
        With(Emit(CompileScope(st.body, Emit(cond, JumpIf(0, 0)), FALSE), Jump(Here(c))),
             LAMBDA loop :
                Yield(LoopPatched(Patched(loop, Here(cond), Here(loop)), Here(c), Here(c), Here(loop)),
                      tail)))

CompileLoop(st, c, tail) ==
    With(Emit(CompileScope(st.body, c, FALSE), Jump(Here(c))), LAMBDA loop :
        Yield(LoopPatched(loop, Here(c), Here(c), Here(loop)), tail))

(* From the check of the counter on.                                         *)
CompileForTurns(st, var, end, step, c, tail) ==
    With(Emit(c, ForCheck(var, end, step)), LAMBDA check :
        With(CompileScope(st.body, Emit(check, JumpIf(0, 0)), FALSE), LAMBDA body :
            With(Emit(Emit(body, ForStep(var, step)), Jump(Here(c))), LAMBDA loop :
                Yield(LeaveScope(LoopPatched(Patched(loop, Here(check), Here(loop)),
                                             Here(c), Here(body), Here(loop))), tail))))

(* The counter is the slot of the loop variable, which is declared before the    *)
(* end and the step are compiled.                                           *)
CompileFor(st, c, tail) ==
    With(CompileExpr(st.start, EnterScope(c)), LAMBDA start :
        With(CompileExpr(st.end, StoreNew(st.name, start)), LAMBDA end :
            With(CompileExpr(st.step, StoreHidden(end)), LAMBDA step :
                CompileForTurns(st, start.next, end.next, step.next,
                                Emit(StoreHidden(step), StepNonzero(step.next)), tail))))

CompileStmt(st, c, tail) ==
    CASE st.s = "let"    -> Yield(StoreNew(st.name, CompileExpr(st.value, c)), tail)
      [] st.s = "assign" -> With(CompileExpr(st.value, c), LAMBDA value :
                                Yield(Emit(value, Store(SlotOf(value, st.name))), tail))
      [] st.s = "return" -> Emit(CompileExpr(st.value, c), Plain("return"))
      [] st.s = "expr"   -> IF tail THEN CompileExpr(st.value, c)
                            ELSE Emit(CompileExpr(st.value, c), Plain("pop"))
      [] st.s = "if"     -> CompileIf(st, c, tail)
      [] st.s = "while"  -> CompileWhile(st, c, tail)
      [] st.s = "loop"   -> CompileLoop(st, c, tail)
      [] st.s = "for"    -> CompileFor(st, c, tail)
      [] OTHER           -> Emit(c, Plain(st.s))

CompileStmts(block, c, tail) ==
    IF block = <<>> THEN Yield(c, tail)
    ELSE IF Len(block) = 1 THEN CompileStmt(block[1], c, tail)
    ELSE CompileStmts(Tail(block), CompileStmt(Head(block), c, FALSE), tail)

RECURSIVE DeclareAll(_, _)
DeclareAll(params, c) ==
    IF params = <<>> THEN c ELSE DeclareAll(Tail(params), Declare(c, Head(params)))

CompileFunction(fn) ==
    LET entry == [ops |-> <<>>, scopes |-> <<<<>>>>, next |-> 1]
    IN Emit(CompileStmts(fn.body, DeclareAll(fn.params, entry), TRUE), Plain("return"))

(* What the compiler refuses is walked by the interpreter.                    *)
Compiles(fn) == \A st \in Statements(fn.body) : st.s \notin {"throw", "try"}
=============================================================================
