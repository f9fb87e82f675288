----------------------------- MODULE IrInterpreter -----------------------------
(***************************************************************************)
(* The interpreter of the intermediate representation                        *)
(* (src/crates/lullaby_ir/src/ir_interpreter.rs, ir_env.rs).  It walks a        *)
(* function's tree, or, as the bytecode tier (use_vm), runs the code of the       *)
(* functions that compile and walks the others.                             *)
(*                                                                         *)
(* Print stands for every builtin with an effect.  Fuel bounds the loop turns    *)
(* of a run, which in the VM are its backward jumps; it is no part of what a      *)
(* program means.  The value of an L0420 is what was thrown.                 *)
(***************************************************************************)
EXTENDS VmCompiler

(***************************************************************************)
(* A machine has the scopes of the function that is walked, the innermost last,   *)
(* the output so far, the fuel, the value just computed, and why it has stopped,  *)
(* if it has: to leave a loop or a function, or with an error.                *)
(***************************************************************************)
Stopped(m, why) == [m EXCEPT !.stop = why]
Gives(m, v)     == [m EXCEPT !.v = v]
Running(m)      == m.stop = "no"
Spent(m)        == IF m.fuel = 0 THEN Stopped(m, "fuel") ELSE [m EXCEPT !.fuel = @ - 1]

(* Names are looked up in the innermost scope first.                         *)
ScopeOf(m, name) ==
    CHOOSE i \in DOMAIN m.env :
        /\ name \in DOMAIN m.env[i]
        /\ \A j \in DOMAIN m.env : j > i => name \notin DOMAIN m.env[j]

Define(m, name, v) ==
    [m EXCEPT !.env[Len(m.env)] =
        [x \in DOMAIN @ \cup {name} |-> IF x = name THEN v ELSE @[x]]]

Opened(m) == [m EXCEPT !.env = Append(@, <<>>)]
Closed(m) == [m EXCEPT !.env = SubSeq(@, 1, Len(@) - 1)]

(* The next step, from the machine that the step before it has left running.     *)
Then(m, Step(_)) == IF Running(m) THEN Step(m) ELSE m

(* Whatever recurs does so as a task: to evaluate an expression or arguments, to   *)
(* execute a block, to take the turns of a loop, to run instructions.            *)
RECURSIVE Perform(_, _, _)

Eval(P, e, m)          == Perform(P, [task |-> "eval", e |-> e], m)
EvalArgs(P, e, so, m)  == Perform(P, [task |-> "args", e |-> e, values |-> so], m)
ExecBlock(P, block, m) == Perform(P, [task |-> "block", block |-> block], m)
Turns(P, cond, body, m) == Perform(P, [task |-> "turns", cond |-> cond, body |-> body], m)
ForTurns(P, st, current, end, step, m) ==
    Perform(P, [task |-> "for", st |-> st, current |-> current, end |-> end, step |-> step], m)
VmRun(P, ops, m)       == Perform(P, [task |-> "vm", ops |-> ops], m)

(***************************************************************************)
(* Expressions and calls                                                    *)
(***************************************************************************)
(* and and or leave the right operand out when the left one decides.           *)
Decides(op, v) == (op = "and" /\ v = 0) \/ (op = "or" /\ v = 1)

BinaryValue(op, a, b, m) ==
    CASE op \in {"and", "or"}   -> m
      [] op = "div" /\ b = 0    -> Stopped(m, "L0404")
      [] OTHER                  -> Gives(m, Operation(op, a, b))

EvalExpr(P, e, m) ==
    CASE e.k = "int"   -> Gives(m, e.n)
      [] e.k = "var"   -> Gives(m, m.env[ScopeOf(m, e.name)][e.name])
      [] e.k = "call"  -> EvalArgs(P, e, <<>>, m)
      [] e.k = "bin"   ->
            Then(Eval(P, e.left, m), LAMBDA l :
                IF Decides(e.op, l.v) THEN l
                ELSE Then(Eval(P, e.right, l), LAMBDA r : BinaryValue(e.op, l.v, r.v, r)))

(* A call runs in an environment of its own; the value of the last statement    *)
(* is the value of a body that does not return.                              *)
Returned(m, caller) ==
    [m EXCEPT !.env = caller.env, !.pc = caller.pc, !.stack = caller.stack, !.frame = caller.frame,
              !.stop = IF @ = "return" THEN "no" ELSE @]

Walk(P, f, values, m) ==
    LET params == P[f].params
        env    == [x \in {params[i] : i \in DOMAIN params} |->
                      values[CHOOSE i \in DOMAIN params : params[i] = x]]
    IN Returned(ExecBlock(P, P[f].body, [m EXCEPT !.env = <<env>>, !.v = Void]), m)

(* A frame has a slot for every declaration of the function.                   *)
RunVm(P, code, values, m) ==
    LET frame == [i \in 1..(code.next - 1) |-> IF i <= Len(values) THEN values[i] ELSE Void]
    IN Returned(VmRun(P, code.ops, [m EXCEPT !.pc = 1, !.stack = <<>>, !.frame = frame]), m)

Invoke(P, f, values, m) ==
    IF f = "print" THEN [m EXCEPT !.out = Append(@, values[1]), !.v = Void]
    ELSE IF m.useVm /\ Compiles(P[f]) THEN RunVm(P, CompileFunction(P[f]), values, m)
    ELSE Walk(P, f, values, m)

EvalNextArg(P, e, so, m) ==
    IF Len(so) = Len(e.args) THEN Invoke(P, e.f, so, m)
    ELSE Then(Eval(P, e.args[Len(so) + 1], m), LAMBDA a : EvalArgs(P, e, Append(so, a.v), a))

(***************************************************************************)
(* Statements                                                               *)
(***************************************************************************)
InScope(P, block, m) == Closed(ExecBlock(P, block, Gives(Opened(m), Void)))

(* A try catches what is thrown, and no other error.                          *)
Caught(P, st, m) ==
    IF m.stop # "L0420" THEN m
    ELSE Closed(ExecBlock(P, st.handler,
                          Gives(Define(Opened(Stopped(m, "no")), st.name, m.v), Void)))

(* A statement with a value, when it is computed.                             *)
ExecValue(st, m) ==
    CASE st.s = "let"      -> Gives(Define(m, st.name, m.v), Void)
      [] st.s = "assign"   -> Gives([m EXCEPT !.env[ScopeOf(m, st.name)][st.name] = m.v], Void)
      [] st.s = "return"   -> Stopped(m, "return")
      [] st.s = "expr"     -> m
      [] st.s = "throw"    -> Stopped(m, "L0420")

ExecFor(P, st, m) ==
    Then(Eval(P, st.start, m), LAMBDA start :
        Then(Eval(P, st.end, start), LAMBDA end :
            Then(Eval(P, st.step, end), LAMBDA step :
                IF step.v = 0 THEN Stopped(step, "L0411")
                ELSE Closed(ForTurns(P, st, start.v, end.v, step.v, Opened(step))))))

Exec(P, st, m) ==
    CASE Simple(st)        -> Then(Eval(P, st.value, m), LAMBDA value : ExecValue(st, value))
      [] Terminator(st)    -> Stopped(m, st.s)
      [] st.s = "if"       -> Then(Eval(P, st.cond, m), LAMBDA cond :
                                  InScope(P, IF cond.v = 1 THEN st.then ELSE st.else, cond))
      [] st.s = "try"      -> Caught(P, st, InScope(P, st.body, m))
      [] st.s = "while"    -> Turns(P, st.cond, st.body, m)
      [] st.s = "loop"     -> Turns(P, Num(1), st.body, m)
      [] st.s = "for"      -> ExecFor(P, st, m)

(* After a turn of a loop: on to the next one, or out.                         *)
AfterTurn(m, Again(_)) ==
    CASE m.stop \in {"no", "continue"} -> Again(Stopped(m, "no"))
      [] m.stop = "break"              -> Gives(Stopped(m, "no"), Void)
      [] OTHER                         -> m

TakeTurn(P, cond, body, m) ==
    Then(Eval(P, cond, m), LAMBDA c :
        IF c.v = 0 THEN Gives(c, Void)
        ELSE AfterTurn(InScope(P, body, Spent(c)), LAMBDA b : Turns(P, cond, body, b)))

InRange(current, end, step) == IF step > 0 THEN current <= end ELSE current >= end

(* The loop variable is set anew in each turn: an assignment to it is lost.      *)
TakeForTurn(P, st, current, end, step, m) ==
    IF ~InRange(current, end, step) THEN Gives(m, Void)
    ELSE AfterTurn(InScope(P, st.body, Spent(Define(m, st.name, current))),
                   LAMBDA b : ForTurns(P, st, Wrap(current + step), end, step, b))

(***************************************************************************)
(* The VM: the machine with a frame, an operand stack and a program counter.     *)
(***************************************************************************)
TopOf(m)   == m.stack[Len(m.stack)]
Popped(m, n)  == [m EXCEPT !.stack = SubSeq(@, 1, Len(@) - n)]
Pushed(m, v)  == [m EXCEPT !.stack = Append(@, v)]
Advanced(m)   == [m EXCEPT !.pc = @ + 1]
JumpedTo(m, to) == IF to <= m.pc THEN [Spent(m) EXCEPT !.pc = to] ELSE [m EXCEPT !.pc = to]

VmBinary(operator, a, b, m) ==
    IF operator = "div" /\ b = 0 THEN Stopped(m, "L0404")
    ELSE Advanced(Pushed(m, Operation(operator, a, b)))

VmCall(P, op, m) ==
    LET args == SubSeq(m.stack, Len(m.stack) - op.argc + 1, Len(m.stack))
    IN Then(Invoke(P, op.f, args, Popped(m, op.argc)), LAMBDA r : Advanced(Pushed(r, r.v)))

VmExec(P, op, m) ==
    CASE op.op = "push"     -> Advanced(Pushed(m, op.v))
      [] op.op = "load"     -> Advanced(Pushed(m, m.frame[op.slot]))
      [] op.op = "store"    -> Advanced(Popped([m EXCEPT !.frame[op.slot] = TopOf(m)], 1))
      [] op.op = "binary"   -> VmBinary(op.operator, TopOf(Popped(m, 1)), TopOf(m), Popped(m, 2))
      [] op.op = "call"     -> VmCall(P, op, m)
      [] op.op = "jump"     -> JumpedTo(m, op.to)
      [] op.op = "jumpIf"   -> IF TopOf(m) = op.v THEN JumpedTo(Popped(m, 1), op.to)
                               ELSE Advanced(Popped(m, 1))
      [] op.op = "pop"      -> Advanced(Popped(m, 1))
      [] op.op = "stepNonzero" -> IF m.frame[op.step] = 0 THEN Stopped(m, "L0411") ELSE Advanced(m)
      [] op.op = "forCheck" -> Advanced(Pushed(m, Truth(InRange(m.frame[op.var], m.frame[op.end],
                                                                m.frame[op.step]))))
      [] op.op = "forStep"  -> Advanced([m EXCEPT !.frame[op.var] = Wrap(@ + m.frame[op.step])])
      [] op.op = "return"   -> Stopped(Gives(m, TopOf(m)), "return")

(* What a task is, in a machine that runs.                                   *)
Perform(P, t, m) ==
    CASE ~Running(m)        -> m
      [] t.task = "eval"    -> EvalExpr(P, t.e, m)
      [] t.task = "args"    -> EvalNextArg(P, t.e, t.values, m)
      [] t.task = "block"   -> IF t.block = <<>> THEN m
                               ELSE ExecBlock(P, Tail(t.block), Exec(P, Head(t.block), m))
      [] t.task = "turns"   -> TakeTurn(P, t.cond, t.body, m)
      [] t.task = "for"     -> TakeForTurn(P, t.st, t.current, t.end, t.step, m)
      [] t.task = "vm"      -> VmRun(P, t.ops, VmExec(P, t.ops[m.pc], m))

(***************************************************************************)
(* What a caller of f sees: the output, and the value, what was thrown, or the    *)
(* error.                                                                  *)
(***************************************************************************)
Machine(useVm, fuel) ==
    [useVm |-> useVm, env |-> <<>>, pc |-> 0, stack |-> <<>>, frame |-> <<>>,
     out |-> <<>>, fuel |-> fuel, stop |-> "no", v |-> Void]

Seen(m) == [out |-> m.out, stop |-> m.stop,
            v |-> IF m.stop \in {"no", "L0420"} THEN m.v ELSE Void]

Outcome(P, f, values, fuel)   == Seen(Invoke(P, f, values, Machine(FALSE, fuel)))
VmOutcome(P, f, values, fuel) == Seen(Invoke(P, f, values, Machine(TRUE, fuel)))
=============================================================================
