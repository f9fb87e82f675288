---------------------------------- MODULE Ir ----------------------------------
(***************************************************************************)
(* The intermediate representation (src/crates/lullaby_ir/src/lib.rs): programs  *)
(* as trees, and what the passes over them ask of a tree.                     *)
(*                                                                         *)
(* Kept are integers, variables, binary operators and calls; let, assignment,  *)
(* return, break, continue, if, while, for, loop, throw and try.  A truth value  *)
(* is 0 or 1, a compound assignment is spelled out, and an if has one condition  *)
(* (an elif is an if in the else).  Integers wrap at a small width.           *)
(***************************************************************************)
EXTENDS Integers, Sequences

CONSTANT Half    \* the integers are -Half .. Half - 1

ASSUME HalfAssumption == Half \in Nat \ {0}

Void == Half     \* no integer

Wrap(n) == ((n + Half) % (2 * Half)) - Half

Truth(p) == IF p THEN 1 ELSE 0

(* Division truncates towards zero.                                         *)
Quotient(a, b) ==
    LET abs(n) == IF n < 0 THEN -n ELSE n
    IN IF (a < 0) = (b < 0) THEN abs(a) \div abs(b) ELSE -(abs(a) \div abs(b))

Operation(op, a, b) ==
    CASE op = "add" -> Wrap(a + b)
      [] op = "sub" -> Wrap(a - b)
      [] op = "mul" -> Wrap(a * b)
      [] op = "div" -> Wrap(Quotient(a, b))
      [] op = "less" -> Truth(a < b)
      [] op = "equal" -> Truth(a = b)

(***************************************************************************)
(* Expressions, statements, and their parts                                  *)
(***************************************************************************)
Num(n)         == [k |-> "int", n |-> n]
Var(name)      == [k |-> "var", name |-> name]
Bin(op, l, r)  == [k |-> "bin", op |-> op, left |-> l, right |-> r]
Call(f, args)  == [k |-> "call", f |-> f, args |-> args]

Let(name, value)    == [s |-> "let", name |-> name, value |-> value]
Assign(name, value) == [s |-> "assign", name |-> name, value |-> value]
Return(value)       == [s |-> "return", value |-> value]
Do(value)           == [s |-> "expr", value |-> value]
Break               == [s |-> "break"]
Continue            == [s |-> "continue"]
If(cond, then, else)         == [s |-> "if", cond |-> cond, then |-> then, else |-> else]
While(cond, body)            == [s |-> "while", cond |-> cond, body |-> body]
For(name, start, end, step, body) ==
    [s |-> "for", name |-> name, start |-> start, end |-> end, step |-> step, body |-> body]
Loop(body)                   == [s |-> "loop", body |-> body]
Throw(value)                 == [s |-> "throw", value |-> value]
Try(body, name, handler)     == [s |-> "try", body |-> body, name |-> name, handler |-> handler]

(* A function; a program is a function from names to functions.               *)
Fn(params, body) == [params |-> params, body |-> body]

Simple(st) == st.s \in {"let", "assign", "return", "expr", "throw"}
IsLoop(st) == st.s \in {"while", "for", "loop"}
Terminator(st) == st.s \in {"return", "break", "continue"}

(* The statement with its expressions and its blocks rewritten.               *)
RewriteStmt(st, E(_), B(_)) ==
    CASE Simple(st)      -> [st EXCEPT !.value = E(@)]
      [] st.s = "if"     -> [st EXCEPT !.cond = E(@), !.then = B(@), !.else = B(@)]
      [] st.s = "while"  -> [st EXCEPT !.cond = E(@), !.body = B(@)]
      [] st.s = "for"    -> [st EXCEPT !.start = E(@), !.end = E(@), !.step = E(@), !.body = B(@)]
      [] st.s = "loop"   -> [st EXCEPT !.body = B(@)]
      [] st.s = "try"    -> [st EXCEPT !.body = B(@), !.handler = B(@)]
      [] OTHER           -> st

(* The expression with its parts rewritten.                                 *)
RewriteExpr(e, E(_)) ==
    CASE e.k = "bin"  -> [e EXCEPT !.left = E(@), !.right = E(@)]
      [] e.k = "call" -> [e EXCEPT !.args = [i \in DOMAIN @ |-> E(@[i])]]
      [] OTHER        -> e

Expressions(st) ==
    CASE Simple(st)     -> {st.value}
      [] st.s \in {"if", "while"} -> {st.cond}
      [] st.s = "for"   -> {st.start, st.end, st.step}
      [] OTHER          -> {}

Blocks(st) ==
    CASE st.s = "if" -> {st.then, st.else}
      [] st.s = "try" -> {st.body, st.handler}
      [] IsLoop(st) -> {st.body}
      [] OTHER -> {}

(* The statements of a block at every depth.                                *)
RECURSIVE Statements(_)
Statements(block) ==
    LET here == {block[i] : i \in DOMAIN block}
    IN here \cup UNION {UNION {Statements(b) : b \in Blocks(st)} : st \in here}

RECURSIVE Reads(_)
Reads(e) ==
    CASE e.k = "var"  -> {e.name}
      [] e.k = "bin"  -> Reads(e.left) \cup Reads(e.right)
      [] e.k = "call" -> UNION {Reads(e.args[i]) : i \in DOMAIN e.args}
      [] OTHER        -> {}

RECURSIVE HasCall(_)
HasCall(e) == e.k = "call" \/ (e.k = "bin" /\ (HasCall(e.left) \/ HasCall(e.right)))

(* What the semantic checker asks of names: a block reads and assigns only      *)
(* what is declared before, in it or around it, and leaves its own names behind. *)
RECURSIVE Scoped(_, _)
Scoped(block, names) ==
    block = <<>> \/
    LET st == Head(block)
        inner == IF st.s = "for" THEN names \cup {st.name} ELSE names
    IN /\ \A e \in Expressions(st) : Reads(e) \subseteq names
       /\ st.s = "assign" => st.name \in names
       /\ IF st.s = "try"
          THEN Scoped(st.body, names) /\ Scoped(st.handler, names \cup {st.name})
          ELSE \A b \in Blocks(st) : Scoped(b, inner)
       /\ Scoped(Tail(block), IF st.s = "let" THEN names \cup {st.name} ELSE names)

WellScoped(program) ==
    \A f \in DOMAIN program :
        LET params == program[f].params
        IN Scoped(program[f].body, {params[i] : i \in DOMAIN params})
=============================================================================
