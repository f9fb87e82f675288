-------------------------------- MODULE MCTiers --------------------------------
EXTENDS TiersProperties

a == Var("a")
x == Var("x")
y == Var("y")
z == Var("z")
i == Var("i")
Plus1(e) == Bin("add", e, Num(1))
Put(e) == Do(Call("print", <<e>>))

(* minus and twice may be inlined; shows has an effect; fails may throw.         *)
Leaves ==
    [minus |-> Fn(<<"x", "y">>, <<Return(Bin("sub", Var("x"), Var("y")))>>),
     twice |-> Fn(<<"x">>, <<Do(Bin("add", x, x))>>),
     shows |-> Fn(<<"x">>, <<Put(x), Return(Plus1(x))>>),
     fails |-> Fn(<<"x">>, <<If(Bin("equal", x, Num(1)), <<Throw(x)>>, <<>>), Return(Plus1(x))>>)]

ProgramOf(body) == Leaves @@ [work |-> Fn(<<"a">>, body)]

Ending == <<Put(x), Return(y)>>

(* Straight code: two statements between two declarations and a return.         *)
Values ==
    {x, y, Plus1(x), Bin("add", a, y), Call("minus", <<y, x>>), Call("twice", <<x>>),
     Call("twice", <<Call("shows", <<x>>)>>), Bin("div", a, x), Bin("div", Num(1), Num(0)),
     Bin("or", Bin("equal", Num(1), Num(1)), Bin("less", Bin("div", a, Num(0)), a))}

Changes == {y, Plus1(x), Call("twice", <<Call("shows", <<x>>)>>), Bin("div", a, x)}

Steps == {Let("x", e) : e \in Values} \cup {Let("y", e) : e \in Changes}
         \cup {Assign("x", e) : e \in Changes} \cup {Return(Num(2)), Put(y)}

Straight == {<<Let("x", a), Let("y", e), s, t>> \o Ending :
                e \in {x, Plus1(x)}, s \in Steps, t \in Steps}

(* An expression is computed again, after something has happened, under a name    *)
(* that hides nothing.                                                      *)
Again == {<<Let("x", a), Let("y", Plus1(x)), s, Let("z", Plus1(x)), Put(y), Return(z)>> : s \in Steps}

(* Loops: two statements in the body, and what the loop may read.             *)
Turn == {Let("z", Plus1(y)), Let("z", Bin("add", a, x)), Let("y", Plus1(y)), Let("y", x),
         Assign("x", Plus1(x)), Assign("y", Plus1(x)), Assign("x", Bin("add", x, z)), Put(y),
         If(Bin("equal", x, Num(1)), <<Break>>, <<Assign("y", x)>>),
         If(Bin("less", y, Num(1)), <<Assign("y", Num(1)), Continue>>, <<>>)}

ForTurn == Turn \cup {Let("z", Plus1(i)), Assign("i", Plus1(i)), Put(i)}

Inside(body) == {While(Bin("less", x, Num(2)), body), While(Bin("less", y, Num(2)), body),
                 Loop(body), For("i", x, Num(1), Num(1), body), For("i", Num(0), y, x, body)}

Looping ==
    {<<Let("x", a), Let("y", e), loop>> \o Ending :
        e \in {x, Num(0)}, loop \in UNION {Inside(<<s, t>>) : s \in ForTurn, t \in ForTurn}}

(* A loop in a loop, the loop variable perhaps the name of an outer one.         *)
Nested ==
    {<<Let("x", Num(0)), Let("y", a), Let(n, Num(1)),
       For("i", Num(0), end, Num(1), <<s, inner, t>>)>> \o Ending :
        n \in {"z", "i"}, end \in {Num(1), i}, s \in {Let("w", Plus1(y)), Let("w", Plus1(i))},
        t \in {Assign("x", Bin("add", x, Var("w"))), Assign("x", Plus1(x)), Put(i)},
        inner \in {While(Bin("less", y, Num(2)), <<Let("v", Plus1(a)), Assign("y", Plus1(y))>>),
                   For("j", x, Num(1), Num(1), <<Let("v", Plus1(Var("w"))), Put(Var("v"))>>),
                   For("i", Num(0), Num(1), Num(1), <<Let("v", Plus1(i)), Put(Var("v"))>>)}}

(* Errors on the way, some of them caught, in a loop or not.                  *)
Risks == {Throw(x), Let("z", Call("fails", <<x>>)), Let("x", Plus1(y)), Let("z", Bin("div", a, y)),
          Assign("x", Plus1(x)), Return(Num(2)), Put(x), Break}

Guarded(s, t) == Try(<<s, t>>, "e", <<Put(Var("e")), Assign("y", x)>>)

Catching ==
    {<<Let("x", a), Let("y", Num(0)), Guarded(s, t), u>> \o Ending :
        s \in Risks \ {Break}, t \in Risks \ {Break},
        u \in {Throw(Plus1(x)), Let("x", Call("fails", <<x>>)), Let("y", x)}}
    \cup {<<Let("x", a), Let("y", Num(0)),
            While(Bin("less", x, Num(2)), <<Let("w", Plus1(a)), Guarded(s, t), Assign("x", Plus1(x))>>)>>
          \o Ending : s \in Risks, t \in Risks}

(* The program has a variable with the name of a temporary.                    *)
Taken == Var(TempName(0))

Named ==
    {<<Let("x", Num(0)), Let("y", x), Let(TempName(0), e),
       While(Bin("less", x, Num(2)),
             <<Let("z", Plus1(a)), Assign("y", Taken), Assign("x", Plus1(x))>>)>> \o Ending :
        e \in {a, Num(0)}}

Bodies == Straight \cup Again \cup Looping \cup Nested \cup Catching \cup Named

Programs == {P \in {ProgramOf(body) : body \in Bodies} : WellScoped(P)}

Inputs == {-1, 0, 1}

(* The order of optimize, and others that with_passes may ask for.              *)
Orders == {<<"inline", "fold", "reuse", "hoist", "copies", "dead">>,
           <<"copies", "hoist", "hoist">>}

OnlyCopies == {<<"copies">>}
=============================================================================
