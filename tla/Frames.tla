------------------------------- MODULE Frames --------------------------------
(***************************************************************************)
(* Environments, frames and raw pointers of the AST interpreter:            *)
(* lexical scopes (runtime_env.rs), calls with the pool of environments and  *)
(* the env shelf (runtime_builtins.rs, interpreter.rs), `addr_of` and         *)
(* static-buffer arenas (raw_pointer.rs, runtime_eval.rs), the move of a      *)
(* variable into `x = f(x)` (interpreter.rs), and what errors undo.          *)
(*                                                                         *)
(* A value is what the pointers tell apart: it is there, or it is the Void    *)
(* placeholder of a move.  A variable is Cells[x] cells of Stride[x] bytes;   *)
(* a list has no layout, hence no cells.  Fields of structs, the heap of      *)
(* `alloc` and errors that end the program are left out.  Threads have an     *)
(* interpreter each and share nothing of this.                              *)
(*                                                                         *)
(* An operator named Mutant... is a deliberate mistake in the operator that   *)
(* follows it; no action uses it.                                           *)
(***************************************************************************)
EXTENDS Integers, Sequences, FiniteSets

CONSTANTS
    Var,                \* variables of the program
    Stride,             \* bytes from one cell of a variable to the next
    Cells,              \* number of cells; 0: no layout, 1: a scalar
    TombstoneCapacity,  \* returned regions that are remembered
    MaxFrames,          \* bound: frames ever entered
    MaxBirths,          \* bound: bindings ever made
    MaxBlocks           \* bound: blocks ever opened

ASSUME FramesAssumption ==
    /\ Stride \in [Var -> Nat \ {0}]
    /\ Cells \in [Var -> Nat]
    /\ TombstoneCapacity \in Nat
    /\ MaxFrames \in Nat /\ MaxBirths \in Nat /\ MaxBlocks \in Nat

VARIABLES
    frames,         \* the stack of activations, the running one last
    env_shelf,      \* environments of suspended frames
    env_pool,       \* environments to reuse
    next_env_id,
    regions,        \* address ranges that name places
    tombstones,     \* address ranges of places whose frame has returned
    next_base,
    current_frame,
    next_frame,
    raised,         \* an error on its way: "throw" (L0420), "early" (`?`, L0430)
    births,         \* history: the number of bindings made so far
    blocks,         \* history: the number of blocks opened so far
    taken,          \* history: every address handed out, and the cell it is of
    lost            \* history: variables moved into a builtin that then failed

rawVars == <<regions, tombstones, next_base, current_frame, next_frame>>
envVars == <<env_shelf, env_pool, next_env_id>>
history == <<births, blocks, taken, lost>>
vars == <<frames, envVars, rawVars, raised, history>>

-----------------------------------------------------------------------------
(* Environments.  A binding's `born` tells it from every other there ever    *)
(* was, which is what the program's slots have to do.                       *)

arena_key == "arena"     \* no variable has this name
Names     == Var \cup {arena_key}
NoSlot    == [env |-> 0, scope |-> 0, entry |-> 0]
NoArena   == [buffer |-> NoSlot, name |-> arena_key, born |-> 0, cursor |-> 0]

Scope(id)  == [id |-> id, entries |-> << >>]
NewEnv(id) == [id |-> id, scopes |-> <<Scope(0)>>, next_scope_id |-> 1]
Hollow     == [id |-> 0, scopes |-> << >>, next_scope_id |-> 0]

MutantFreshScope(e) == Scope(Len(e.scopes))

FreshScope(e) == Scope(e.next_scope_id)
NextScope(e)  == [e EXCEPT !.next_scope_id = @ + 1]
PushScope(e)  == [NextScope(e) EXCEPT !.scopes = Append(@, FreshScope(e))]
PopScope(e)   == [e EXCEPT !.scopes = SubSeq(@, 1, Len(@) - 1)]
Reset(e)      == [NextScope(e) EXCEPT !.scopes = <<FreshScope(e)>>]

(* Positions of the bindings of e: <<scope, entry>>.                        *)
Positions(e) == UNION {{<<i, j>> : j \in DOMAIN e.scopes[i].entries} : i \in DOMAIN e.scopes}
EntryAt(e, p) == e.scopes[p[1]].entries[p[2]]
BornAt(e, p)  == EntryAt(e, p).born
With(e, p, entry) == [e EXCEPT !.scopes[p[1]].entries[p[2]] = entry]

BoundAt(e, x) == {p \in Positions(e) : EntryAt(e, p).name = x}
Bound(e, x)   == BoundAt(e, x) # {}
Nearest(e, x) == CHOOSE p \in BoundAt(e, x) : \A q \in BoundAt(e, x) : q[1] <= p[1]

Slot(e, p) == [env |-> e.id, scope |-> e.scopes[p[1]].id, entry |-> p[2]]
At(e, slot) == {p \in Positions(e) : Slot(e, p) = slot}

(* The nearest x gets a value, or loses it to a move.                       *)
Put(e, x, hole) ==
    With(e, Nearest(e, x), [EntryAt(e, Nearest(e, x)) EXCEPT !.hole = hole])

(* A binding of the innermost scope, in place of one of the same name.       *)
Innermost(e, x) == {p \in BoundAt(e, x) : p[1] = Len(e.scopes)}

Define(e, x, state) ==
    LET entry == [name |-> x, born |-> births + 1, hole |-> FALSE, arena |-> state]
    IN IF Innermost(e, x) = {} THEN [e EXCEPT !.scopes[Len(e.scopes)].entries = Append(@, entry)]
       ELSE LET p == Nearest(e, x) IN With(e, p, [entry EXCEPT !.born = BornAt(e, p)])

-----------------------------------------------------------------------------
(* The stack.                                                              *)

Depth  == Len(frames)
Top    == frames[Depth]
Caller == frames[Depth - 1]
Env    == Top.env

(* User code of the running frame is at a point where it can do anything.    *)
Runs == raised = "none" /\ Top.doing = "body"

SetEnv(e) == frames' = [frames EXCEPT ![Depth].env = e]

Frame(id, kind, e) ==
    [id |-> id, outer |-> current_frame, kind |-> kind, env |-> e, home |-> e.id,
     doing |-> "body", moved |-> arena_key, shelved |-> FALSE]

shelf_needed == regions # {}

(* The running frame starts something, its environment being e; what it      *)
(* invokes finds e on the shelf, if any pointer can need it.                *)
Suspended(e, doing, x) ==
    [Top EXCEPT !.doing = doing, !.moved = x, !.shelved = shelf_needed,
                !.env = IF shelf_needed THEN Hollow ELSE e]
Shelve(e) == env_shelf' = IF shelf_needed THEN Append(env_shelf, e) ELSE env_shelf

(* ... and goes on.                                                         *)
KeptEnv(f) == IF f.shelved THEN env_shelf[Len(env_shelf)] ELSE f.env
Resumed(f) == [f EXCEPT !.doing = "body", !.moved = arena_key, !.shelved = FALSE,
                        !.env = KeptEnv(f)]
MutantUnshelve(f) == UNCHANGED env_shelf

Unshelve(f) ==
    env_shelf' = IF f.shelved THEN SubSeq(env_shelf, 1, Len(env_shelf) - 1) ELSE env_shelf

(* A frame of a function, whose environment may come from the pool, of a     *)
(* closure or of an actor's turn.  `below` is what the stack becomes first.  *)
Pooled(kind) == kind = "function" /\ env_pool # << >>

EnterFrame(below, kind) ==
    /\ next_frame <= MaxFrames
    /\ LET pooled == env_pool[Len(env_pool)]
           env == IF Pooled(kind) THEN Reset(pooled) ELSE NewEnv(next_env_id)
       IN frames' = Append(below, Frame(next_frame, kind, env))
    /\ IF Pooled(kind)
       THEN env_pool' = SubSeq(env_pool, 1, Len(env_pool) - 1) /\ UNCHANGED next_env_id
       ELSE next_env_id' = next_env_id + 1 /\ UNCHANGED env_pool
    /\ current_frame' = next_frame
    /\ next_frame' = next_frame + 1
    /\ UNCHANGED <<regions, tombstones, next_base, raised, history>>

(* The regions of the frame die with it.                                    *)
End(r)  == r.base + r.stride * r.len
MutantLast(s, n) == s
MutantDead(r)    == r.frame = Top.outer

Last(s, n) == SubSeq(s, IF Len(s) > n THEN Len(s) - n + 1 ELSE 1, Len(s))
Dead(r) == r.frame = current_frame

(* Regions in the order they were made in.                                  *)
Age(r, R) == Cardinality({q \in R : q.base <= r.base})
ByAge(R)  == [k \in 1 .. Cardinality(R) |-> CHOOSE r \in R : Age(r, R) = k]

ExitFrame ==
    LET dead == {r \in regions : Dead(r)}
    IN  /\ tombstones' = Last(tombstones \o ByAge(dead), TombstoneCapacity)
        /\ regions' = regions \ dead
        /\ current_frame' = Top.outer
        /\ UNCHANGED <<next_base, next_frame>>

-----------------------------------------------------------------------------
(* Raw addresses.                                                          *)

Covers(r, addr) == r.base <= addr /\ addr < End(r)

SamePlace(r, s) ==
    /\ r.frame = s.frame /\ r.root = s.root
    /\ r.stride = s.stride /\ r.len = s.len

Max2(a, b) == IF a > b THEN a ELSE b
Span(r)    == Max2(Max2(r.stride * r.len, r.stride), 8)
NextBase(r) == r.base + Span(r) + Max2(r.stride, 8)

(* The address of variable x at `root`, born as `of`: the region it already  *)
(* has or a new one, and the pointers to `cells` of it that the program gets. *)
PushRegion(root, x, of, cells) ==
    LET fresh == [base |-> next_base, stride |-> Stride[x], len |-> Cells[x],
                  frame |-> current_frame, root |-> root]
        known == {r \in regions : SamePlace(r, fresh)}    \* one at most
        base  == IF known = {} THEN next_base ELSE (CHOOSE r \in known : TRUE).base
    IN /\ IF known = {}
          THEN regions' = regions \cup {fresh} /\ next_base' = NextBase(fresh)
          ELSE UNCHANGED <<regions, next_base>>
       /\ taken' = taken \cup
            {[addr |-> base + c * Stride[x], of |-> of, cell |-> c] : c \in cells}
       /\ UNCHANGED <<tombstones, current_frame, next_frame>>

(* What an access through addr finds: the cell of a place, or a refusal.     *)
Covering(addr) == {r \in regions : Covers(r, addr)}    \* one at most
RegionAt(addr) == CHOOSE r \in Covering(addr) : TRUE
Cell(r, addr)  == (addr - r.base) \div r.stride

(* The environment of the running frame, or one on the shelf.               *)
Reachable       == {Env} \cup {env_shelf[i] : i \in DOMAIN env_shelf}
OwningEnvs(slot) == {e \in Reachable : e.id = slot.env}

Refusal(why) == [outcome |-> why, of |-> 0, cell |-> 0]

Deref(addr) ==
    IF Covering(addr) = {} THEN
        Refusal(IF \E i \in DOMAIN tombstones : Covers(tombstones[i], addr)
                THEN "dangling" ELSE "unmapped")
    ELSE LET r == RegionAt(addr)
             places == UNION {{e} \X At(e, r.root) : e \in OwningEnvs(r.root)}
         IN IF OwningEnvs(r.root) = {} THEN Refusal("unreachable")
            ELSE IF places = {} THEN Refusal("dangling")
            ELSE LET place == CHOOSE place \in places : TRUE
                 IN [outcome |-> "place", of |-> BornAt(place[1], place[2]),
                     cell |-> Cell(r, addr)]

-----------------------------------------------------------------------------
(* Statements of the running frame.                                        *)

Defines(x, state) ==
    /\ Innermost(Env, x) = {} => births < MaxBirths
    /\ SetEnv(Define(Env, x, state))
    /\ births' = IF Innermost(Env, x) = {} THEN births + 1 ELSE births

Let(x) ==
    /\ Runs
    /\ Defines(x, NoArena)
    /\ UNCHANGED <<envVars, rawVars, raised, taken, lost, blocks>>

Assign(x) ==
    /\ Runs /\ Bound(Env, x)
    /\ SetEnv(Put(Env, x, FALSE))
    /\ UNCHANGED <<envVars, rawVars, raised, history>>

(* A block: the body of an if, a loop, a match arm, a try, a region.         *)
OpenScope ==
    /\ Runs /\ blocks < MaxBlocks
    /\ SetEnv(PushScope(Env))
    /\ blocks' = blocks + 1
    /\ UNCHANGED <<envVars, rawVars, raised, births, taken, lost>>

CloseScope ==
    /\ Runs /\ Len(Env.scopes) > 1
    /\ SetEnv(PopScope(Env))
    /\ UNCHANGED <<envVars, rawVars, raised, history>>

(* addr_of(x); for an array, pointer arithmetic then reaches every cell.     *)
AddrOf(x) ==
    /\ Runs /\ Bound(Env, x) /\ Cells[x] > 0
    /\ LET p == Nearest(Env, x)
       IN /\ ~ EntryAt(Env, p).hole
          /\ PushRegion(Slot(Env, p), x, BornAt(Env, p), 0 .. Cells[x] - 1)
    /\ UNCHANGED <<frames, envVars, raised, births, lost, blocks>>

(* A store into a scalar whose value has been moved out puts a value there;   *)
(* into any other place it changes no more than the value.                   *)
HoleOf(e, of) ==
    {p \in Positions(e) : LET b == EntryAt(e, p) IN b.born = of /\ b.hole /\ Cells[b.name] = 1}
Filled(e, of) ==
    IF HoleOf(e, of) = {} THEN e
    ELSE LET p == CHOOSE p \in HoleOf(e, of) : TRUE
         IN With(e, p, [EntryAt(e, p) EXCEPT !.hole = FALSE])

Store(addr) ==
    /\ Runs /\ Deref(addr).outcome = "place"
    /\ LET of == Deref(addr).of
       IN /\ \E e \in Reachable : HoleOf(e, of) # {}
          /\ SetEnv(Filled(Env, of))
          /\ env_shelf' = [i \in DOMAIN env_shelf |-> Filled(env_shelf[i], of)]
    /\ UNCHANGED <<env_pool, next_env_id, rawVars, raised, history>>

(* region r in x                                                            *)
DeclareArena(x) ==
    /\ Runs /\ Bound(Env, x) /\ Cells[x] > 1
    /\ LET p == Nearest(Env, x)
       IN Defines(arena_key, [buffer |-> Slot(Env, p), name |-> x, born |-> BornAt(Env, p),
                              cursor |-> 0])
    /\ UNCHANGED <<envVars, rawVars, raised, taken, lost, blocks>>

(* arena_alloc(r, 1); at the end of the buffer it ends the program (L0445).  *)
ArenaAlloc ==
    /\ Runs /\ Bound(Env, arena_key)
    /\ LET p == Nearest(Env, arena_key)
           state == EntryAt(Env, p).arena
       IN /\ At(Env, state.buffer) # {}
          /\ state.cursor + 1 <= Cells[state.name]
          /\ SetEnv(With(Env, p, [EntryAt(Env, p) EXCEPT !.arena.cursor = @ + 1]))
          /\ PushRegion(state.buffer, state.name, state.born, {state.cursor})
    /\ UNCHANGED <<envVars, raised, births, lost, blocks>>

-----------------------------------------------------------------------------
(* Calls.                                                                  *)

Below(f) == [frames EXCEPT ![Depth] = f]

Call(kind) ==
    /\ Runs
    /\ Shelve(Env)
    /\ EnterFrame(Below(Suspended(Env, "call", arena_key)), kind)

(* x = f(x), f a builtin that calls back (list_map, list_reduce, sort_by):   *)
(* x is moved out, leaving the placeholder.                                 *)
StartBuiltin(x) ==
    /\ Runs /\ Bound(Env, x) /\ Cells[x] <= 1
    /\ ~ EntryAt(Env, Nearest(Env, x)).hole
    /\ frames' = Below(Suspended(Put(Env, x, TRUE), "builtin", x))
    /\ Shelve(Put(Env, x, TRUE))
    /\ UNCHANGED <<env_pool, next_env_id, rawVars, raised, history>>

Callback(kind) ==
    /\ raised = "none" /\ Top.doing = "builtin"
    /\ EnterFrame(frames, kind)
    /\ UNCHANGED env_shelf

MutantWriteBack(e, x) == Define(e, x, NoArena)

WriteBack(e, x) == Put(e, x, FALSE)

EndBuiltin ==
    /\ raised = "none" /\ Top.doing = "builtin"
    /\ frames' = Below([Resumed(Top) EXCEPT !.env = WriteBack(@, Top.moved)])
    /\ Unshelve(Top)
    /\ UNCHANGED <<env_pool, next_env_id, rawVars, raised, history>>

(* An await of an actor's reply, in which turns run.  It does not shelve the *)
(* environment of the frame.                                                *)
Turn ==
    /\ raised = "none" /\ Top.doing \in {"body", "await"}
    /\ EnterFrame(Below([Top EXCEPT !.doing = "await"]), "turn")
    /\ UNCHANGED env_shelf

EndAwait ==
    /\ raised = "none" /\ Top.doing = "await"
    /\ frames' = Below(Resumed(Top))
    /\ UNCHANGED <<envVars, rawVars, raised, history>>

(* The running frame is left, and its caller goes on if `wakes`.             *)
Leave(wakes) ==
    /\ ExitFrame
    /\ frames' = Append(SubSeq(frames, 1, Depth - 2),
                        IF wakes THEN Resumed(Caller) ELSE Caller)
    /\ IF wakes THEN Unshelve(Caller) ELSE UNCHANGED env_shelf

(* Only a normal return gives the environment back to the pool.              *)
Return ==
    /\ Runs /\ Depth > 1
    /\ Leave(Caller.doing = "call")
    /\ env_pool' = IF Top.kind = "function" THEN Append(env_pool, Env) ELSE env_pool
    /\ UNCHANGED <<next_env_id, raised, history>>

-----------------------------------------------------------------------------
(* Errors.                                                                 *)

(* The running code throws, or an error has come out of what it started.     *)
Raises(error) == Top.doing = "body" /\ raised \in {"none", error}

(* try ... catch: the scopes of the body are popped, the handler's opened.   *)
Catch(depth) ==
    /\ Raises("throw") /\ blocks < MaxBlocks
    /\ SetEnv(PushScope([Env EXCEPT !.scopes = SubSeq(@, 1, depth)]))
    /\ raised' = "none"
    /\ blocks' = blocks + 1
    /\ UNCHANGED <<envVars, rawVars, births, taken, lost>>

(* The error leaves the frame.  `?` ends as the value of the function it is  *)
(* in; otherwise the error goes on in the caller, where it aborts the call   *)
(* or the builtin.  An actor's supervision may end it in an await.           *)
Unwind(error) ==
    /\ Raises(error) /\ Depth > 1
    /\ \E ends \in BOOLEAN :
         /\ error = "early" /\ Top.kind = "function" => ends
         /\ ends => \/ error = "early" /\ Top.kind = "function"
                    \/ Top.kind = "turn"
         /\ raised' = IF ends THEN "none" ELSE error
         /\ Leave(~ ends \/ Caller.doing = "call")
         /\ lost' = IF ends \/ Caller.doing # "builtin" THEN lost
                    ELSE LET e == KeptEnv(Caller)
                         IN lost \cup {BornAt(e, Nearest(e, Caller.moved))}
    /\ UNCHANGED <<env_pool, next_env_id, births, taken, blocks>>

-----------------------------------------------------------------------------
Init ==
    /\ births = 0 /\ blocks = 0 /\ next_env_id = 2
    /\ current_frame = 1 /\ next_frame = 2
    /\ frames =
         <<[id |-> 1, outer |-> 0, kind |-> "function", env |-> NewEnv(1), home |-> 1,
            doing |-> "body", moved |-> arena_key, shelved |-> FALSE]>>
    /\ env_shelf = << >> /\ env_pool = << >>
    /\ regions = {} /\ tombstones = << >> /\ next_base = 0
    /\ raised = "none"
    /\ taken = {} /\ lost = {}

Next ==
    \/ \E x \in Var : Let(x) \/ Assign(x) \/ AddrOf(x) \/ DeclareArena(x) \/ StartBuiltin(x)
    \/ \E t \in taken : Store(t.addr)
    \/ OpenScope \/ CloseScope \/ ArenaAlloc
    \/ \E kind \in {"function", "closure"} : Call(kind) \/ Callback(kind)
    \/ EndBuiltin \/ Turn \/ EndAwait \/ Return
    \/ \E depth \in 1 .. Len(Env.scopes) - 1 : Catch(depth)
    \/ \E error \in {"throw", "early"} : Unwind(error)

Spec == Init /\ [][Next]_vars
=============================================================================
