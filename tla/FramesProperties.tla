-------------------------- MODULE FramesProperties ---------------------------
(* What must hold of environments, frames and raw pointers.                 *)
EXTENDS Frames

(* Every frame's own environment, wherever it is.                           *)
ShelvedUpTo(i) == Cardinality({j \in 1 .. i : frames[j].shelved})
OwnEnv(i) == IF frames[i].shelved THEN env_shelf[ShelvedUpTo(i)] ELSE frames[i].env

LiveBindings == UNION {{BornAt(OwnEnv(i), p) : p \in Positions(OwnEnv(i))} :
                        i \in DOMAIN frames}

SlotType  == [env : Nat, scope : Nat, entry : Nat]
ArenaType == [buffer : SlotType, name : Names, born : Nat, cursor : Nat]
EntryType == [name : Names, born : Nat, hole : BOOLEAN, arena : ArenaType]
ScopeType == [id : Nat, entries : Seq(EntryType)]
EnvType   == [id : Nat, scopes : Seq(ScopeType), next_scope_id : Nat]
FrameType == [id : Nat, outer : Nat, kind : {"function", "closure", "turn"}, env : EnvType,
              home : Nat, doing : {"body", "call", "builtin", "await"}, moved : Names,
              shelved : BOOLEAN]
RegionType == [base : Nat, stride : Nat, len : Nat, frame : Nat, root : SlotType]

(* The types of the variables; the quarantine of returned regions is bounded. *)
TypeOK ==
    /\ frames \in Seq(FrameType) /\ frames # << >>
    /\ env_shelf \in Seq(EnvType) /\ env_pool \in Seq(EnvType)
    /\ next_env_id \in Nat
    /\ regions \subseteq RegionType /\ tombstones \in Seq(RegionType)
    /\ Len(tombstones) <= TombstoneCapacity
    /\ next_base \in Nat /\ current_frame \in Nat /\ next_frame \in Nat
    /\ raised \in {"none", "throw", "early"}
    /\ births \in Nat /\ blocks \in Nat
    /\ taken \subseteq [addr : Nat, of : Nat, cell : Nat]
    /\ lost \subseteq Nat

(***************************************************************************)
(* The shelf is paired with the stack: it holds, in order, exactly the       *)
(* environments of the frames that put one there, every other frame has its   *)
(* own environment and never the hollow one, no environment serves two         *)
(* frames, and none in the pool is in use; whatever returned, threw or         *)
(* propagated in between (with_env_shelved, invoke_function).                *)
(***************************************************************************)
ShelfIsPaired ==
    /\ Len(env_shelf) = ShelvedUpTo(Depth)
    /\ \A i \in DOMAIN frames :
         /\ OwnEnv(i).id = frames[i].home /\ frames[i].home # 0
         /\ \A j \in DOMAIN frames : frames[i].home = frames[j].home => i = j
         /\ \A k \in DOMAIN env_pool : env_pool[k].id # frames[i].home
    /\ Top.id = current_frame

(***************************************************************************)
(* "Honest refusal is the invariant": an access through an address that the  *)
(* program was given reaches the very cell the address was taken of, or is    *)
(* refused, however scopes, frames and environments have come and gone.       *)
(***************************************************************************)
DerefIsHonest ==
    Runs => \A t \in taken :
        LET place == Deref(t.addr)
        IN place.outcome = "place" => place.of = t.of /\ place.cell = t.cell

(***************************************************************************)
(* An address works exactly as long as its variable lives: a variable of any *)
(* frame on the stack is reached from every frame above it, and once its      *)
(* block or function has ended the access is refused as dangling (as an        *)
(* unmapped address when too many have died since).  The exception is the      *)
(* frame of an `await`, which the turns that run meanwhile do not reach.      *)
(***************************************************************************)
Awaiting == {i \in 1 .. Depth - 1 : frames[i].doing = "await"}
Unreached == UNION {{BornAt(OwnEnv(i), p) : p \in Positions(OwnEnv(i))} : i \in Awaiting}

PointersFollowLifetimes ==
    Runs => \A t \in taken :
        LET outcome == Deref(t.addr).outcome
        IN IF t.of \in Unreached THEN outcome = "unreachable"
           ELSE IF t.of \in LiveBindings THEN outcome = "place"
           ELSE \/ outcome = "dangling"
                \/ outcome = "unmapped" /\ Len(tombstones) = TombstoneCapacity
                \/ outcome = "unreachable" /\ Awaiting # {}

(***************************************************************************)
(* A placeholder is always owed a value: it is the one a suspended builtin    *)
(* will write its result over, or was left by a builtin that failed           *)
(* (move_out_nearest, try_move_functional_update).                          *)
(***************************************************************************)
Holes == UNION {{BornAt(OwnEnv(i), p) :
                   p \in {q \in Positions(OwnEnv(i)) : EntryAt(OwnEnv(i), q).hole}} :
                i \in DOMAIN frames}
Owed == {BornAt(OwnEnv(i), Nearest(OwnEnv(i), frames[i].moved)) :
            i \in {j \in DOMAIN frames : frames[j].doing = "builtin"}}

HolesAreOwed == Holes \subseteq Owed \cup lost

-----------------------------------------------------------------------------
(* What the sources say and the code does not do.                          *)

(***************************************************************************)
(* "The placeholder is never observable" (runtime_env.rs, move_out_nearest)   *)
(* and "a mid-op failure halts the program with the moved-out placeholder      *)
(* never observed" (interpreter.rs): no code that runs can read one by name.  *)
(***************************************************************************)
PlaceholderNeverObserved ==
    Runs => \A x \in Var : Bound(Env, x) => ~ EntryAt(Env, Nearest(Env, x)).hole
=============================================================================
