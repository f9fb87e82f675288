------------------------------- MODULE Actors -------------------------------
(***************************************************************************)
(* The actor scheduler of the AST interpreter                              *)
(* (src/crates/lullaby_runtime/src/runtime_actor.rs): spawn, tell, ask,     *)
(* await, join_all, select, the message pump, and supervision.             *)
(*                                                                         *)
(* The scheduler is one OS thread.  What makes it hard is that `await` is   *)
(* a nested call of the pump: a turn that waits runs other actors' turns    *)
(* on top of its own Rust stack frame, those may wait in turn, spawn, fail, *)
(* and restart or stop actors whose turns are still lower on the stack.     *)
(* `frames` is that stack; only its last element can move.  User code is    *)
(* a nondeterministic choice of the operations a body may perform.          *)
(*                                                                         *)
(* An operator named Mutant... is a deliberate mistake in the operator that  *)
(* follows it; no action uses it.  README.md says what they are for.        *)
(***************************************************************************)
EXTENDS Integers, Sequences, FiniteSets, SequencesExt

CONSTANTS
    MaxActors,     \* bound: actor instances a run may spawn
    MaxMessages,   \* bound: messages a run may enqueue
    MaxAsks,       \* bound: reply slots a run may allocate
    MaxWait,       \* bound: futures given to one join_all / select
    MaxThrows,     \* bound: errors raised in a body and caught lower down
    Policies,      \* the supervise clauses a spawn may carry
    Knows          \* <<a, b>> : code running as a may hold b's handle

ASSUME BoundsAssumption ==
    /\ MaxActors \in Nat /\ MaxMessages \in Nat /\ MaxAsks \in Nat
    /\ MaxWait \in Nat /\ MaxThrows \in Nat

ASSUME PoliciesAssumption ==
    Policies \subseteq {"none", "Restart", "Stop", "Escalate"}

(* Handles are returned by spawn and travel in messages, so which actor     *)
(* holds which handle is a property of the program: Knows ranges over them. *)
Main   == 0                    \* current_actor = None: main, or the drain
Id     == 1..MaxActors         \* index + 1 into actor_instances
NoSlot == 0                    \* reply_slot = None: a tell
Slot   == 1..MaxAsks           \* index + 1 into actor_reply_slots
Taken  == 0                    \* the state vector left by mem::take

VARIABLES
    actor_instances,     \* per id: supervisor, policy, stopped, state
    spawned,             \* actor_instances.len()
    actor_mailbox,       \* queued messages; the queue's order is the ticket's
    sent,                \* tickets handed out
    actor_reply_slots,   \* per slot: Unused, Pending, Filled, Unavailable
    asked,               \* actor_reply_slots.len()
    busy_actors,         \* ids with a turn on the stack
    pending_supervision, \* per id: the deferred action, or "none"
    restarting,          \* ids whose init is being re-run
    current_actor,       \* the actor a spawn records as supervisor
    frames,              \* the call stack of turns, main's frame first
    outcome,             \* running, done, or the code of the fatal error
    handles,             \* ids whose spawn has returned its ActorRef
    incarnation,         \* history: 0 unspawned, 1 spawned, +1 per restart
    target,              \* history: the actor each slot was asked of
    taken,               \* history: slots whose reply an await consumed
    throws               \* bound counter for Throw

instanceVars == <<actor_instances, spawned, handles, incarnation>>
mailVars     == <<actor_mailbox, sent>>
slotVars     == <<actor_reply_slots, asked, target, taken>>
turnVars     == <<busy_actors, restarting, current_actor>>
vars == <<instanceVars, mailVars, slotVars, turnVars, pending_supervision,
          frames, outcome, throws>>

Instance == [supervisor : Id \cup {Main},
             policy     : {"none", "Restart", "Stop", "Escalate"},
             stopped    : BOOLEAN,
             state      : Nat]

Message == [ticket : Nat, actor_id : Id, reply_slot : Slot \cup {NoSlot}]

(***************************************************************************)
(* One activation of run_actor_turn (or of main).  `env` is the state the   *)
(* turn took out of its instance, named by its incarnation.  Phases:        *)
(*   body       user code is running                                       *)
(*   await      in await_actor_future, for the slots of `awaiting` in order *)
(*   select     in select_futures, over the slots of `awaiting`             *)
(*   ended      body over, state written back, deferred action still due    *)
(*   reply      run_actor_turn returned its value to its caller             *)
(*   supervise  in supervise_failure's loop, at `cursor`                    *)
(***************************************************************************)
Live == {"body", "await", "select"}
FrameRecord ==
    [actor_id : Id \cup {Main},
     kind     : {"main", "init", "turn", "restart"},
     slot     : Slot \cup {NoSlot},
     env      : Nat,
     outer    : Id \cup {Main},
     phase    : Live \cup {"ended", "reply", "supervise"},
     awaiting : Seq(Slot),
     reply    : {"none", "ok", "err"},
     cursor   : Id \cup {Main}]
Frame == {f \in FrameRecord :
             /\ f.phase = "await" => f.awaiting # << >>
             /\ f.actor_id = Main <=> f.kind = "main"
             /\ f.cursor = Main <=> f.kind = "main"
             /\ f.kind = "main" => f.phase \in Live}

TypeOK ==
    /\ actor_instances \in [Id -> Instance]
    /\ spawned \in 0..MaxActors
    /\ actor_mailbox \subseteq Message
    /\ sent \in 0..MaxMessages
    /\ actor_reply_slots \in [Slot -> {"Unused", "Pending", "Filled", "Unavailable"}]
    /\ asked \in 0..MaxAsks
    /\ busy_actors \subseteq Id
    /\ pending_supervision \in [Id -> {"none", "Restart", "Stop"}]
    /\ restarting \subseteq Id
    /\ current_actor \in Id \cup {Main}
    /\ frames \in Seq(Frame)
    /\ outcome \in {"running", "done", "L0356", "L0359", "L0362", "L0363",
                    "L0403", "L0420"}
    /\ handles \subseteq Id
    /\ incarnation \in [Id -> Nat]
    /\ target \in [Slot -> Id \cup {Main}]
    /\ taken \subseteq Slot
    /\ throws \in 0..MaxThrows

NewFrame(id, kind, slot) ==
    [actor_id |-> id, kind |-> kind, slot |-> slot,
     env |-> 0, outer |-> Main, phase |-> "body",
     awaiting |-> << >>, reply |-> "none", cursor |-> id]

Init ==
    /\ actor_instances = [id \in Id |-> [supervisor |-> Main, policy |-> "none",
                                         stopped |-> FALSE, state |-> Taken]]
    /\ spawned = 0
    /\ actor_mailbox = {}
    /\ sent = 0
    /\ actor_reply_slots = [s \in Slot |-> "Unused"]
    /\ asked = 0
    /\ busy_actors = {}
    /\ pending_supervision = [id \in Id |-> "none"]
    /\ restarting = {}
    /\ current_actor = Main
    /\ frames = <<NewFrame(Main, "main", NoSlot)>>
    /\ outcome = "running"
    /\ handles = {}
    /\ incarnation = [id \in Id |-> 0]
    /\ target = [s \in Slot |-> Main]
    /\ taken = {}
    /\ throws = 0

-----------------------------------------------------------------------------
(* The stack.                                                              *)

Top == Last(frames)
Popped == Front(frames)
WithTop(f) == Append(Front(frames), f)

Running == outcome = "running"
TopIs(phase) == Running /\ frames # << >> /\ Top.phase = phase

Fail(code) ==
    /\ outcome' = code
    /\ UNCHANGED <<instanceVars, mailVars, slotVars, turnVars,
                   pending_supervision, frames, throws>>

(***************************************************************************)
(* run_actor_turn up to its body, on the instance table `instances`: mark   *)
(* the actor busy, make it current, take its state into the frame, and      *)
(* push the frame on `below`.                                               *)
(***************************************************************************)
BeginTurn(id, kind, slot, instances, below) ==
    /\ busy_actors' = busy_actors \cup {id}
    /\ current_actor' = id
    /\ frames' = Append(below,
                   [NewFrame(id, kind, slot) EXCEPT !.env = instances[id].state,
                                                    !.outer = current_actor])
    /\ actor_instances' = [instances EXCEPT ![id].state = Taken]

-----------------------------------------------------------------------------
(* Operations a body performs.                                             *)

(* spawn_actor: supervisor is the running actor; init runs as a turn.       *)
Spawn(policy) ==
    LET id == spawned + 1
    IN  /\ TopIs("body")
        /\ spawned < MaxActors
        /\ <<current_actor, id>> \in Knows
        /\ spawned' = id
        /\ incarnation' = [incarnation EXCEPT ![id] = 1]
        /\ BeginTurn(id, "init", NoSlot,
             [actor_instances EXCEPT ![id] =
                 [supervisor |-> current_actor, policy |-> policy,
                  stopped |-> FALSE, state |-> 1]],
             frames)
        /\ UNCHANGED <<mailVars, slotVars, restarting, pending_supervision,
                       outcome, handles, throws>>

MutantTicketSkips == sent + 2
NextTicket == sent + 1

(* push_back.                                                              *)
Enqueue(id, slot) ==
    /\ sent < MaxMessages
    /\ sent' = NextTicket
    /\ actor_mailbox' = actor_mailbox \cup
         {[ticket |-> NextTicket, actor_id |-> id, reply_slot |-> slot]}

(* tell_actor: dropped without trace when the target is stopped.            *)
Tell(id) ==
    /\ TopIs("body")
    /\ ~ actor_instances[id].stopped
    /\ Enqueue(id, NoSlot)
    /\ UNCHANGED <<instanceVars, slotVars, turnVars, pending_supervision,
                   frames, outcome, throws>>

(* ask_actor: a fresh slot, Unavailable from the start for a stopped target. *)
Ask(id) ==
    LET slot == asked + 1
        stopped == actor_instances[id].stopped
    IN  /\ TopIs("body")
        /\ asked < MaxAsks
        /\ asked' = slot
        /\ target' = [target EXCEPT ![slot] = id]
        /\ actor_reply_slots' = [actor_reply_slots EXCEPT
                ![slot] = IF stopped THEN "Unavailable" ELSE "Pending"]
        /\ IF stopped THEN UNCHANGED mailVars ELSE Enqueue(id, slot)
        /\ UNCHANGED <<instanceVars, taken, turnVars, pending_supervision,
                       frames, outcome, throws>>

(* The lists of distinct futures the running code may wait for.  A          *)
(* Future<R> is a sendable value: whoever may hold the handle of the actor   *)
(* it was asked of may hold the future, whoever asked.                      *)
Futures ==
    LET held == {s \in 1..asked : <<current_actor, target[s]>> \in Knows}
    IN  {ss \in UNION {[1..n -> held] : n \in 1..MaxWait} :
            \A i, j \in DOMAIN ss : ss[i] = ss[j] => i = j}

Wait(phase, ss) ==
    /\ TopIs("body")
    /\ frames' = WithTop([Top EXCEPT !.phase = phase, !.awaiting = ss])
    /\ UNCHANGED <<instanceVars, mailVars, slotVars, turnVars,
                   pending_supervision, outcome, throws>>

(* await f is Await(<<f>>); join_all awaits its futures in input order.     *)
Await(ss)  == Wait("await", ss)
Select(ss) == Wait("select", ss)

(* select over an empty collection is refused before any scan.              *)
SelectNothing ==
    /\ TopIs("body")
    /\ Fail("L0356")

(* The body of an actor turn returns: run_actor_turn_inner reads every state *)
(* field back (L0403 if the turn began on a taken state), and                *)
(* run_actor_turn restores current_actor and clears busy.  Only an asked     *)
(* handler declares a reply type, so only it can fail with an err reply.     *)
EndTurn(reply) ==
    /\ TopIs("body")
    /\ Top.kind # "main"
    /\ reply = "err" => Top.kind = "turn" /\ Top.slot # NoSlot
    /\ Top.env # Taken
    /\ actor_instances' = [actor_instances EXCEPT ![Top.actor_id].state = Top.env]
    /\ busy_actors' = busy_actors \ {Top.actor_id}
    /\ current_actor' = Top.outer
    /\ frames' = WithTop([Top EXCEPT !.phase = "ended", !.reply = reply])
    /\ UNCHANGED <<spawned, handles, incarnation, mailVars, slotVars, restarting,
                   pending_supervision, outcome, throws>>

EndTurnOnTakenState ==
    /\ TopIs("body")
    /\ Top.kind # "main"
    /\ Top.env = Taken
    /\ Fail("L0403")

(* main returns; run_main_shared then drains the mailbox on an empty stack. *)
EndMain ==
    /\ TopIs("body")
    /\ Top.kind = "main"
    /\ frames' = << >>
    /\ UNCHANGED <<instanceVars, mailVars, slotVars, turnVars,
                   pending_supervision, outcome, throws>>

Unwound(k) == {frames[i].actor_id : i \in (k + 1)..Len(frames)}
UnwoundRestarts(k) ==
    {frames[i].actor_id : i \in {j \in (k + 1)..Len(frames) : frames[j].kind = "restart"}}

(***************************************************************************)
(* An error that leaves the running body and is caught in the body of frame *)
(* k: a throw (L0420) by Stmt::Try, a `?` (L0430) by invoke_function, which  *)
(* run_actor_turn is not.  Each activation above k leaves by its error       *)
(* path: busy and restarting are cleared and current_actor restored, but     *)
(* the taken state is not written back, no deferred action is applied, and   *)
(* no reply is published.  Uncaught (k = 0), it ends the program.            *)
(***************************************************************************)
Throw(k) ==
    /\ TopIs("body")
    /\ throws < MaxThrows
    /\ k < Len(frames)
    /\ throws' = throws + 1
    /\ IF k = 0
       THEN outcome' = "L0420" /\ UNCHANGED <<frames, turnVars>>
       ELSE /\ frames[k].phase \in Live
            /\ frames' = Append(SubSeq(frames, 1, k - 1),
                       [frames[k] EXCEPT !.phase = "body", !.awaiting = << >>])
            /\ busy_actors' = busy_actors \ Unwound(k)
            /\ restarting' = restarting \ UnwoundRestarts(k)
            /\ current_actor' = frames[k + 1].outer
            /\ UNCHANGED outcome
    /\ UNCHANGED <<instanceVars, mailVars, slotVars, pending_supervision>>

-----------------------------------------------------------------------------
(* The pump.                                                               *)

MutantDeliverableToBusy == {m \in actor_mailbox :
                                ~ actor_instances[m.actor_id].stopped}
MutantDeliverableHeadOnly == {m \in actor_mailbox :
                                /\ m.actor_id \notin busy_actors
                                /\ ~ actor_instances[m.actor_id].stopped
                                /\ \A n \in actor_mailbox : m.ticket <= n.ticket}
Deliverable == {m \in actor_mailbox : /\ m.actor_id \notin busy_actors
                                      /\ ~ actor_instances[m.actor_id].stopped}

MutantIsNewest(m) == m \in Deliverable /\ \A n \in Deliverable : m.ticket >= n.ticket
IsFirst(m) == m \in Deliverable /\ \A n \in Deliverable : m.ticket <= n.ticket

Awaited == Head(Top.awaiting)

FirstFilled(i) == /\ actor_reply_slots[Top.awaiting[i]] = "Filled"
                  /\ \A j \in 1..(i - 1) : actor_reply_slots[Top.awaiting[j]] # "Filled"

NoneFilled     == \A i \in DOMAIN Top.awaiting :
                      actor_reply_slots[Top.awaiting[i]] # "Filled"
AllUnavailable == \A i \in DOMAIN Top.awaiting :
                      actor_reply_slots[Top.awaiting[i]] = "Unavailable"

(* The innermost waiter found nothing to take, or the drain is running.     *)
Pumping ==
    \/ Running /\ frames = << >>
    \/ TopIs("await") /\ actor_reply_slots[Awaited] = "Pending"
    \/ TopIs("select") /\ NoneFilled /\ ~ AllUnavailable

(* mem::replace leaves a taken slot as it was before the reply.             *)
MutantAfterTake == "Filled"
AfterTake == "Pending"

TakeReply(slot, frame) ==
    /\ actor_reply_slots' = [actor_reply_slots EXCEPT ![slot] = AfterTake]
    /\ taken' = taken \cup {slot}
    /\ frames' = WithTop(frame)
    /\ UNCHANGED <<instanceVars, mailVars, asked, target, turnVars,
                   pending_supervision, outcome, throws>>

AwaitTakes ==
    LET rest == Tail(Top.awaiting)
    IN  /\ TopIs("await")
        /\ actor_reply_slots[Awaited] = "Filled"
        /\ TakeReply(Awaited,
             [Top EXCEPT !.phase = IF rest = << >> THEN "body" ELSE "await",
                         !.awaiting = rest])

AwaitUnavailable ==
    /\ TopIs("await")
    /\ actor_reply_slots[Awaited] = "Unavailable"
    /\ Fail("L0359")

(* The scan picks the lowest filled position; the losers stay awaitable.    *)
SelectTakes ==
    /\ TopIs("select")
    /\ \E i \in DOMAIN Top.awaiting :
         /\ FirstFilled(i)
         /\ TakeReply(Top.awaiting[i],
              [Top EXCEPT !.phase = "body", !.awaiting = << >>])

SelectUnavailable ==
    /\ TopIs("select")
    /\ AllUnavailable
    /\ Fail("L0359")

(* run_one_deliverable and dispatch_message up to the handler's body.       *)
Dispatch(m) ==
    /\ Pumping
    /\ IsFirst(m)
    /\ actor_mailbox' = actor_mailbox \ {m}
    /\ BeginTurn(m.actor_id, "turn", m.reply_slot, actor_instances, frames)
    /\ UNCHANGED <<spawned, handles, incarnation, sent, slotVars, restarting,
                   pending_supervision, outcome, throws>>

MutantStallSpins == Pumping /\ frames # << >> /\ Deliverable = {} /\ UNCHANGED vars
Stall ==
    /\ Pumping
    /\ frames # << >>
    /\ Deliverable = {}
    /\ Fail("L0356")

DrainEnds ==
    /\ Pumping
    /\ frames = << >>
    /\ Deliverable = {}
    /\ Fail("done")

-----------------------------------------------------------------------------
(* Supervision.                                                            *)

MutantPurgeAsksOnly(id) == {m \in actor_mailbox : m.actor_id = id /\ m.reply_slot # NoSlot}
QueuedFor(id) == {m \in actor_mailbox : m.actor_id = id}

MutantSlotsUnmarked(purged) == actor_reply_slots
SlotsAfterPurge(purged) ==
    [s \in Slot |-> IF \E m \in purged : m.reply_slot = s
                    THEN "Unavailable" ELSE actor_reply_slots[s]]

(* stop_actor: idempotent; purges the actor's messages and makes the slots  *)
(* of its queued requests Unavailable.                                      *)
StopActor(id) ==
    IF actor_instances[id].stopped
    THEN UNCHANGED <<actor_instances, actor_mailbox, actor_reply_slots>>
    ELSE /\ actor_instances' = [actor_instances EXCEPT ![id].stopped = TRUE]
         /\ actor_mailbox' = actor_mailbox \ QueuedFor(id)
         /\ actor_reply_slots' = SlotsAfterPurge(QueuedFor(id))

(* restart_actor on an actor whose init is not already being re-run: zero   *)
(* the state and run init as a turn, above the frames `below`.              *)
RestartActor(id, below) ==
    /\ id \notin restarting
    /\ restarting' = restarting \cup {id}
    /\ incarnation' = [incarnation EXCEPT ![id] = @ + 1]
    /\ BeginTurn(id, "restart", NoSlot,
         [actor_instances EXCEPT ![id].state = incarnation[id] + 1], below)

(* The end of run_actor_turn: apply the action deferred while busy.         *)
NoDeferred ==
    /\ TopIs("ended")
    /\ pending_supervision[Top.actor_id] = "none"
    /\ frames' = WithTop([Top EXCEPT !.phase = "reply"])
    /\ UNCHANGED <<instanceVars, mailVars, slotVars, turnVars,
                   pending_supervision, outcome, throws>>

MutantPendingKept(id) == UNCHANGED pending_supervision
ClearPending(id) ==
    pending_supervision' = [pending_supervision EXCEPT ![id] = "none"]

DeferredStop ==
    /\ TopIs("ended")
    /\ pending_supervision[Top.actor_id] = "Stop"
    /\ ClearPending(Top.actor_id)
    /\ StopActor(Top.actor_id)
    /\ frames' = WithTop([Top EXCEPT !.phase = "reply"])
    /\ UNCHANGED <<spawned, handles, incarnation, sent, asked, target, taken,
                   turnVars, outcome, throws>>

DeferredRestart ==
    /\ TopIs("ended")
    /\ pending_supervision[Top.actor_id] = "Restart"
    /\ ClearPending(Top.actor_id)
    /\ RestartActor(Top.actor_id, WithTop([Top EXCEPT !.phase = "reply"]))
    /\ UNCHANGED <<spawned, handles, mailVars, slotVars, outcome, throws>>

DeferredRestartLoops ==
    /\ TopIs("ended")
    /\ pending_supervision[Top.actor_id] = "Restart"
    /\ Top.actor_id \in restarting
    /\ Fail("L0363")

(* The value of a turn reaches the caller of run_actor_turn.                *)
SpawnReturns ==
    /\ TopIs("reply")
    /\ Top.kind = "init"
    /\ handles' = handles \cup {Top.actor_id}
    /\ frames' = Popped
    /\ UNCHANGED <<actor_instances, spawned, incarnation, mailVars, slotVars,
                   turnVars, pending_supervision, outcome, throws>>

RestartReturns ==
    /\ TopIs("reply")
    /\ Top.kind = "restart"
    /\ restarting' = restarting \ {Top.actor_id}
    /\ frames' = Popped
    /\ UNCHANGED <<instanceVars, mailVars, slotVars, busy_actors, current_actor,
                   pending_supervision, outcome, throws>>

(* dispatch_message: publish the reply first, then supervise a failure.     *)
PublishReply ==
    /\ TopIs("reply")
    /\ Top.kind = "turn"
    /\ actor_reply_slots' = IF Top.slot = NoSlot THEN actor_reply_slots
                            ELSE [actor_reply_slots EXCEPT ![Top.slot] = "Filled"]
    /\ frames' = IF Top.reply = "err"
                 THEN WithTop([Top EXCEPT !.phase = "supervise"])
                 ELSE Popped
    /\ UNCHANGED <<instanceVars, mailVars, asked, target, taken, turnVars,
                   pending_supervision, outcome, throws>>

(* One iteration of supervise_failure's loop, by the policy at the cursor.  *)
PolicyAt == actor_instances[Top.cursor].policy

MutantNeverMidTurn(id) == FALSE
MidTurn(id) == id \in busy_actors

Defer(id, action) ==
    /\ MidTurn(id)
    /\ pending_supervision' = [pending_supervision EXCEPT
           ![id] = IF @ = "none" THEN action ELSE @]

MutantBusyNotStopped(id) ==
    /\ ~ MidTurn(id) => StopActor(id)
    /\ MidTurn(id) => UNCHANGED <<actor_instances, actor_mailbox, actor_reply_slots>>
    /\ UNCHANGED pending_supervision

(* apply_or_defer(id, Stop).                                                *)
StopOrDefer(id) ==
    \/ Defer(id, "Stop")
       /\ UNCHANGED <<actor_instances, actor_mailbox, actor_reply_slots>>
    \/ ~ MidTurn(id) /\ StopActor(id) /\ UNCHANGED pending_supervision

Unsupervised ==
    /\ TopIs("supervise")
    /\ PolicyAt = "none"
    /\ Top.cursor = Top.actor_id
    /\ frames' = Popped
    /\ UNCHANGED <<instanceVars, mailVars, slotVars, turnVars,
                   pending_supervision, outcome, throws>>

SuperviseStop ==
    /\ TopIs("supervise")
    /\ PolicyAt = "Stop"
    /\ StopOrDefer(Top.cursor)
    /\ frames' = Popped
    /\ UNCHANGED <<spawned, handles, incarnation, sent, asked, target, taken,
                   turnVars, outcome, throws>>

SuperviseRestart ==
    /\ TopIs("supervise")
    /\ PolicyAt = "Restart"
    /\ ~ MidTurn(Top.cursor)
    /\ RestartActor(Top.cursor, Popped)
    /\ UNCHANGED <<spawned, handles, mailVars, slotVars, pending_supervision,
                   outcome, throws>>

SuperviseRestartDeferred ==
    /\ TopIs("supervise")
    /\ PolicyAt = "Restart"
    /\ Defer(Top.cursor, "Restart")
    /\ frames' = Popped
    /\ UNCHANGED <<instanceVars, mailVars, slotVars, turnVars, outcome, throws>>

(* Escalate: the cursor stops, and its supervisor bears the failure.        *)
Escalate ==
    LET supervisor == actor_instances[Top.cursor].supervisor
    IN  /\ TopIs("supervise")
        /\ PolicyAt = "Escalate"
        /\ StopOrDefer(Top.cursor)
        /\ IF supervisor = Main
           THEN outcome' = "L0362" /\ UNCHANGED frames
           ELSE /\ frames' = WithTop([Top EXCEPT !.cursor = supervisor])
                /\ UNCHANGED outcome
        /\ UNCHANGED <<spawned, handles, incarnation, sent, asked, target, taken,
                       turnVars, throws>>

EscalatedToUnsupervised ==
    /\ TopIs("supervise")
    /\ PolicyAt = "none"
    /\ Top.cursor # Top.actor_id
    /\ Fail("L0362")

-----------------------------------------------------------------------------

(* The program has ended.                                                   *)
Ended == ~ Running /\ UNCHANGED vars

(* The handles the running code may send to.                               *)
Known == {id \in handles : <<current_actor, id>> \in Knows}

Body ==
    \/ \E policy \in Policies : Spawn(policy)
    \/ \E id \in Known : Tell(id)
    \/ \E id \in Known : Ask(id)
    \/ \E ss \in Futures : Await(ss)
    \/ \E ss \in Futures : Select(ss)
    \/ SelectNothing
    \/ \E reply \in {"ok", "err"} : EndTurn(reply)
    \/ EndTurnOnTakenState
    \/ EndMain
    \/ \E k \in 0..Len(frames) : Throw(k)

Pump ==
    \/ AwaitTakes
    \/ AwaitUnavailable
    \/ SelectTakes
    \/ SelectUnavailable
    \/ \E m \in actor_mailbox : Dispatch(m)
    \/ Stall
    \/ DrainEnds

Supervision ==
    \/ NoDeferred
    \/ DeferredStop
    \/ DeferredRestart
    \/ DeferredRestartLoops
    \/ SpawnReturns
    \/ RestartReturns
    \/ PublishReply
    \/ Unsupervised
    \/ SuperviseStop
    \/ SuperviseRestart
    \/ SuperviseRestartDeferred
    \/ Escalate
    \/ EscalatedToUnsupervised

Next == Body \/ Pump \/ Supervision \/ Ended

Spec == Init /\ [][Next]_vars

(* A body that can move does, and no body runs forever: the bounds above    *)
(* count every operation that lengthens a run.                              *)
FairSpec == Spec /\ WF_vars(Next)
=============================================================================
