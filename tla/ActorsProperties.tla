-------------------------- MODULE ActorsProperties --------------------------
(* What must hold of the actor scheduler, and the abstract actor model it   *)
(* implements.                                                             *)
EXTENDS Actors

LiveFrames == {i \in DOMAIN frames : frames[i].phase \in Live}

(***************************************************************************)
(* "A single actor never runs two turns at once" (runtime_actor.rs:46-52):  *)
(* no actor has two bodies on the stack, busy_actors is exactly the set of   *)
(* actors that have one, and current_actor is the innermost of them, however *)
(* turns nest, end, restart or unwind.                                      *)
(***************************************************************************)
SerialTurns ==
    /\ \A i, j \in LiveFrames : frames[i].actor_id = frames[j].actor_id => i = j
    /\ busy_actors = {frames[i].actor_id : i \in LiveFrames} \ {Main}
    /\ \A i \in LiveFrames : (\A j \in LiveFrames : j <= i)
                                => current_actor = frames[i].actor_id

(***************************************************************************)
(* A stopped actor runs no turn, has no queued message, and was stopped by   *)
(* a policy that stops (stop_actor, run_one_deliverable).                   *)
(***************************************************************************)
StoppedIsSilent ==
    \A id \in Id : actor_instances[id].stopped =>
        /\ id \notin busy_actors
        /\ \A m \in actor_mailbox : m.actor_id # id
        /\ actor_instances[id].policy \in {"Stop", "Escalate"}

(***************************************************************************)
(* A deferred action waits only for a turn that will apply it, and is the    *)
(* one the actor's own policy resolves to (apply_or_defer's or_insert).      *)
(***************************************************************************)
DeferredActionsAgree ==
    \A id \in Id :
        LET action == pending_supervision[id]
        IN  action # "none" =>
              /\ actor_instances[id].policy =
                   IF action = "Restart" THEN "Restart"
                   ELSE actor_instances[id].policy
              /\ action = "Stop" =>
                   actor_instances[id].policy \in {"Stop", "Escalate"}
              /\ throws = 0 =>
                   \/ id \in busy_actors
                   \/ \E i \in DOMAIN frames : /\ frames[i].phase = "ended"
                                               /\ frames[i].actor_id = id

(***************************************************************************)
(* The hazard apply_or_defer exists for: a turn that outlives a restart of   *)
(* its actor would write its stale state back over the fresh one.  Between   *)
(* turns an actor holds the state of its latest incarnation, and a running   *)
(* turn holds that of the incarnation it works for.                         *)
(***************************************************************************)
NoStaleState ==
    throws = 0 =>
        /\ \A id \in (1..spawned) \ busy_actors :
               actor_instances[id].state = incarnation[id]
        /\ \A i \in LiveFrames : frames[i].kind # "main" =>
               frames[i].env = incarnation[frames[i].actor_id]

(***************************************************************************)
(* Why SerialTurns holds.  On a stack F, no frame above a live one is of the *)
(* same actor; main's frame is the lowest; busy_actors and current_actor are *)
(* the live frames' actors and the innermost of them; and `outer`, which     *)
(* run_actor_turn saved to restore, names the innermost live actor of the    *)
(* frames below the one that saved it.                                      *)
(***************************************************************************)
IsCurrent(F, n, a) ==
    \/ \E i \in 1..n : /\ F[i].phase \in Live /\ F[i].actor_id = a
                       /\ \A j \in (i + 1)..n : F[j].phase \notin Live
    \/ a = Main /\ \A j \in 1..n : F[j].phase \notin Live

StackOK(F, busy, current) ==
    /\ \A i, j \in DOMAIN F : i < j /\ F[i].phase \in Live
                                => F[i].actor_id # F[j].actor_id
    /\ \A i \in DOMAIN F : F[i].kind = "main" => i = 1
    /\ busy = {F[i].actor_id : i \in {j \in DOMAIN F : F[j].phase \in Live}} \ {Main}
    /\ IsCurrent(F, Len(F), current)
    /\ \A i \in DOMAIN F : IsCurrent(F, i - 1, F[i].outer)

(* Only spawned actors are named anywhere, so a fresh id is nobody's.        *)
OnlySpawnedNamed ==
    /\ \A i \in DOMAIN frames : /\ frames[i].actor_id <= spawned
                                /\ frames[i].cursor <= spawned
                                /\ frames[i].outer <= spawned
    /\ \A m \in actor_mailbox : m.actor_id <= spawned
    /\ \A id \in Id : actor_instances[id].supervisor <= spawned
    /\ handles \subseteq 1..spawned
    /\ current_actor <= spawned

(* The inductive invariant behind SerialTurns.                              *)
StackInvariant == StackOK(frames, busy_actors, current_actor) /\ OnlySpawnedNamed

(***************************************************************************)
(* What a deferred action and a stop say of the actor's own policy: the      *)
(* inductive part of StoppedIsSilent.                                       *)
(***************************************************************************)
PoliciesAgree ==
    \A id \in Id :
        LET action == pending_supervision[id]
            policy == actor_instances[id].policy
        IN  /\ action = "Stop" => policy \in {"Stop", "Escalate"}
            /\ action = "Restart" => policy = "Restart"
            /\ action # "none" => id <= spawned

(***************************************************************************)
(* The discipline of the stack.  Below the top, a frame runs user code (it   *)
(* waits, or its body called spawn) or is a turn whose deferred restart runs *)
(* right above it; only a message's turn is supervised, or serves a request; *)
(* before supervision a frame's cursor is its own actor; what a frame waits   *)
(* for was asked; and `restarting` is the set of actors whose init is being   *)
(* re-run, each once.                                                       *)
(***************************************************************************)
Beneath(F, i) ==
    i < Len(F) => \/ F[i].phase \in Live
                  \/ /\ F[i].phase = "reply" /\ F[i].kind # "restart"
                     /\ F[i + 1].kind = "restart"
                     /\ F[i + 1].actor_id = F[i].actor_id

Orderly(f, requests) ==
    /\ f.kind # "turn" => f.slot = NoSlot /\ f.phase # "supervise"
    /\ f.phase # "supervise" => f.cursor = f.actor_id
    /\ f.phase = "select" => f.awaiting # << >>
    /\ \A j \in DOMAIN f.awaiting : f.awaiting[j] <= requests

DisciplineOn(F, requests, reinit) ==
    /\ \A i \in DOMAIN F : Beneath(F, i) /\ Orderly(F[i], requests)
    /\ \A i, j \in DOMAIN F :
         F[i].kind = "restart" /\ F[j].kind = "restart"
           /\ F[i].actor_id = F[j].actor_id => i = j
    /\ reinit = {F[i].actor_id : i \in {j \in DOMAIN F : F[j].kind = "restart"}}

StackDiscipline == DisciplineOn(frames, asked, restarting)

Queued(s)  == {m \in actor_mailbox : m.reply_slot = s}
Serving(s) == {i \in DOMAIN frames : /\ frames[i].slot = s
                                     /\ frames[i].phase # "supervise"}

(***************************************************************************)
(* No request is lost, duplicated or answered twice: at every moment it is   *)
(* queued once, or one turn is serving it, or it was answered, or consumed,  *)
(* or refused, and never two of these; and only a stopped actor refuses.     *)
(***************************************************************************)
RequestsAccounted ==
    \A s \in 1..asked :
        LET slot == actor_reply_slots[s]
            fates == Cardinality(Queued(s)) + Cardinality(Serving(s))
                     + (IF slot # "Pending" THEN 1 ELSE 0)
                     + (IF s \in taken THEN 1 ELSE 0)
        IN  /\ fates <= 1
            /\ throws = 0 => fates = 1
            /\ slot = "Unavailable" => actor_instances[target[s]].stopped

(***************************************************************************)
(* Where each request is: the inductive form of RequestsAccounted.  A queued  *)
(* message, or the one turn that serves it, holds a slot that is pending and  *)
(* not consumed; and a slot that is pending and not consumed is held.        *)
(***************************************************************************)
Serves(f, s) == f.slot = s /\ f.phase # "supervise"
Open(s) == s \in 1..asked /\ actor_reply_slots[s] = "Pending" /\ s \notin taken

QueuedOnce ==
    \A m \in actor_mailbox : m.reply_slot # NoSlot =>
        /\ Open(m.reply_slot) /\ target[m.reply_slot] = m.actor_id
        /\ \A n \in actor_mailbox : n.reply_slot = m.reply_slot => n = m
        /\ \A i \in DOMAIN frames : ~ Serves(frames[i], m.reply_slot)

ServedOnce ==
    \A i \in DOMAIN frames : \A s \in Slot : Serves(frames[i], s) =>
        /\ Open(s) /\ target[s] = frames[i].actor_id
        /\ \A j \in DOMAIN frames : Serves(frames[j], s) => i = j

SlotsTell ==
    \A s \in Slot :
        /\ s \in taken => s <= asked /\ actor_reply_slots[s] = "Pending"
        /\ s <= asked <=> actor_reply_slots[s] # "Unused"
        /\ actor_reply_slots[s] = "Unavailable" =>
             /\ target[s] \in 1..spawned
             /\ actor_instances[target[s]].stopped

NoneLost ==
    \A s \in Slot : throws = 0 /\ Open(s) =>
        \/ \E m \in actor_mailbox : m.reply_slot = s
        \/ \E i \in DOMAIN frames : Serves(frames[i], s)

RequestsInvariant == QueuedOnce /\ ServedOnce /\ SlotsTell /\ NoneLost

(* What is queued was sent: a new ticket comes after all of every inbox.     *)
TicketsSent == \A m \in actor_mailbox : m.ticket <= sent

(* What a program that ends normally leaves behind: nothing undelivered,     *)
(* nobody mid-turn, no action still deferred, no request unanswered          *)
(* ("the queue empties fully", drain_actors).                               *)
QuiescentEnd ==
    outcome = "done" =>
        /\ actor_mailbox = {} /\ busy_actors = {} /\ restarting = {}
        /\ current_actor = Main
        /\ throws = 0 =>
             /\ \A id \in Id : pending_supervision[id] = "none"
             /\ \A s \in 1..asked : actor_reply_slots[s] = "Pending" => s \in taken

(* The future can resolve to nothing: its reply was consumed already, or it  *)
(* is due from an actor that is mid-turn lower on the stack.                 *)
Blocked(s) == s \in taken \/ target[s] \in busy_actors
Refused(s) == actor_reply_slots[s] = "Unavailable"

(***************************************************************************)
(* A fatal diagnostic tells the truth about the schedule.  L0356: every      *)
(* future waited for is blocked (or refused, in a select).  L0359: the       *)
(* future, or every one of the select's, is of a stopped actor.  L0363: the  *)
(* actor whose init just ran is due another restart.                        *)
(***************************************************************************)
DiagnosesAreTrue ==
    /\ outcome = "L0356" /\ throws = 0 =>
         \/ Top.phase = "body"
         \/ Top.phase = "await" /\ Blocked(Awaited)
         \/ Top.phase = "select" /\ \A i \in DOMAIN Top.awaiting :
                Blocked(Top.awaiting[i]) \/ Refused(Top.awaiting[i])
    /\ outcome = "L0359" =>
         \E i \in DOMAIN Top.awaiting :
             /\ actor_instances[target[Top.awaiting[i]]].stopped
             /\ Top.phase = "select" => \A j \in DOMAIN Top.awaiting :
                    actor_instances[target[Top.awaiting[j]]].stopped
    /\ outcome = "L0363" => Top.kind = "restart" /\ Top.actor_id \in restarting

(* An actor and its supervisors: the least set that holds the actor and,     *)
(* with an actor, the one that spawned it.                                  *)
Upward(S) == \A a \in S : LET s == actor_instances[a].supervisor
                         IN  s \in Id => s \in S
Chain(id) == {a \in Id : \A S \in SUBSET Id : id \in S /\ Upward(S) => a \in S}

(***************************************************************************)
(* An escalating failure stops every actor it passes: each one between the   *)
(* failed actor and the one that bears the failure is stopped or will be     *)
(* when its turn ends, and at L0362 nobody on the chain was left who could   *)
(* have handled it.                                                         *)
(***************************************************************************)
EscalationStopsChain ==
    \A i \in DOMAIN frames : frames[i].phase = "supervise" =>
        LET failed == frames[i].actor_id
            passed == {a \in Chain(failed) : a > frames[i].cursor}
            left   == Chain(failed) \ (passed \cup {frames[i].cursor})
        IN  /\ frames[i].cursor \in Chain(failed)
            /\ \A a \in passed :
                 /\ actor_instances[a].policy = "Escalate"
                 /\ actor_instances[a].stopped \/ pending_supervision[a] = "Stop"
            /\ outcome = "L0362" =>
                 \/ PolicyAt = "none" /\ passed # {}
                 \/ PolicyAt = "Escalate" /\ left = {}

(***************************************************************************)
(* The inductive form of EscalationStopsChain: a supervisor is older than     *)
(* whom it spawned, so the failure goes up one by one: whoever it has passed  *)
(* has a supervisor it has passed, or has just reached.                      *)
(***************************************************************************)
Escalating(id, c) ==
    /\ frames # << >> /\ Top.phase = "supervise"
    /\ Top.actor_id = id /\ Top.cursor = c

EscalationInvariant ==
    /\ \A id \in Id : actor_instances[id].supervisor < id
    /\ \A id, c \in Id : Escalating(id, c) =>
         /\ c \in Chain(id)
         /\ \A a \in Chain(id) : a > c =>
              /\ actor_instances[a].supervisor >= c
              /\ actor_instances[a].policy = "Escalate"
              /\ actor_instances[a].stopped \/ pending_supervision[a] = "Stop"
         /\ outcome = "L0362" =>
              \/ actor_instances[c].policy = "none" /\ c # id
              \/ /\ actor_instances[c].policy = "Escalate"
                 /\ actor_instances[c].supervisor = Main

(***************************************************************************)
(* "An await in this scheduler always terminates" (await_actor_future):      *)
(* if bodies do not run forever, no await, select, join_all, drain, restart  *)
(* or escalation loops or hangs; the program reaches its end or a diagnosis. *)
(***************************************************************************)
AlwaysEnds == <>(outcome # "running")

(***************************************************************************)
(* Why it ends, in two halves that speak of states and steps only.  First,   *)
(* NeverStuck: whatever the stack, the mailbox, the slots and the deferred    *)
(* actions are, while the program runs either user code is on top or the      *)
(* runtime has a next step.  What a step waits for below is the guard of the  *)
(* actions of Pump and Supervision: a wait whose slots can be taken or are    *)
(* refused, a message to deliver or nothing deliverable, a turn to finish,    *)
(* a failure whose bearer can be stopped, restarted or marked.              *)
(***************************************************************************)
WaitIsOver ==
    \/ TopIs("await") /\ actor_reply_slots[Awaited] \in {"Filled", "Unavailable"}
    \/ TopIs("select") /\ AllUnavailable
    \/ TopIs("select") /\ \E i \in DOMAIN Top.awaiting : FirstFilled(i)

CanPump == Pumping /\ (Deliverable = {} \/ \E m \in actor_mailbox : IsFirst(m))

CanBear ==
    \/ PolicyAt \in {"none", "Stop", "Escalate"}
    \/ PolicyAt = "Restart" /\ (MidTurn(Top.cursor) \/ Top.cursor \notin restarting)

CanSupervise ==
    \/ TopIs("ended")
    \/ TopIs("reply") /\ Top.kind # "main"
    \/ TopIs("supervise") /\ CanBear

NeverStuck == Running => TopIs("body") \/ WaitIsOver \/ CanPump \/ CanSupervise

(***************************************************************************)
(* Second, every step uses something up.  A step that leaves `Budget` as it   *)
(* is, so that user code neither spawned, sent, asked nor threw, takes a       *)
(* message from the queue, or consumes a reply, or retires a message's turn,   *)
(* or a deferred restart, or a frame, or moves the top frame on in its life,   *)
(* or the failure on to an older supervisor: in this order, each counts only   *)
(* if those before it did not grow.                                         *)
(***************************************************************************)
Budget == (MaxActors - spawned) + (MaxMessages - sent) + (MaxAsks - asked)
          + (MaxThrows - throws)
Unconsumed      == 1..asked \ taken
TurnsOn(F)      == {i \in DOMAIN F : F[i].kind = "turn"}
RestartsDue     == {id \in Id : pending_supervision[id] = "Restart"}
PhasesLeft(p)   == IF p = "body" THEN 4
                   ELSE IF p \in Live THEN 3
                   ELSE IF p = "ended" THEN 2
                   ELSE IF p = "reply" THEN 1 ELSE 0

Remaining ==
    << IF Running THEN 1 ELSE 0,
       Budget,
       Cardinality(actor_mailbox),
       Cardinality(Unconsumed),
       Cardinality(TurnsOn(frames)),
       Cardinality(RestartsDue),
       Len(frames),
       IF frames = << >> THEN 0 ELSE PhasesLeft(Top.phase),
       IF frames = << >> THEN 0 ELSE Top.cursor >>

(* The first of the quantities that differs is smaller in x than in y.      *)
Less(x, y) == \E k \in 1..9 : /\ x[k] < y[k]
                              /\ \A j \in 1..(k - 1) : x[j] = y[j]

EveryStepUsesUp == [][Less(Remaining', Remaining)]_vars

-----------------------------------------------------------------------------
(* What the sources say and the code does not do.                          *)

(* a cannot go on before b does: a's wait needs a reply b has not given, or  *)
(* a's body called spawn and b's init is running.                           *)
WaitsFor(a, b) ==
    \E i \in LiveFrames : frames[i].actor_id = a /\
        CASE frames[i].phase = "await" ->
               LET s == Head(frames[i].awaiting)
               IN  actor_reply_slots[s] = "Pending" /\ target[s] = b
          [] frames[i].phase = "select" ->
               /\ \A j \in DOMAIN frames[i].awaiting :
                     actor_reply_slots[frames[i].awaiting[j]] # "Filled"
               /\ \E j \in DOMAIN frames[i].awaiting :
                     target[frames[i].awaiting[j]] = b
          [] OTHER -> i < Len(frames) /\ frames[i + 1].actor_id = b

(* Waiters each of whom waits for another of them: there is a cycle.        *)
RequestCycle ==
    \E waiters \in SUBSET (Id \cup {Main}) :
        waiters # {} /\ \A a \in waiters : \E b \in waiters : WaitsFor(a, b)

(***************************************************************************)
(* "If an await could only be satisfied by re-entering a busy actor (an      *)
(* actor asking itself, or a mutual ask cycle) ... this is reported as       *)
(* L0356" (concurrency_model_design.md:93-96, runtime_actor.rs:57-60): an    *)
(* L0356 on futures nobody consumed comes with a cycle of waiters.          *)
(***************************************************************************)
DeadlockIsRequestCycle ==
    outcome = "L0356" /\ Top.phase \in {"await", "select"}
      /\ (\A i \in DOMAIN Top.awaiting : Top.awaiting[i] \notin taken)
    => RequestCycle

(***************************************************************************)
(* "Every field was bound at turn start, so each read resolves"              *)
(* (run_actor_turn_inner): no turn ends by failing to read a state field.    *)
(***************************************************************************)
FieldsResolve == outcome # "L0403"

-----------------------------------------------------------------------------
(* The abstract actor model.                                               *)

StatusOf(id) ==
    IF id > spawned THEN "none"
    ELSE IF actor_instances[id].stopped THEN "stopped"
    ELSE IF id \in busy_actors THEN "running" ELSE "idle"

FateOf(s) ==
    IF s > asked THEN "unused"
    ELSE IF actor_reply_slots[s] = "Unavailable" THEN "refused"
    ELSE IF actor_reply_slots[s] = "Filled" THEN "answered"
    ELSE IF s \in taken THEN "consumed"
    ELSE IF Queued(s) # {} THEN "queued"
    ELSE IF Serving(s) # {} THEN "serving" ELSE "lost"

AM == INSTANCE ActorModel WITH
        status  <- [id \in Id |-> StatusOf(id)],
        inbox   <- [id \in Id |-> {m \in actor_mailbox : m.actor_id = id}],
        request <- [s \in Slot |-> FateOf(s)],
        server  <- target

(* The one-stack, one-queue scheduler implements an actor model in which     *)
(* every actor has its own FIFO inbox and serves one message at a time.      *)
ActorModelSpec == AM!MSpec
=============================================================================
