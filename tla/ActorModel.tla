----------------------------- MODULE ActorModel -----------------------------
(***************************************************************************)
(* What the actor scheduler promises, with no stack, no global queue and no *)
(* nested waiting: every actor is a serial server with a FIFO inbox of its   *)
(* own, and every request has one fate.  A stopped actor never works again,  *)
(* a restart happens between turns only, and only a stopped actor refuses.   *)
(***************************************************************************)
EXTENDS Integers

CONSTANTS Id,       \* actors
          Slot,     \* requests
          NoSlot    \* a message that is not a request

VARIABLES
    status,   \* per actor: none, idle, running, stopped
    inbox,    \* per actor: the messages waiting, oldest ticket first
    request,  \* per slot: where the request is in its life
    server    \* per slot: the actor it was asked of

mvars == <<status, inbox, request, server>>

MInit ==
    /\ status = [id \in Id |-> "none"]
    /\ inbox = [id \in Id |-> {}]
    /\ request = [s \in Slot |-> "unused"]
    /\ server = [s \in Slot |-> 0]

Messages(id) == {m.reply_slot : m \in inbox[id]}
Oldest(m, id) == m \in inbox[id] /\ \A n \in inbox[id] : m.ticket <= n.ticket

(* A new actor begins with its init turn.                                   *)
Create(id) ==
    /\ status[id] = "none"
    /\ status' = [status EXCEPT ![id] = "running"]
    /\ UNCHANGED <<inbox, request, server>>

(* A message joins the back of a living actor's inbox.                      *)
Send(id, m) ==
    /\ status[id] \in {"idle", "running"}
    /\ \A n \in inbox[id] : n.ticket < m.ticket
    /\ inbox' = [inbox EXCEPT ![id] = @ \cup {m}]
    /\ IF m.reply_slot = NoSlot
       THEN UNCHANGED <<request, server>>
       ELSE /\ request[m.reply_slot] = "unused"
            /\ request' = [request EXCEPT ![m.reply_slot] = "queued"]
            /\ server' = [server EXCEPT ![m.reply_slot] = id]
    /\ UNCHANGED status

(* A request to a stopped actor is refused at once.                         *)
Refuse(id, s) ==
    /\ status[id] = "stopped"
    /\ request[s] = "unused"
    /\ request' = [request EXCEPT ![s] = "refused"]
    /\ server' = [server EXCEPT ![s] = id]
    /\ UNCHANGED <<status, inbox>>

(* An idle actor starts on its oldest message.                              *)
Receive(id) ==
    /\ status[id] = "idle"
    /\ \E m \in inbox[id] :
         /\ Oldest(m, id)
         /\ inbox' = [inbox EXCEPT ![id] = @ \ {m}]
         /\ request' = IF m.reply_slot = NoSlot THEN request
                       ELSE [request EXCEPT ![m.reply_slot] = "serving"]
    /\ status' = [status EXCEPT ![id] = "running"]
    /\ UNCHANGED server

FinishTurn(id) ==
    /\ status[id] = "running"
    /\ status' = [status EXCEPT ![id] = "idle"]
    /\ UNCHANGED <<inbox, request, server>>

Answer(s) ==
    /\ request[s] = "serving"
    /\ request' = [request EXCEPT ![s] = "answered"]
    /\ UNCHANGED <<status, inbox, server>>

Consume(s) ==
    /\ request[s] = "answered"
    /\ request' = [request EXCEPT ![s] = "consumed"]
    /\ UNCHANGED <<status, inbox, server>>

(* Between turns an actor may be re-initialised; its inbox is kept.         *)
Reinit(id) ==
    /\ status[id] = "idle"
    /\ status' = [status EXCEPT ![id] = "running"]
    /\ UNCHANGED <<inbox, request, server>>

(* Between turns an actor may be stopped; what waits for it is refused.     *)
Stop(id) ==
    /\ status[id] = "idle"
    /\ status' = [status EXCEPT ![id] = "stopped"]
    /\ inbox' = [inbox EXCEPT ![id] = {}]
    /\ request' = [s \in Slot |-> IF s \in Messages(id) THEN "refused" ELSE request[s]]
    /\ UNCHANGED server

(* An error unwinds a set of turns: their requests are never answered.      *)
Abandon(ids, ss) ==
    /\ \A id \in ids : status[id] = "running"
    /\ \A s \in ss : request[s] = "serving"
    /\ status' = [id \in Id |-> IF id \in ids THEN "idle" ELSE status[id]]
    /\ request' = [s \in Slot |-> IF s \in ss THEN "lost" ELSE request[s]]
    /\ UNCHANGED <<inbox, server>>

MNext ==
    \/ \E id \in Id : \/ Create(id)
                      \/ Receive(id)
                      \/ FinishTurn(id)
                      \/ Reinit(id)
                      \/ Stop(id)
                      \/ \E m \in inbox'[id] : Send(id, m)
                      \/ \E s \in Slot : Refuse(id, s)
    \/ \E s \in Slot : Answer(s) \/ Consume(s)
    \/ \E ids \in SUBSET Id, ss \in SUBSET Slot : Abandon(ids, ss)

MSpec == MInit /\ [][MNext]_mvars
=============================================================================
