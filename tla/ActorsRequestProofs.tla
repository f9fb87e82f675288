------------------------ MODULE ActorsRequestProofs -------------------------
(* Where every request is, and what rests on it: what a normal end leaves    *)
(* behind, that the fatal diagnostics are true of the schedule, whom an      *)
(* escalation stops, the refinement of the abstract actor model, and why     *)
(* every run ends.                                                          *)
(* For every bound, set of policies and Knows.                              *)
EXTENDS ActorsTurnProofs, FiniteSetTheorems, WellFoundedInduction

-----------------------------------------------------------------------------
(* What the ways a stack changes do to who serves what.                    *)

(* Whoever serves a request on the stack G served it on F; and the converse. *)
LessService(F, G) ==
    \A i \in DOMAIN G : \A s \in Slot : Serves(G[i], s) =>
        i \in DOMAIN F /\ Serves(F[i], s) /\ G[i].actor_id = F[i].actor_id

SameService(F, G) ==
    /\ LessService(F, G)
    /\ \A i \in DOMAIN F : \A s \in Slot : Serves(F[i], s) =>
        i \in DOMAIN G /\ Serves(G[i], s)

LEMMA SameServiceRefl == \A F : SameService(F, F)
BY DEF SameService, LessService

LEMMA SameServiceTrans ==
    ASSUME NEW F, NEW G, NEW H, SameService(F, G), SameService(G, H)
    PROVE  SameService(F, H)
BY DEF SameService, LessService

(* The top frame moves on within its turn.                                  *)
LEMMA SameServiceTop ==
    ASSUME TypeOK, frames # << >>, NEW f \in Frame,
           f.slot = Top.slot, f.actor_id = Top.actor_id,
           \/ (f.phase = "supervise") <=> (Top.phase = "supervise")
           \/ Top.slot = NoSlot
    PROVE  SameService(frames, WithTop(f))
<1>1. /\ DOMAIN frames = 1..Len(frames) /\ DOMAIN WithTop(f) = 1..Len(frames)
      /\ Top = frames[Len(frames)]
      /\ \A i \in 1..Len(frames) :
              WithTop(f)[i] = IF i = Len(frames) THEN f ELSE frames[i]
  BY TopIsFrame, LenProperties DEF TypeOK
<1>2. \A s \in Slot : Serves(f, s) <=> Serves(Top, s)
  BY DEF Serves, Slot, NoSlot
<1>3. \A i \in 1..Len(frames) : \A s \in Slot :
         Serves(WithTop(f)[i], s) <=> Serves(frames[i], s)
  BY <1>1, <1>2
<1>4. \A i \in 1..Len(frames) : WithTop(f)[i].actor_id = frames[i].actor_id
  BY <1>1
<1>5. QED
  BY <1>1, <1>3, <1>4 DEF SameService, LessService

(* A frame that serves nothing leaves.                                      *)
LEMMA SameServicePop ==
    ASSUME TypeOK, frames # << >>, Top.slot = NoSlot \/ Top.phase = "supervise"
    PROVE  SameService(frames, Popped)
<1> DEFINE n == Len(frames)
<1>1. /\ DOMAIN frames = 1..n /\ DOMAIN Popped = 1..(n - 1) /\ n \in Nat \ {0}
      /\ Top = frames[n] /\ \A i \in 1..(n - 1) : Popped[i] = frames[i]
  BY TopIsFrame, LenProperties DEF TypeOK
<1>2. \A s \in Slot : ~ Serves(Top, s)
  BY DEF Serves, Slot, NoSlot
<1> HIDE DEF n
<1>3. /\ \A i \in 1..n : i # n => i \in 1..(n - 1)
      /\ \A i \in 1..(n - 1) : i \in 1..n
  BY <1>1
<1>4. \A i \in 1..n : \A s \in Slot : Serves(frames[i], s) => i \in 1..(n - 1)
  BY <1>1, <1>2, <1>3
<1>5. QED
  BY <1>1, <1>3, <1>4 DEF SameService, LessService

(* A turn begins that serves nothing.                                       *)
LEMMA SameServiceTurn ==
    ASSUME TypeOK, NEW id, NEW kind, NEW instances, NEW below,
           TurnBegins(id, kind, NoSlot, instances, below)
    PROVE  SameService(below, frames')
<1> DEFINE n == Len(below)
<1>1. /\ DOMAIN below = 1..n /\ DOMAIN frames' = 1..(n + 1) /\ n \in Nat
      /\ \A i \in 1..n : frames'[i] = below[i] /\ frames'[n + 1].slot = NoSlot
  BY PushShape, LenProperties DEF TurnBegins
<1>2. \A s \in Slot : ~ Serves(frames'[n + 1], s)
  <2>1. frames'[n + 1].slot = NoSlot
    BY PushShape
  <2>2. QED
    BY <2>1 DEF Serves, Slot, NoSlot
<1> HIDE DEF n
<1>3. /\ \A i \in 1..(n + 1) : i # n + 1 => i \in 1..n
      /\ \A i \in 1..n : i \in 1..(n + 1)
  BY <1>1
<1>4. \A i \in 1..(n + 1) : \A s \in Slot : Serves(frames'[i], s) => i \in 1..n
  BY <1>1, <1>2, <1>3
<1>5. QED
  BY <1>1, <1>3, <1>4 DEF SameService, LessService

-----------------------------------------------------------------------------
(* What the steps do to the requests.                                      *)

(* No message, slot or handle moves.                                        *)
SlotsStay ==
    UNCHANGED <<actor_mailbox, actor_reply_slots, asked, target, taken>>

(* Who has stopped has stopped.                                             *)
StopsLast ==
    /\ \A id \in 1..spawned : actor_instances[id].stopped => actor_instances'[id].stopped
    /\ \A id \in 1..spawned : id \in 1..spawned'

LEMMA RequestsStay ==
    ASSUME TypeOK, RequestsInvariant, SlotsStay, StopsLast,
           LessService(frames, frames'),
           throws' = 0 => throws = 0 /\ SameService(frames, frames')
    PROVE  RequestsInvariant'
<1> USE DEF SlotsStay
<1>1. \A s : Open(s)' <=> Open(s)
  BY DEF Open
<1>2. QueuedOnce'
  <2> SUFFICES ASSUME NEW m \in actor_mailbox, m.reply_slot # NoSlot
               PROVE  /\ Open(m.reply_slot)' /\ target'[m.reply_slot] = m.actor_id
                      /\ \A n \in actor_mailbox : n.reply_slot = m.reply_slot => n = m
                      /\ \A i \in DOMAIN frames' : ~ Serves(frames'[i], m.reply_slot)
    BY DEF QueuedOnce
  <2>1. /\ Open(m.reply_slot) /\ target[m.reply_slot] = m.actor_id
        /\ \A n \in actor_mailbox : n.reply_slot = m.reply_slot => n = m
        /\ \A i \in DOMAIN frames : ~ Serves(frames[i], m.reply_slot)
    BY DEF RequestsInvariant, QueuedOnce
  <2>2. m.reply_slot \in Slot
    BY DEF TypeOK, Message
  <2>3. QED
    BY <1>1, <2>1, <2>2 DEF LessService
<1>3. ServedOnce'
  <2> SUFFICES ASSUME NEW i \in DOMAIN frames', NEW s \in Slot, Serves(frames'[i], s)
               PROVE  /\ Open(s)' /\ target'[s] = frames'[i].actor_id
                      /\ \A j \in DOMAIN frames' : Serves(frames'[j], s) => i = j
    BY DEF ServedOnce
  <2>1. i \in DOMAIN frames /\ Serves(frames[i], s) /\ frames'[i].actor_id = frames[i].actor_id
    BY DEF LessService
  <2>2. \A j \in DOMAIN frames' : Serves(frames'[j], s) => j \in DOMAIN frames /\ Serves(frames[j], s)
    BY DEF LessService
  <2>3. QED
    BY <1>1, <2>1, <2>2 DEF RequestsInvariant, ServedOnce
<1>4. SlotsTell'
  BY DEF RequestsInvariant, SlotsTell, StopsLast
<1>5. NoneLost'
  <2> SUFFICES ASSUME NEW s \in Slot, throws' = 0, Open(s)'
               PROVE  \/ \E m \in actor_mailbox : m.reply_slot = s
                      \/ \E i \in DOMAIN frames' : Serves(frames'[i], s)
    BY DEF NoneLost
  <2>1. \/ \E m \in actor_mailbox : m.reply_slot = s
        \/ \E i \in DOMAIN frames : Serves(frames[i], s)
    BY <1>1 DEF RequestsInvariant, NoneLost
  <2>2. QED
    BY <2>1 DEF SameService
<1>6. QED
  BY <1>2, <1>3, <1>4, <1>5 DEF RequestsInvariant

(* What leaves the state of every request and every stop alone, but for a    *)
(* step of the stack.                                                      *)
LEMMA RequestsSame ==
    ASSUME TypeOK, RequestsInvariant, SlotsStay, StopsLast,
           UNCHANGED throws, SameService(frames, frames')
    PROVE  RequestsInvariant'
BY RequestsStay DEF SameService

(* An actor that is between turns stops: what is queued for it is refused.   *)
LEMMA RequestsStop ==
    ASSUME TypeOK, RequestsInvariant, OnlySpawnedNamed, NEW id \in Id, StopActor(id),
           UNCHANGED <<asked, target, taken, throws, spawned>>,
           SameService(frames, frames')
    PROVE  RequestsInvariant'
<1>1. CASE actor_instances[id].stopped
  <2>1. SlotsStay /\ StopsLast
    BY <1>1 DEF StopActor, SlotsStay, StopsLast
  <2>2. QED
    BY <2>1, RequestsSame
<1>2. CASE ~ actor_instances[id].stopped
  <2>1. /\ actor_instances' = [actor_instances EXCEPT ![id].stopped = TRUE]
        /\ actor_mailbox' = {m \in actor_mailbox : m.actor_id # id}
        /\ actor_reply_slots' = [s \in Slot |->
              IF \E m \in actor_mailbox : m.actor_id = id /\ m.reply_slot = s
              THEN "Unavailable" ELSE actor_reply_slots[s]]
    BY <1>2 DEF StopActor, QueuedFor, SlotsAfterPurge
  <2>2. ASSUME NEW a \in Id
        PROVE  /\ actor_instances'[a].stopped = IF a = id THEN TRUE
                                               ELSE actor_instances[a].stopped
    <3>1. actor_instances \in [Id -> Instance] /\ actor_instances[a] \in Instance
      BY DEF TypeOK
    <3>2. CASE a = id
      BY <2>1, <3>1, <3>2 DEF Instance
    <3>3. CASE a # id
      BY <2>1, <3>1, <3>3
    <3>4. QED
      BY <3>2, <3>3
  <2>3. ASSUME NEW m \in actor_mailbox, m.reply_slot # NoSlot
        PROVE  /\ m.reply_slot \in Slot /\ Open(m.reply_slot)
               /\ target[m.reply_slot] = m.actor_id
               /\ \A n \in actor_mailbox : n.reply_slot = m.reply_slot => n = m
               /\ \A i \in DOMAIN frames : ~ Serves(frames[i], m.reply_slot)
               /\ m.actor_id \in 1..spawned
    BY <2>3 DEF RequestsInvariant, QueuedOnce, OnlySpawnedNamed, TypeOK, Message, Id
  <2>4. ASSUME NEW s \in Slot, \A m \in actor_mailbox : m.reply_slot = s => m.actor_id # id
        PROVE  /\ actor_reply_slots'[s] = actor_reply_slots[s]
               /\ Open(s)' <=> Open(s)
    BY <2>1, <2>4 DEF Open
  <2>5. \A s \in Slot : s # NoSlot
    BY DEF Slot, NoSlot
  <2>6. QueuedOnce'
    <3> SUFFICES ASSUME NEW m \in actor_mailbox', m.reply_slot # NoSlot
                 PROVE  /\ Open(m.reply_slot)' /\ target'[m.reply_slot] = m.actor_id
                        /\ \A n \in actor_mailbox' : n.reply_slot = m.reply_slot => n = m
                        /\ \A i \in DOMAIN frames' : ~ Serves(frames'[i], m.reply_slot)
      BY DEF QueuedOnce
    <3>1. m \in actor_mailbox /\ m.actor_id # id
      BY <2>1
    <3>2. \A n \in actor_mailbox : n.reply_slot = m.reply_slot => n.actor_id # id
      BY <2>3, <3>1
    <3>3. Open(m.reply_slot)' /\ m.reply_slot \in Slot
      BY <2>3, <2>4, <3>1, <3>2
    <3>4. QED
      BY <2>1, <2>3, <3>1, <3>3 DEF SameService, LessService
  <2>7. ServedOnce'
    <3> SUFFICES ASSUME NEW i \in DOMAIN frames', NEW s \in Slot, Serves(frames'[i], s)
                 PROVE  /\ Open(s)' /\ target'[s] = frames'[i].actor_id
                        /\ \A j \in DOMAIN frames' : Serves(frames'[j], s) => i = j
      BY DEF ServedOnce
    <3>1. i \in DOMAIN frames /\ Serves(frames[i], s)
          /\ frames'[i].actor_id = frames[i].actor_id
      BY DEF SameService, LessService
    <3>2. \A j \in DOMAIN frames' :
             Serves(frames'[j], s) => j \in DOMAIN frames /\ Serves(frames[j], s)
      BY DEF SameService, LessService
    <3>3. Open(s) /\ target[s] = frames[i].actor_id
          /\ \A j \in DOMAIN frames : Serves(frames[j], s) => i = j
      BY <3>1 DEF RequestsInvariant, ServedOnce
    <3>4. \A m \in actor_mailbox : m.reply_slot # s
      BY <2>3, <2>5, <3>1
    <3>5. QED
      BY <2>4, <3>1, <3>2, <3>3, <3>4
  <2>8. SlotsTell'
    <3> SUFFICES ASSUME NEW s \in Slot
                 PROVE  /\ s \in taken => s <= asked /\ actor_reply_slots'[s] = "Pending"
                        /\ s <= asked <=> actor_reply_slots'[s] # "Unused"
                        /\ actor_reply_slots'[s] = "Unavailable" =>
                             /\ target[s] \in 1..spawned
                             /\ actor_instances'[target[s]].stopped
      BY DEF SlotsTell
    <3>1. /\ s \in taken => s <= asked /\ actor_reply_slots[s] = "Pending"
          /\ s <= asked <=> actor_reply_slots[s] # "Unused"
          /\ actor_reply_slots[s] = "Unavailable" =>
               /\ target[s] \in 1..spawned
               /\ actor_instances[target[s]].stopped
      BY DEF RequestsInvariant, SlotsTell
    <3>2. \A a \in 1..spawned : a \in Id
      BY BoundsAssumption DEF TypeOK, Id
    <3>3. CASE \E m \in actor_mailbox : m.actor_id = id /\ m.reply_slot = s
      <4>1. PICK m \in actor_mailbox : m.actor_id = id /\ m.reply_slot = s
        BY <3>3
      <4>2. Open(s) /\ target[s] = id /\ id \in 1..spawned
        BY <2>3, <2>5, <4>1
      <4>3. actor_reply_slots'[s] = "Unavailable"
        BY <2>1, <3>3
      <4>4. s <= asked /\ s \notin taken
        BY <3>1, <4>2 DEF Open
      <4>5. actor_instances'[target[s]].stopped
        BY <2>2, <4>2
      <4>6. QED
        BY <4>2, <4>3, <4>4, <4>5
    <3>4. CASE ~ \E m \in actor_mailbox : m.actor_id = id /\ m.reply_slot = s
      BY <2>2, <2>4, <3>1, <3>2, <3>4
    <3>5. QED
      BY <3>3, <3>4
  <2>9. NoneLost'
    <3> SUFFICES ASSUME NEW s \in Slot, throws = 0, Open(s)'
                 PROVE  \/ \E m \in actor_mailbox' : m.reply_slot = s
                        \/ \E i \in DOMAIN frames' : Serves(frames'[i], s)
      BY DEF NoneLost
    <3>1. \A m \in actor_mailbox : m.reply_slot = s => m.actor_id # id
      BY <2>1 DEF Open
    <3>2. \/ \E m \in actor_mailbox : m.reply_slot = s
          \/ \E i \in DOMAIN frames : Serves(frames[i], s)
      BY <2>4, <3>1 DEF RequestsInvariant, NoneLost
    <3>3. QED
      BY <2>1, <3>1, <3>2 DEF SameService
  <2>10. QED
    BY <2>6, <2>7, <2>8, <2>9 DEF RequestsInvariant
<1>3. QED
  BY <1>1, <1>2

(* A tell: a message that is no request.                                    *)
LEMMA RequestsTell ==
    ASSUME TypeOK, RequestsInvariant, NEW id \in Id, Enqueue(id, NoSlot),
           UNCHANGED <<actor_reply_slots, asked, target, taken, throws, spawned,
                       actor_instances, frames>>
    PROVE  RequestsInvariant'
<1> DEFINE new == [ticket |-> NextTicket, actor_id |-> id, reply_slot |-> NoSlot]
<1>1. actor_mailbox' = actor_mailbox \cup {new} /\ new.reply_slot = NoSlot
  BY DEF Enqueue
<1> HIDE DEF new
<1>2. \A s : Open(s)' <=> Open(s)
  BY DEF Open
<1>3. QueuedOnce'
  BY <1>1, <1>2 DEF RequestsInvariant, QueuedOnce
<1>4. ServedOnce' /\ SlotsTell'
  BY <1>2 DEF RequestsInvariant, ServedOnce, SlotsTell
<1>5. NoneLost'
  BY <1>1, <1>2 DEF RequestsInvariant, NoneLost
<1>6. QED
  BY <1>3, <1>4, <1>5 DEF RequestsInvariant

(* An ask: the next slot, queued, or refused at once.                       *)
LEMMA RequestsAsk ==
    ASSUME TypeOK, RequestsInvariant, NEW id \in Id, Ask(id), id <= spawned
    PROVE  RequestsInvariant'
<1> USE DEF instanceVars, mailVars, slotVars, turnVars
<1>0. PICK slot : slot = asked + 1
  OBVIOUS
<1> DEFINE new == [ticket |-> NextTicket, actor_id |-> id, reply_slot |-> slot]
           stopped == actor_instances[id].stopped
<1>1. /\ asked' = slot /\ asked \in Nat /\ slot \in Slot /\ slot = asked + 1
      /\ target \in [Slot -> Id \cup {Main}]
      /\ target' = [target EXCEPT ![slot] = id]
      /\ DOMAIN actor_reply_slots = Slot
      /\ actor_reply_slots' = [actor_reply_slots EXCEPT
              ![slot] = IF stopped THEN "Unavailable" ELSE "Pending"]
      /\ UNCHANGED <<taken, throws, spawned, actor_instances, frames>>
  BY <1>0, BoundsAssumption DEF Ask, TypeOK, Slot
<1>2. stopped => actor_mailbox' = actor_mailbox
  BY DEF Ask
<1>3. /\ ~ stopped => actor_mailbox' = actor_mailbox \cup {new}
      /\ new.reply_slot = slot /\ new.actor_id = id
  BY <1>0 DEF Ask, Enqueue
<1>4. ~ Open(slot) /\ slot \notin taken
  <2>1. slot \notin 1..asked
    BY <1>1
  <2>2. slot \notin taken
    BY <1>1 DEF RequestsInvariant, SlotsTell
  <2>3. QED
    BY <2>1, <2>2 DEF Open
<1> HIDE DEF new
<1>5. ASSUME NEW s \in Slot, s # slot
      PROVE  /\ actor_reply_slots'[s] = actor_reply_slots[s]
             /\ target'[s] = target[s]
             /\ s <= asked' <=> s <= asked
             /\ Open(s)' <=> Open(s)
  <2>1. /\ actor_reply_slots'[s] = actor_reply_slots[s] /\ target'[s] = target[s]
    BY <1>1, <1>5
  <2>2. s <= asked' <=> s <= asked
    BY <1>1, <1>5 DEF Slot
  <2>3. s \in 1..asked' <=> s \in 1..asked
    BY <1>1, <1>5 DEF Slot
  <2>4. QED
    BY <1>1, <2>1, <2>2, <2>3 DEF Open
<1>6. /\ actor_reply_slots'[slot] = IF stopped THEN "Unavailable" ELSE "Pending"
      /\ target'[slot] = id
  BY <1>1
<1>7. ASSUME ~ stopped PROVE Open(slot)'
  <2>1. slot \in 1..slot
    BY <1>1 DEF Slot
  <2>2. slot \notin taken'
    BY <1>1, <1>4
  <2>3. actor_reply_slots'[slot] = "Pending"
    BY <1>6, <1>7
  <2>4. QED
    BY <1>1, <2>1, <2>2, <2>3 DEF Open
<1>8. /\ \A m \in actor_mailbox : m.reply_slot # NoSlot =>
            m.reply_slot \in Slot /\ m.reply_slot # slot
      /\ \A m \in actor_mailbox : m.reply_slot # slot
      /\ \A i \in DOMAIN frames : ~ Serves(frames[i], slot)
  <2>1. ASSUME NEW m \in actor_mailbox, m.reply_slot # NoSlot
        PROVE  m.reply_slot \in Slot /\ m.reply_slot # slot
    BY <1>4, <2>1 DEF RequestsInvariant, QueuedOnce, TypeOK, Message
  <2>2. slot # NoSlot
    BY <1>1 DEF Slot, NoSlot
  <2>3. \A i \in DOMAIN frames : ~ Serves(frames[i], slot)
    BY <1>1, <1>4 DEF RequestsInvariant, ServedOnce
  <2>4. QED
    BY <2>1, <2>2, <2>3
<1>9. QueuedOnce'
  <2> SUFFICES ASSUME NEW m \in actor_mailbox', m.reply_slot # NoSlot
               PROVE  /\ Open(m.reply_slot)' /\ target'[m.reply_slot] = m.actor_id
                      /\ \A n \in actor_mailbox' : n.reply_slot = m.reply_slot => n = m
                      /\ \A i \in DOMAIN frames' : ~ Serves(frames'[i], m.reply_slot)
    BY DEF QueuedOnce
  <2>1. CASE m \in actor_mailbox
    <3>1. /\ Open(m.reply_slot) /\ target[m.reply_slot] = m.actor_id
          /\ \A n \in actor_mailbox : n.reply_slot = m.reply_slot => n = m
          /\ \A i \in DOMAIN frames : ~ Serves(frames[i], m.reply_slot)
      BY <2>1 DEF RequestsInvariant, QueuedOnce
    <3>2. m.reply_slot \in Slot /\ m.reply_slot # slot
      BY <1>8, <2>1
    <3>3. \A n \in actor_mailbox' : n.reply_slot = m.reply_slot => n \in actor_mailbox
      BY <1>2, <1>3, <3>2
    <3>4. QED
      BY <1>1, <1>5, <3>1, <3>2, <3>3
  <2>2. CASE m \notin actor_mailbox
    <3>1. ~ stopped /\ m = new /\ m.reply_slot = slot /\ m.actor_id = id
      BY <1>2, <1>3, <2>2
    <3>2. \A n \in actor_mailbox' : n.reply_slot = slot => n = m
      BY <1>2, <1>3, <1>8, <3>1
    <3>3. \A i \in DOMAIN frames' : ~ Serves(frames'[i], slot)
      BY <1>1, <1>8
    <3>4. Open(slot)' /\ target'[slot] = id
      BY <1>6, <1>7, <3>1
    <3>5. QED
      BY <3>1, <3>2, <3>3, <3>4
  <2>3. QED
    BY <2>1, <2>2
<1>10. ServedOnce'
  <2> SUFFICES ASSUME NEW i \in DOMAIN frames, NEW s \in Slot, Serves(frames[i], s)
               PROVE  /\ Open(s)' /\ target'[s] = frames[i].actor_id
                      /\ \A j \in DOMAIN frames : Serves(frames[j], s) => i = j
    BY <1>1 DEF ServedOnce
  <2>1. s # slot
    BY <1>8
  <2>2. QED
    BY <1>5, <2>1 DEF RequestsInvariant, ServedOnce
<1>11. SlotsTell'
  <2> SUFFICES ASSUME NEW s \in Slot
               PROVE  /\ s \in taken => s <= asked' /\ actor_reply_slots'[s] = "Pending"
                      /\ s <= asked' <=> actor_reply_slots'[s] # "Unused"
                      /\ actor_reply_slots'[s] = "Unavailable" =>
                           /\ target'[s] \in 1..spawned
                           /\ actor_instances[target'[s]].stopped
    BY <1>1 DEF SlotsTell
  <2>1. CASE s = slot
    <3>1. s <= asked' /\ s \notin taken
      BY <1>1, <1>4, <2>1 DEF Slot
    <3>2. id \in 1..spawned
      BY DEF Id, TypeOK
    <3>3. QED
      BY <1>6, <2>1, <3>1, <3>2
  <2>2. CASE s # slot
    BY <1>5, <2>2 DEF RequestsInvariant, SlotsTell
  <2>3. QED
    BY <2>1, <2>2
<1>12. NoneLost'
  <2> SUFFICES ASSUME NEW s \in Slot, throws = 0, Open(s)'
               PROVE  \/ \E m \in actor_mailbox' : m.reply_slot = s
                      \/ \E i \in DOMAIN frames : Serves(frames[i], s)
    BY <1>1 DEF NoneLost
  <2>1. CASE s = slot
    <3>1. ~ stopped
      BY <1>6, <2>1 DEF Open
    <3>2. QED
      BY <1>3, <2>1, <3>1
  <2>2. CASE s # slot
    BY <1>2, <1>3, <1>5, <2>2 DEF RequestsInvariant, NoneLost
  <2>3. QED
    BY <2>1, <2>2
<1>13. QED
  BY <1>9, <1>10, <1>11, <1>12 DEF RequestsInvariant

(* A reply is consumed.                                                     *)
LEMMA RequestsTake ==
    ASSUME TypeOK, RequestsInvariant, NEW slot \in Slot, NEW f, TakeReply(slot, f),
           actor_reply_slots[slot] = "Filled", SameService(frames, WithTop(f))
    PROVE  RequestsInvariant'
<1> USE DEF instanceVars, mailVars, slotVars, turnVars
<1>1. /\ actor_reply_slots' = [actor_reply_slots EXCEPT ![slot] = "Pending"]
      /\ taken' = taken \cup {slot} /\ SameService(frames, frames')
      /\ UNCHANGED <<actor_mailbox, asked, target, throws, spawned, actor_instances>>
      /\ DOMAIN actor_reply_slots = Slot
  BY DEF TakeReply, AfterTake, TypeOK
<1>2. ASSUME NEW s \in Slot, s # slot
      PROVE  /\ actor_reply_slots'[s] = actor_reply_slots[s]
             /\ s \in taken' <=> s \in taken
             /\ Open(s)' <=> Open(s)
  <2>1. actor_reply_slots'[s] = actor_reply_slots[s] /\ (s \in taken' <=> s \in taken)
    BY <1>1, <1>2
  <2>2. QED
    BY <1>1, <2>1 DEF Open
<1>3. ~ Open(slot) /\ ~ Open(slot)'
  BY <1>1 DEF Open
<1>4. \A s \in Slot : Open(s)' <=> Open(s)
  BY <1>2, <1>3
<1>5. QueuedOnce'
  <2> SUFFICES ASSUME NEW m \in actor_mailbox, m.reply_slot # NoSlot
               PROVE  /\ Open(m.reply_slot)' /\ target[m.reply_slot] = m.actor_id
                      /\ \A n \in actor_mailbox : n.reply_slot = m.reply_slot => n = m
                      /\ \A i \in DOMAIN frames' : ~ Serves(frames'[i], m.reply_slot)
    BY <1>1 DEF QueuedOnce
  <2>1. m.reply_slot \in Slot
    BY DEF TypeOK, Message
  <2>2. QED
    BY <1>1, <1>4, <2>1 DEF RequestsInvariant, QueuedOnce, SameService, LessService
<1>6. ServedOnce'
  <2> SUFFICES ASSUME NEW i \in DOMAIN frames', NEW s \in Slot, Serves(frames'[i], s)
               PROVE  /\ Open(s)' /\ target[s] = frames'[i].actor_id
                      /\ \A j \in DOMAIN frames' : Serves(frames'[j], s) => i = j
    BY <1>1 DEF ServedOnce
  <2>1. i \in DOMAIN frames /\ Serves(frames[i], s)
        /\ frames'[i].actor_id = frames[i].actor_id
    BY <1>1 DEF SameService, LessService
  <2>2. \A j \in DOMAIN frames' :
           Serves(frames'[j], s) => j \in DOMAIN frames /\ Serves(frames[j], s)
    BY <1>1 DEF SameService, LessService
  <2>3. QED
    BY <1>4, <2>1, <2>2 DEF RequestsInvariant, ServedOnce
<1>7. SlotsTell'
  <2> SUFFICES ASSUME NEW s \in Slot
               PROVE  /\ s \in taken' => s <= asked /\ actor_reply_slots'[s] = "Pending"
                      /\ s <= asked <=> actor_reply_slots'[s] # "Unused"
                      /\ actor_reply_slots'[s] = "Unavailable" =>
                           /\ target[s] \in 1..spawned
                           /\ actor_instances[target[s]].stopped
    BY <1>1 DEF SlotsTell
  <2>1. /\ s \in taken => s <= asked /\ actor_reply_slots[s] = "Pending"
        /\ s <= asked <=> actor_reply_slots[s] # "Unused"
        /\ actor_reply_slots[s] = "Unavailable" =>
             /\ target[s] \in 1..spawned
             /\ actor_instances[target[s]].stopped
    BY DEF RequestsInvariant, SlotsTell
  <2>2. CASE s = slot
    BY <1>1, <2>1, <2>2
  <2>3. CASE s # slot
    BY <1>2, <2>1, <2>3
  <2>4. QED
    BY <2>2, <2>3
<1>8. NoneLost'
  BY <1>1, <1>4 DEF RequestsInvariant, NoneLost, SameService
<1>9. QED
  BY <1>5, <1>6, <1>7, <1>8 DEF RequestsInvariant

(* A queued message becomes a turn, which serves its request.               *)
LEMMA RequestsServe ==
    ASSUME TypeOK, RequestsInvariant, NEW m \in actor_mailbox, Dispatch(m)
    PROVE  RequestsInvariant'
<1> USE DEF instanceVars, mailVars, slotVars, turnVars
<1> DEFINE n == Len(frames)
<1>1. /\ m.actor_id \in Id /\ m.reply_slot \in Slot \cup {NoSlot}
      /\ frames \in Seq(Frame)
  BY DEF TypeOK, Message
<1>2. TurnBegins(m.actor_id, "turn", m.reply_slot, actor_instances, frames)
  <2>1. actor_instances \in [Id -> Instance]
    BY DEF TypeOK
  <2>2. QED
    BY <1>1, <2>1 DEF Dispatch, TurnBegins
<1>3. /\ DOMAIN frames = 1..n /\ DOMAIN frames' = 1..(n + 1) /\ n \in Nat
      /\ \A i \in 1..n : frames'[i] = frames[i]
      /\ frames'[n + 1].slot = m.reply_slot /\ frames'[n + 1].actor_id = m.actor_id
      /\ frames'[n + 1].phase = "body"
  <2>1. /\ frames' \in Seq(Frame) /\ Len(frames') = Len(frames) + 1
        /\ Len(frames) \in Nat
        /\ \A i \in 1..Len(frames) : frames'[i] = frames[i]
        /\ frames'[Len(frames) + 1].slot = m.reply_slot
        /\ frames'[Len(frames) + 1].actor_id = m.actor_id
        /\ frames'[Len(frames) + 1].phase = "body"
    BY <1>2, PushShape
  <2>2. QED
    BY <1>1, <2>1, LenProperties
<1> HIDE DEF n
<1>4. PICK k : k = n + 1
  OBVIOUS
<1>5. /\ \A i \in 1..k : i # k => i \in 1..n
      /\ \A i \in 1..n : i \in 1..k /\ i # k
      /\ k \in 1..k
  BY <1>3, <1>4
<1>6. /\ DOMAIN frames' = 1..k
      /\ \A s : Serves(frames'[k], s) <=> s = m.reply_slot
      /\ \A i \in 1..n : frames'[i] = frames[i]
      /\ frames'[k].actor_id = m.actor_id
  BY <1>3, <1>4 DEF Serves
<1>7. /\ UNCHANGED <<actor_reply_slots, asked, target, taken, throws, spawned>>
      /\ actor_mailbox' = actor_mailbox \ {m}
      /\ \A id \in Id : actor_instances'[id].stopped = actor_instances[id].stopped
  <2>1. /\ UNCHANGED <<actor_reply_slots, asked, target, taken, throws, spawned>>
        /\ actor_mailbox' = actor_mailbox \ {m}
        /\ actor_instances' = [actor_instances EXCEPT ![m.actor_id].state = Taken]
    BY DEF Dispatch, BeginTurn
  <2>2. ASSUME NEW id \in Id
        PROVE  actor_instances'[id].stopped = actor_instances[id].stopped
    <3>1. actor_instances[id] \in Instance /\ DOMAIN actor_instances = Id
      BY DEF TypeOK
    <3>2. QED
      BY <2>1, <3>1 DEF Instance
  <2>3. QED
    BY <2>1, <2>2
<1>8. \A s : Open(s)' <=> Open(s)
  BY <1>7 DEF Open
<1>9. QueuedOnce'
  <2> SUFFICES ASSUME NEW q \in actor_mailbox', q.reply_slot # NoSlot
               PROVE  /\ Open(q.reply_slot) /\ target[q.reply_slot] = q.actor_id
                      /\ \A p \in actor_mailbox' : p.reply_slot = q.reply_slot => p = q
                      /\ \A i \in DOMAIN frames' : ~ Serves(frames'[i], q.reply_slot)
    BY <1>7, <1>8 DEF QueuedOnce
  <2>1. q \in actor_mailbox /\ q # m
    BY <1>7
  <2>2. /\ Open(q.reply_slot) /\ target[q.reply_slot] = q.actor_id
        /\ \A p \in actor_mailbox : p.reply_slot = q.reply_slot => p = q
        /\ \A i \in DOMAIN frames : ~ Serves(frames[i], q.reply_slot)
    BY <2>1 DEF RequestsInvariant, QueuedOnce
  <2>3. m.reply_slot # q.reply_slot
    BY <2>1, <2>2
  <2>4. QED
    BY <1>3, <1>5, <1>6, <1>7, <2>2, <2>3
<1>10. ServedOnce'
  <2> SUFFICES ASSUME NEW i \in 1..k, NEW s \in Slot, Serves(frames'[i], s)
               PROVE  /\ Open(s) /\ target[s] = frames'[i].actor_id
                      /\ \A j \in 1..k : Serves(frames'[j], s) => i = j
    BY <1>6, <1>7, <1>8 DEF ServedOnce
  <2>1. CASE s = m.reply_slot
    <3>1. /\ Open(s) /\ target[s] = m.actor_id
          /\ \A j \in DOMAIN frames : ~ Serves(frames[j], s)
      BY <2>1 DEF RequestsInvariant, QueuedOnce, Slot, NoSlot
    <3>2. \A j \in 1..k : Serves(frames'[j], s) => j = k
      BY <1>3, <1>5, <1>6, <3>1
    <3>3. QED
      BY <1>6, <3>1, <3>2
  <2>2. CASE s # m.reply_slot
    <3>1. \A j \in 1..k : Serves(frames'[j], s) =>
             j \in DOMAIN frames /\ frames'[j] = frames[j]
      BY <1>3, <1>5, <1>6, <2>2
    <3>2. QED
      BY <3>1 DEF RequestsInvariant, ServedOnce
  <2>3. QED
    BY <2>1, <2>2
<1>11. SlotsTell'
  <2>1. \A id \in 1..spawned : id \in Id
    BY BoundsAssumption DEF TypeOK, Id
  <2>2. QED
    BY <1>7, <2>1 DEF RequestsInvariant, SlotsTell
<1>12. NoneLost'
  <2> SUFFICES ASSUME NEW s \in Slot, throws = 0, Open(s)
               PROVE  \/ \E q \in actor_mailbox' : q.reply_slot = s
                      \/ \E i \in 1..k : Serves(frames'[i], s)
    BY <1>6, <1>7, <1>8 DEF NoneLost
  <2>1. CASE s = m.reply_slot
    BY <1>5, <1>6, <2>1
  <2>2. CASE s # m.reply_slot
    <3>1. \/ \E q \in actor_mailbox : q.reply_slot = s
          \/ \E i \in 1..n : Serves(frames[i], s)
      BY <1>3 DEF RequestsInvariant, NoneLost
    <3>2. QED
      BY <1>5, <1>6, <1>7, <2>2, <3>1
  <2>3. QED
    BY <2>1, <2>2
<1>13. QED
  BY <1>9, <1>10, <1>11, <1>12 DEF RequestsInvariant

(* The stack after a reply is published: the top frame, which served it, no   *)
(* longer does.                                                            *)
LEMMA PublishedStack ==
    ASSUME TypeOK, PublishReply
    PROVE  /\ frames # << >> /\ Top \in Frame /\ Top.phase = "reply"
           /\ \A i \in DOMAIN frames' : \A s \in Slot : Serves(frames'[i], s) =>
                 i \in DOMAIN frames /\ frames'[i] = frames[i] /\ i # Len(frames)
           /\ \A i \in DOMAIN frames : i # Len(frames) =>
                 i \in DOMAIN frames' /\ frames'[i] = frames[i]
           /\ Len(frames) \in DOMAIN frames /\ Top = frames[Len(frames)]
<1> DEFINE n == Len(frames)  f == [Top EXCEPT !.phase = "supervise"]
<1>1. frames # << >> /\ Top \in Frame /\ Top.phase = "reply" /\ Top.kind = "turn"
  BY TopIsFrame DEF PublishReply, TopIs
<1>2. f \in Frame /\ f.phase = "supervise"
  BY <1>1 DEF Frame, FrameRecord, Live
<1>3. frames' = WithTop(f) \/ frames' = Popped
  BY DEF PublishReply
<1> HIDE DEF f
<1>4. /\ DOMAIN frames = 1..n /\ n \in Nat \ {0} /\ Top = frames[n]
      /\ DOMAIN Popped = 1..(n - 1) /\ DOMAIN WithTop(f) = 1..n
      /\ \A i \in 1..(n - 1) : Popped[i] = frames[i]
      /\ \A i \in 1..n : WithTop(f)[i] = IF i = n THEN f ELSE frames[i]
  BY <1>1, <1>2, TopIsFrame, LenProperties DEF TypeOK
<1> HIDE DEF n
<1>5. /\ \A i \in 1..(n - 1) : i \in 1..n /\ i # n
      /\ \A i \in 1..n : i # n => i \in 1..(n - 1)
      /\ n \in 1..n
  BY <1>4
<1>6. \A s \in Slot : ~ Serves(f, s)
  BY <1>2 DEF Serves
<1>7. CASE frames' = WithTop(f)
  BY <1>1, <1>4, <1>5, <1>6, <1>7 DEF n
<1>8. CASE frames' = Popped
  BY <1>1, <1>4, <1>5, <1>8 DEF n
<1>9. QED
  BY <1>3, <1>7, <1>8

(* A reply is published.                                                    *)
LEMMA RequestsPublish ==
    ASSUME TypeOK, RequestsInvariant, PublishReply
    PROVE  RequestsInvariant'
<1> USE DEF instanceVars, mailVars, slotVars, turnVars
<1>0. PICK slot, n : slot = Top.slot /\ n = Len(frames)
  OBVIOUS
<1>1. /\ slot \in Slot \cup {NoSlot} /\ n \in DOMAIN frames
      /\ slot \in Slot => Serves(frames[n], slot)
      /\ \A s \in Slot : Serves(frames[n], s) => s = slot
  BY <1>0, PublishedStack DEF Frame, FrameRecord, Serves
<1>2. /\ UNCHANGED <<actor_mailbox, asked, target, taken, throws, spawned,
                     actor_instances>>
      /\ DOMAIN actor_reply_slots = Slot
      /\ actor_reply_slots' = IF slot = NoSlot THEN actor_reply_slots
                              ELSE [actor_reply_slots EXCEPT ![slot] = "Filled"]
  BY <1>0 DEF PublishReply, TypeOK
<1>3. /\ \A i \in DOMAIN frames' : \A s \in Slot : Serves(frames'[i], s) =>
            i \in DOMAIN frames /\ frames'[i] = frames[i] /\ i # n
      /\ \A i \in DOMAIN frames : i # n =>
            i \in DOMAIN frames' /\ frames'[i] = frames[i]
  BY <1>0, PublishedStack
<1>4. \A s \in Slot : s # NoSlot
  BY DEF Slot, NoSlot
<1>5. ASSUME NEW s \in Slot, s # slot
      PROVE  actor_reply_slots'[s] = actor_reply_slots[s] /\ (Open(s)' <=> Open(s))
  <2>1. actor_reply_slots'[s] = actor_reply_slots[s]
    BY <1>2, <1>5
  <2>2. QED
    BY <1>2, <2>1 DEF Open
<1>6. slot \in Slot => /\ Open(slot) /\ \A m \in actor_mailbox : m.reply_slot # slot
                       /\ \A i \in DOMAIN frames' : ~ Serves(frames'[i], slot)
                       /\ actor_reply_slots'[slot] = "Filled" /\ ~ Open(slot)'
  <2>1. SUFFICES ASSUME slot \in Slot
                 PROVE  /\ Open(slot) /\ \A m \in actor_mailbox : m.reply_slot # slot
                        /\ \A i \in DOMAIN frames' : ~ Serves(frames'[i], slot)
                        /\ actor_reply_slots'[slot] = "Filled" /\ ~ Open(slot)'
    OBVIOUS
  <2>2. Open(slot) /\ \A i \in DOMAIN frames : Serves(frames[i], slot) => i = n
    BY <1>1, <2>1 DEF RequestsInvariant, ServedOnce
  <2>3. \A m \in actor_mailbox : m.reply_slot # slot
    BY <1>1, <1>4, <2>1 DEF RequestsInvariant, QueuedOnce
  <2>4. actor_reply_slots'[slot] = "Filled"
    BY <1>2, <1>4, <2>1
  <2>5. ~ Open(slot)'
    BY <2>4 DEF Open
  <2>6. \A i \in DOMAIN frames' : ~ Serves(frames'[i], slot)
    BY <1>3, <2>1, <2>2
  <2>7. QED
    BY <2>2, <2>3, <2>4, <2>5, <2>6
<1>7. QueuedOnce'
  <2> SUFFICES ASSUME NEW m \in actor_mailbox, m.reply_slot # NoSlot
               PROVE  /\ Open(m.reply_slot)' /\ target[m.reply_slot] = m.actor_id
                      /\ \A p \in actor_mailbox : p.reply_slot = m.reply_slot => p = m
                      /\ \A i \in DOMAIN frames' : ~ Serves(frames'[i], m.reply_slot)
    BY <1>2 DEF QueuedOnce
  <2>1. /\ Open(m.reply_slot) /\ target[m.reply_slot] = m.actor_id
        /\ \A p \in actor_mailbox : p.reply_slot = m.reply_slot => p = m
        /\ \A i \in DOMAIN frames : ~ Serves(frames[i], m.reply_slot)
    BY DEF RequestsInvariant, QueuedOnce
  <2>2. m.reply_slot \in Slot /\ m.reply_slot # slot
    BY <1>6 DEF TypeOK, Message
  <2>3. QED
    BY <1>3, <1>5, <2>1, <2>2
<1>8. ServedOnce'
  <2> SUFFICES ASSUME NEW i \in DOMAIN frames', NEW s \in Slot, Serves(frames'[i], s)
               PROVE  /\ Open(s)' /\ target[s] = frames'[i].actor_id
                      /\ \A j \in DOMAIN frames' : Serves(frames'[j], s) => i = j
    BY <1>2 DEF ServedOnce
  <2>1. s # slot
    BY <1>6
  <2>2. QED
    BY <1>3, <1>5, <2>1 DEF RequestsInvariant, ServedOnce
<1>9. SlotsTell'
  <2> SUFFICES ASSUME NEW s \in Slot
               PROVE  /\ s \in taken => s <= asked /\ actor_reply_slots'[s] = "Pending"
                      /\ s <= asked <=> actor_reply_slots'[s] # "Unused"
                      /\ actor_reply_slots'[s] = "Unavailable" =>
                           /\ target[s] \in 1..spawned
                           /\ actor_instances[target[s]].stopped
    BY <1>2 DEF SlotsTell
  <2>1. CASE s = slot
    <3>1. Open(slot) /\ actor_reply_slots'[slot] = "Filled"
      BY <1>6, <2>1
    <3>2. s <= asked /\ s \notin taken
      BY <2>1, <3>1 DEF Open, RequestsInvariant, SlotsTell
    <3>3. QED
      BY <2>1, <3>1, <3>2
  <2>2. CASE s # slot
    BY <1>5, <2>2 DEF RequestsInvariant, SlotsTell
  <2>3. QED
    BY <2>1, <2>2
<1>10. NoneLost'
  <2> SUFFICES ASSUME NEW s \in Slot, throws = 0, Open(s)'
               PROVE  \/ \E m \in actor_mailbox : m.reply_slot = s
                      \/ \E i \in DOMAIN frames' : Serves(frames'[i], s)
    BY <1>2 DEF NoneLost
  <2>1. s # slot /\ Open(s)
    BY <1>5, <1>6
  <2>2. \/ \E m \in actor_mailbox : m.reply_slot = s
        \/ \E i \in DOMAIN frames : Serves(frames[i], s)
    BY <2>1 DEF RequestsInvariant, NoneLost
  <2>3. QED
    BY <1>1, <1>3, <2>1, <2>2
<1>11. QED
  BY <1>7, <1>8, <1>9, <1>10 DEF RequestsInvariant

(* A restart begins above a stack that serves the same requests.            *)
LEMMA SameServiceRestart ==
    ASSUME TypeOK, NEW id \in Id, NEW below \in Seq(Frame), RestartActor(id, below),
           SameService(frames, below)
    PROVE  SameService(frames, frames')
<1> DEFINE instances == [actor_instances EXCEPT ![id].state = incarnation[id] + 1]
<1>1. incarnation[id] + 1 \in Nat
  BY DEF TypeOK
<1>2. instances \in [Id -> Instance]
  BY <1>1, StateType DEF TypeOK
<1>3. TurnBegins(id, "restart", NoSlot, instances, below)
  BY <1>2 DEF RestartActor, TurnBegins
<1> HIDE DEF instances
<1>4. QED
  BY <1>3, SameServiceTurn, SameServiceTrans

(* Only a message's turn that begins, a reply and an error change who serves  *)
(* what.                                                                   *)
LEMMA ServiceBody ==
    ASSUME TypeOK, StackInvariant, StackDiscipline, Body,
           \A k \in 0..Len(frames) : ~ Throw(k)
    PROVE  SameService(frames, frames')
<1> USE DEF instanceVars, mailVars, slotVars, turnVars
<1>1. ASSUME UNCHANGED frames PROVE SameService(frames, frames')
  BY <1>1, SameServiceRefl
<1>2. ASSUME NEW policy \in Policies, Spawn(policy) PROVE SameService(frames, frames')
  <2> DEFINE id == spawned + 1
             new == [supervisor |-> current_actor, policy |-> policy,
                     stopped |-> FALSE, state |-> 1]
             instances == [actor_instances EXCEPT ![id] = new]
  <2>1. id \in Id
    BY <1>2, BoundsAssumption DEF Spawn, TypeOK, Id
  <2>2. new \in Instance
    BY PoliciesAssumption DEF Instance, TypeOK
  <2>3. instances \in [Id -> Instance] /\ frames \in Seq(Frame)
    BY <2>1, <2>2 DEF TypeOK
  <2>4. TurnBegins(id, "init", NoSlot, instances, frames)
    BY <1>2, <2>1, <2>3 DEF Spawn, TurnBegins
  <2> HIDE DEF id, new, instances
  <2>5. QED
    BY <2>4, SameServiceTurn
<1>3. ASSUME NEW ss \in Futures, NEW phase \in {"await", "select"}, Wait(phase, ss)
      PROVE  SameService(frames, frames')
  <2> DEFINE f == [Top EXCEPT !.phase = phase, !.awaiting = ss]
  <2>1. frames # << >> /\ Top \in Frame /\ Top.phase = "body" /\ frames' = WithTop(f)
    BY <1>3, TopIsFrame DEF Wait, TopIs
  <2>2. f \in Frame
    BY <1>3, <2>1, FuturesType DEF Frame, FrameRecord, Live
  <2>3. f.actor_id = Top.actor_id /\ f.slot = Top.slot /\ f.phase = phase
    BY <2>1 DEF Frame, FrameRecord
  <2> HIDE DEF f
  <2>4. QED
    BY <2>1, <2>2, <2>3, SameServiceTop
<1>4. ASSUME NEW reply \in {"ok", "err"}, EndTurn(reply)
      PROVE  SameService(frames, frames')
  <2> DEFINE f == [Top EXCEPT !.phase = "ended", !.reply = reply]
  <2>1. /\ frames # << >> /\ Top \in Frame /\ Top.phase = "body" /\ Top.kind # "main"
        /\ frames' = WithTop(f)
    BY <1>4, TopIsFrame DEF EndTurn, TopIs
  <2>2. f \in Frame
    BY <2>1 DEF Frame, FrameRecord
  <2>3. f.actor_id = Top.actor_id /\ f.slot = Top.slot /\ f.phase = "ended"
    BY <2>1 DEF Frame, FrameRecord
  <2> HIDE DEF f
  <2>4. QED
    BY <2>1, <2>2, <2>3, SameServiceTop
<1>5. EndMain => SameService(frames, frames')
  <2> SUFFICES ASSUME EndMain PROVE SameService(frames, frames')
    OBVIOUS
  <2>1. frames # << >> /\ Top.kind = "main" /\ frames' = << >>
    BY DEF EndMain, TopIs
  <2>2. DOMAIN frames = {1} /\ Top = frames[1]
    BY <2>1, MainIsAlone
  <2>3. Top.slot = NoSlot
    BY <2>1, TopOrderly DEF Orderly
  <2>4. DOMAIN << >> = {}
    OBVIOUS
  <2>5. QED
    BY <2>1, <2>2, <2>3, <2>4 DEF SameService, LessService, Serves, Slot, NoSlot
<1>6. QED
  BY <1>1, <1>2, <1>3, <1>4, <1>5 DEF Body, Await, Select, Tell, Ask,
     SelectNothing, EndTurnOnTakenState, Fail

LEMMA ServicePump ==
    ASSUME TypeOK, Pump, \A m \in actor_mailbox : ~ Dispatch(m)
    PROVE  SameService(frames, frames')
<1> USE DEF instanceVars, mailVars, slotVars, turnVars
<1>1. AwaitTakes => SameService(frames, frames')
  <2> SUFFICES ASSUME AwaitTakes PROVE SameService(frames, frames')
    OBVIOUS
  <2> DEFINE rest == Tail(Top.awaiting)
             f == [Top EXCEPT !.phase = IF rest = << >> THEN "body" ELSE "await",
                              !.awaiting = rest]
  <2>1. frames # << >> /\ Top \in Frame /\ Top.phase = "await"
    BY TopIsFrame DEF AwaitTakes, TopIs
  <2>2. /\ f \in Frame
        /\ f.actor_id = Top.actor_id /\ f.slot = Top.slot /\ f.phase \in {"body", "await"}
    BY <2>1, AwaitedFrame
  <2>3. frames' = WithTop(f)
    BY DEF AwaitTakes, TakeReply
  <2> HIDE DEF f, rest
  <2>4. QED
    BY <2>1, <2>2, <2>3, SameServiceTop
<1>2. SelectTakes => SameService(frames, frames')
  <2> SUFFICES ASSUME SelectTakes PROVE SameService(frames, frames')
    OBVIOUS
  <2> DEFINE f == [Top EXCEPT !.phase = "body", !.awaiting = << >>]
  <2>1. frames # << >> /\ Top \in Frame /\ Top.phase = "select" /\ frames' = WithTop(f)
    BY TopIsFrame DEF SelectTakes, TopIs, TakeReply
  <2>2. << >> \in Seq(Slot)
    BY EmptySeq
  <2>3. f \in Frame
    BY <2>1, <2>2 DEF Frame, FrameRecord, Live
  <2>4. f.actor_id = Top.actor_id /\ f.slot = Top.slot /\ f.phase = "body"
    BY <2>1 DEF Frame, FrameRecord
  <2> HIDE DEF f
  <2>5. QED
    BY <2>1, <2>3, <2>4, SameServiceTop
<1>3. QED
  BY <1>1, <1>2, SameServiceRefl DEF Pump, AwaitUnavailable, SelectUnavailable,
     Stall, DrainEnds, Fail

LEMMA ServiceSupervision ==
    ASSUME TypeOK, StackDiscipline, Supervision, ~ PublishReply
    PROVE  SameService(frames, frames')
<1> USE DEF instanceVars, mailVars, slotVars, turnVars
<1>1. ASSUME NEW phase \in {"ended", "reply", "supervise"}, TopIs(phase)
      PROVE  /\ frames # << >> /\ Top \in Frame /\ Top.phase = phase
             /\ Top.actor_id \in Id /\ Top.cursor \in Id
             /\ Top.kind # "turn" => Top.slot = NoSlot
  <2>1. frames # << >> /\ Top \in Frame /\ Top.phase = phase /\ Orderly(Top, asked)
    BY <1>1, TopIsFrame, TopOrderly DEF TopIs
  <2>2. QED
    BY <2>1 DEF Frame, FrameRecord, Orderly, Live
<1>2. ASSUME TopIs("ended")
      PROVE  /\ WithTop([Top EXCEPT !.phase = "reply"]) \in Seq(Frame)
             /\ SameService(frames, WithTop([Top EXCEPT !.phase = "reply"]))
  <2> DEFINE f == [Top EXCEPT !.phase = "reply"]
  <2>1. frames # << >> /\ Top \in Frame /\ Top.phase = "ended"
    BY <1>1, <1>2
  <2>2. f \in Frame
    BY <2>1 DEF Frame, FrameRecord, Live
  <2>3. f.actor_id = Top.actor_id /\ f.slot = Top.slot /\ f.phase = "reply"
    BY <2>1 DEF Frame, FrameRecord
  <2> HIDE DEF f
  <2>4. WithTop(f) \in Seq(Frame) /\ SameService(frames, WithTop(f))
    BY <2>1, <2>2, <2>3, TopIsFrame, SameServiceTop
  <2>5. QED
    BY <2>4 DEF f
<1>3. NoDeferred \/ DeferredStop => SameService(frames, frames')
  BY <1>2 DEF NoDeferred, DeferredStop
<1>4. DeferredRestart => SameService(frames, frames')
  BY <1>1, <1>2, SameServiceRestart DEF DeferredRestart
<1>5. ASSUME TopIs("supervise")
      PROVE  Popped \in Seq(Frame) /\ SameService(frames, Popped)
  BY <1>1, <1>5, TopIsFrame, SameServicePop
<1>6. SuperviseRestart => SameService(frames, frames')
  BY <1>1, <1>5, SameServiceRestart DEF SuperviseRestart
<1>7. Unsupervised \/ SuperviseRestartDeferred \/ SuperviseStop
      => SameService(frames, frames')
  BY <1>5 DEF Unsupervised, SuperviseRestartDeferred, SuperviseStop
<1>8. SpawnReturns \/ RestartReturns => SameService(frames, frames')
  <2> SUFFICES ASSUME SpawnReturns \/ RestartReturns PROVE SameService(frames, frames')
    OBVIOUS
  <2>1. TopIs("reply") /\ Top.kind # "turn" /\ frames' = Popped
    BY DEF SpawnReturns, RestartReturns
  <2>2. frames # << >> /\ Top.slot = NoSlot
    BY <1>1, <2>1
  <2>3. QED
    BY <2>1, <2>2, SameServicePop
<1>9. Escalate => SameService(frames, frames')
  <2> SUFFICES ASSUME Escalate PROVE SameService(frames, frames')
    OBVIOUS
  <2> DEFINE supervisor == actor_instances[Top.cursor].supervisor
             f == [Top EXCEPT !.cursor = supervisor]
  <2>1. /\ TopIs("supervise")
        /\ supervisor = Main => UNCHANGED frames
        /\ supervisor # Main => frames' = WithTop(f)
    BY DEF Escalate
  <2>2. frames # << >> /\ Top \in Frame /\ Top.phase = "supervise" /\ Top.cursor \in Id
    BY <1>1, <2>1
  <2>3. CASE supervisor = Main
    BY <2>1, <2>3, SameServiceRefl
  <2>4. CASE supervisor # Main
    <3>1. supervisor \in Id
      BY <2>2, <2>4 DEF TypeOK, Instance
    <3>2. f \in Frame
      BY <2>2, <3>1, CursorFrame
    <3>3. f.actor_id = Top.actor_id /\ f.slot = Top.slot /\ f.phase = Top.phase
      BY <2>2, <3>1, CursorFrame
    <3> HIDE DEF f
    <3>4. QED
      BY <2>1, <2>2, <2>4, <3>2, <3>3, SameServiceTop
  <2>5. QED
    BY <2>3, <2>4
<1>10. QED
  BY <1>3, <1>4, <1>6, <1>7, <1>8, <1>9, SameServiceRefl
     DEF Supervision, DeferredRestartLoops, EscalatedToUnsupervised, Fail

-----------------------------------------------------------------------------
(* What the steps do to who has stopped.                                   *)

StopsNobody ==
    \A id \in Id : actor_instances'[id].stopped = actor_instances[id].stopped

LEMMA StateStopsNobody ==
    ASSUME NEW I \in [Id -> Instance], NEW id \in Id, NEW x, NEW a \in Id
    PROVE  [I EXCEPT ![id].state = x][a].stopped = I[a].stopped
<1>1. I[a] \in Instance /\ I[id] \in Instance
  OBVIOUS
<1>2. CASE a = id
  BY <1>1, <1>2 DEF Instance
<1>3. CASE a # id
  BY <1>3
<1>4. QED
  BY <1>2, <1>3

LEMMA RestartStopsNobody ==
    ASSUME TypeOK, NEW id \in Id, NEW below, RestartActor(id, below)
    PROVE  StopsNobody
<1> DEFINE instances == [actor_instances EXCEPT ![id].state = incarnation[id] + 1]
<1>1. incarnation[id] + 1 \in Nat /\ actor_instances \in [Id -> Instance]
  BY DEF TypeOK
<1>2. instances \in [Id -> Instance]
  BY <1>1, StateType
<1>3. \A a \in Id : instances[a].stopped = actor_instances[a].stopped
  BY <1>1, StateStopsNobody
<1>4. actor_instances' = [instances EXCEPT ![id].state = Taken]
  BY DEF RestartActor, BeginTurn
<1> HIDE DEF instances
<1>5. \A a \in Id : actor_instances'[a].stopped = instances[a].stopped
  BY <1>2, <1>4, StateStopsNobody
<1>6. QED
  BY <1>3, <1>5 DEF StopsNobody

LEMMA SpawnStopsNobody ==
    ASSUME TypeOK, NEW policy \in Policies, Spawn(policy)
    PROVE  /\ spawned + 1 \in Id /\ spawned' = spawned + 1
           /\ ~ actor_instances'[spawned + 1].stopped
           /\ \A id \in Id : id # spawned + 1 =>
                 actor_instances'[id].stopped = actor_instances[id].stopped
<1> DEFINE id == spawned + 1
           new == [supervisor |-> current_actor, policy |-> policy,
                   stopped |-> FALSE, state |-> 1]
           instances == [actor_instances EXCEPT ![id] = new]
<1>1. id \in Id /\ spawned' = spawned + 1
  BY BoundsAssumption DEF Spawn, TypeOK, Id
<1>2. new \in Instance /\ ~ new.stopped
  BY PoliciesAssumption DEF Instance, TypeOK
<1> HIDE DEF new
<1>3. /\ instances \in [Id -> Instance] /\ ~ instances[id].stopped
      /\ \A a \in Id : a # id => instances[a] = actor_instances[a]
  BY <1>1, <1>2 DEF TypeOK
<1>4. actor_instances' = [instances EXCEPT ![id].state = Taken]
  BY DEF Spawn, BeginTurn, new
<1> HIDE DEF instances
<1>5. \A a \in Id : actor_instances'[a].stopped = instances[a].stopped
  BY <1>1, <1>3, <1>4, StateStopsNobody
<1>6. QED
  BY <1>1, <1>3, <1>5

LEMMA EndTurnStopsNobody ==
    ASSUME TypeOK, NEW reply, EndTurn(reply)
    PROVE  StopsNobody
<1>1. Top.actor_id \in Id
  BY TopIsFrame DEF EndTurn, TopIs, Frame, FrameRecord
<1>2. /\ actor_instances' = [actor_instances EXCEPT ![Top.actor_id].state = Top.env]
      /\ actor_instances \in [Id -> Instance]
  BY DEF EndTurn, TypeOK
<1>3. QED
  BY <1>1, <1>2, StateStopsNobody DEF StopsNobody

(* With what StopActor does, that is all a step can do to the requests.      *)
LEMMA RequestsUnstopped ==
    ASSUME TypeOK, RequestsInvariant, SlotsStay, StopsNobody,
           UNCHANGED <<throws, spawned>>, SameService(frames, frames')
    PROVE  RequestsInvariant'
<1>1. \A id \in 1..spawned : id \in Id
  BY BoundsAssumption DEF TypeOK, Id
<1>2. QED
  BY <1>1, RequestsSame DEF StopsNobody, StopsLast

LEMMA RequestsStopOrDefer ==
    ASSUME TypeOK, RequestsInvariant, OnlySpawnedNamed, NEW id \in Id,
           StopActor(id) \/ StopOrDefer(id),
           UNCHANGED <<asked, target, taken, throws, spawned>>,
           SameService(frames, frames')
    PROVE  RequestsInvariant'
<1>1. CASE StopActor(id)
  BY <1>1, RequestsStop
<1>2. CASE UNCHANGED <<actor_instances, actor_mailbox, actor_reply_slots>>
  BY <1>2, RequestsSame DEF SlotsStay, StopsLast
<1>3. QED
  BY <1>1, <1>2 DEF StopOrDefer

-----------------------------------------------------------------------------
(* The actions keep every request accounted for.                           *)

(* The operations of a body.                                                *)
LEMMA RequestsBody ==
    TypeOK /\ StackInvariant /\ StackDiscipline /\ RequestsInvariant /\ Body
    => RequestsInvariant'
<1> SUFFICES ASSUME TypeOK, StackInvariant, StackDiscipline, RequestsInvariant, Body
             PROVE  RequestsInvariant'
  OBVIOUS
<1> USE DEF instanceVars, mailVars, slotVars, turnVars
<1>1. ASSUME NEW id \in Known, Tell(id) PROVE RequestsInvariant'
  <2>1. id \in Id
    BY DEF Known, TypeOK
  <2>2. QED
    BY <1>1, <2>1, RequestsTell DEF Tell
<1>2. ASSUME NEW id \in Known, Ask(id) PROVE RequestsInvariant'
  <2>1. id \in Id /\ id <= spawned
    BY DEF Known, TypeOK, StackInvariant, OnlySpawnedNamed
  <2>2. QED
    BY <1>2, <2>1, RequestsAsk
<1>3. ASSUME NEW k \in 0..Len(frames), Throw(k) PROVE RequestsInvariant'
  <2>1. SlotsStay /\ UNCHANGED <<actor_instances, spawned>> /\ throws' # 0
    BY <1>3 DEF Throw, SlotsStay, TypeOK
  <2>2. CASE k = 0
    <3>1. UNCHANGED frames
      BY <1>3, <2>2 DEF Throw
    <3>2. QED
      BY <2>1, <3>1, RequestsStay, SameServiceRefl DEF SameService, StopsLast
  <2>3. CASE k # 0
    <3>1. k \in 1..(Len(frames) - 1)
      BY <1>3, <2>3, LenProperties DEF Throw, TypeOK
    <3>2. /\ DOMAIN frames' = 1..k /\ DOMAIN frames = 1..Len(frames)
          /\ Len(frames) \in Nat
          /\ \A i \in 1..(k - 1) : frames'[i] = frames[i]
          /\ \A i \in 1..k : /\ frames'[i].actor_id = frames[i].actor_id
                             /\ frames'[i].slot = frames[i].slot
          /\ frames[k].phase \in Live
      BY <1>3, <3>1, ThrowShape, LenProperties
    <3>3. \A i \in 1..k : i \in 1..Len(frames) /\ (i # k => i \in 1..(k - 1))
      BY <3>1, <3>2
    <3>4. LessService(frames, frames')
      BY <3>2, <3>3 DEF LessService, Serves, Live
    <3>5. QED
      BY <2>1, <3>4, RequestsStay DEF StopsLast
  <2>4. QED
    BY <2>2, <2>3
<1>4. CASE \A k \in 0..Len(frames) : ~ Throw(k)
  <2>1. SameService(frames, frames')
    BY <1>4, ServiceBody
  <2>2. ASSUME NEW policy \in Policies, Spawn(policy) PROVE RequestsInvariant'
    <3>1. \A id \in 1..spawned : id \in Id /\ id # spawned + 1 /\ id \in 1..(spawned + 1)
      BY BoundsAssumption DEF TypeOK, Id
    <3>2. StopsLast
      BY <2>2, <3>1, SpawnStopsNobody DEF StopsLast
    <3>3. QED
      BY <2>1, <2>2, <3>2, RequestsSame DEF Spawn, SlotsStay
  <2>3. ASSUME NEW reply \in {"ok", "err"}, EndTurn(reply) PROVE RequestsInvariant'
    BY <2>1, <2>3, EndTurnStopsNobody, RequestsUnstopped DEF EndTurn, SlotsStay
  <2>4. ASSUME UNCHANGED <<actor_instances, spawned, throws>>, SlotsStay
        PROVE  RequestsInvariant'
    BY <2>1, <2>4, RequestsUnstopped DEF StopsNobody
  <2>5. QED
    BY <1>1, <1>2, <1>4, <2>2, <2>3, <2>4 DEF Body, Await, Select, Wait,
       SelectNothing, EndTurnOnTakenState, EndMain, Fail, SlotsStay
<1>5. QED
  BY <1>3, <1>4

(* The pump.                                                                *)
LEMMA RequestsPump ==
    TypeOK /\ RequestsInvariant /\ Pump => RequestsInvariant'
<1> SUFFICES ASSUME TypeOK, RequestsInvariant, Pump PROVE RequestsInvariant'
  OBVIOUS
<1> USE DEF instanceVars, mailVars, slotVars, turnVars
<1>1. ASSUME NEW m \in actor_mailbox, Dispatch(m) PROVE RequestsInvariant'
  BY <1>1, RequestsServe
<1>2. CASE \A m \in actor_mailbox : ~ Dispatch(m)
  <2>1. SameService(frames, frames')
    BY <1>2, ServicePump
  <2>2. ASSUME NEW slot \in Slot, NEW f, TakeReply(slot, f),
               actor_reply_slots[slot] = "Filled"
        PROVE  RequestsInvariant'
    BY <2>1, <2>2, RequestsTake DEF TakeReply
  <2>3. ASSUME frames # << >>, Top.phase \in {"await", "select"}
        PROVE  /\ Top.phase = "await" => Awaited \in Slot
               /\ \A i \in DOMAIN Top.awaiting : Top.awaiting[i] \in Slot
    <3>1. Top.awaiting \in Seq(Slot) /\ (Top.phase = "await" => Top.awaiting # << >>)
      BY <2>3, TopIsFrame DEF Frame, FrameRecord
    <3>2. QED
      BY <3>1, HeadTailProperties, LenProperties, ElementOfSeq DEF Awaited
  <2>4. AwaitTakes \/ SelectTakes => RequestsInvariant'
    BY <2>2, <2>3 DEF AwaitTakes, SelectTakes, FirstFilled, TopIs
  <2>5. ASSUME NEW code, Fail(code) PROVE RequestsInvariant'
    BY <2>1, <2>5, RequestsUnstopped DEF Fail, StopsNobody, SlotsStay
  <2>6. QED
    BY <1>2, <2>4, <2>5 DEF Pump, AwaitUnavailable, SelectUnavailable, Stall, DrainEnds
<1>3. QED
  BY <1>1, <1>2

(* Supervision.                                                            *)
LEMMA RequestsSupervision ==
    TypeOK /\ StackInvariant /\ StackDiscipline /\ RequestsInvariant /\ Supervision
    => RequestsInvariant'
<1> SUFFICES ASSUME TypeOK, StackInvariant, StackDiscipline, RequestsInvariant,
                    Supervision
             PROVE  RequestsInvariant'
  OBVIOUS
<1> USE DEF instanceVars, mailVars, slotVars, turnVars
<1>1. PublishReply => RequestsInvariant'
  BY RequestsPublish
<1>2. CASE ~ PublishReply
  <2>1. SameService(frames, frames')
    BY <1>2, ServiceSupervision
  <2>2. ASSUME NEW phase \in {"ended", "supervise"}, TopIs(phase)
        PROVE  Top.actor_id \in Id /\ Top.cursor \in Id
    BY <2>2, TopIsFrame DEF TopIs, Frame, FrameRecord, Live
  <2>3. ASSUME UNCHANGED <<actor_instances, spawned, throws>>, SlotsStay
        PROVE  RequestsInvariant'
    BY <2>1, <2>3, RequestsUnstopped DEF StopsNobody
  <2>4. DeferredStop \/ SuperviseStop \/ Escalate => RequestsInvariant'
    BY <2>1, <2>2, RequestsStopOrDefer DEF DeferredStop, SuperviseStop, Escalate,
       StackInvariant
  <2>5. DeferredRestart \/ SuperviseRestart => RequestsInvariant'
    BY <2>1, <2>2, RestartStopsNobody, RequestsUnstopped
       DEF DeferredRestart, SuperviseRestart, SlotsStay
  <2>6. NoDeferred \/ DeferredRestartLoops \/ SpawnReturns \/ RestartReturns
        => RequestsInvariant'
    BY <2>3 DEF NoDeferred, DeferredRestartLoops, SpawnReturns, RestartReturns,
       Fail, SlotsStay
  <2>7. Unsupervised \/ SuperviseRestartDeferred \/ EscalatedToUnsupervised
        => RequestsInvariant'
    BY <2>3 DEF Unsupervised, SuperviseRestartDeferred, EscalatedToUnsupervised,
       Fail, SlotsStay
  <2>8. QED
    BY <1>2, <2>4, <2>5, <2>6, <2>7 DEF Supervision
<1>3. QED
  BY <1>1, <1>2

LEMMA RequestsInductive == Spec => []RequestsInvariant
<1>1. Init => RequestsInvariant
  <2> SUFFICES ASSUME Init PROVE RequestsInvariant
    OBVIOUS
  <2>1. /\ DOMAIN frames = {1} /\ frames[1].slot = NoSlot /\ actor_mailbox = {}
        /\ asked = 0 /\ taken = {} /\ \A s \in Slot : actor_reply_slots[s] = "Unused"
        /\ \A s \in Slot : s \in Nat /\ s > 0
    BY DEF Init, NewFrame, Slot
  <2>2. QED
    BY <2>1 DEF RequestsInvariant, QueuedOnce, ServedOnce, SlotsTell, NoneLost,
                Serves, Open, NoSlot
<1>2. TypeOK /\ StackInvariant /\ StackDiscipline /\ RequestsInvariant /\ [Next]_vars
      => RequestsInvariant'
  <2> SUFFICES ASSUME TypeOK, StackInvariant, StackDiscipline, RequestsInvariant,
                      [Next]_vars
               PROVE  RequestsInvariant'
    OBVIOUS
  <2>1. CASE Body
    BY <2>1, RequestsBody
  <2>2. CASE Pump
    BY <2>2, RequestsPump
  <2>3. CASE Supervision
    BY <2>3, RequestsSupervision
  <2>4. CASE UNCHANGED vars
    BY <2>4, RequestsSame, SameServiceRefl
       DEF SlotsStay, StopsLast, vars, instanceVars, slotVars, mailVars
  <2>5. QED
    BY <2>1, <2>2, <2>3, <2>4 DEF Next, Ended
<1>3. QED
  BY <1>1, <1>2, TypeCorrect, StackCorrect, DisciplineCorrect, PTL DEF Spec

(* At every moment a request is queued once, or one turn serves it, or it was *)
(* answered, or consumed, or refused by a stopped actor, and never two of     *)
(* these; without an error that unwinds a turn, exactly one.                *)
THEOREM RequestsCorrect == Spec => []RequestsAccounted
<1>1. TypeOK /\ RequestsInvariant => RequestsAccounted
  <2> SUFFICES ASSUME TypeOK, RequestsInvariant, NEW s \in 1..asked
               PROVE  LET slot == actor_reply_slots[s]
                          fates == Cardinality(Queued(s)) + Cardinality(Serving(s))
                                   + (IF slot # "Pending" THEN 1 ELSE 0)
                                   + (IF s \in taken THEN 1 ELSE 0)
                      IN  /\ fates <= 1
                          /\ throws = 0 => fates = 1
                          /\ slot = "Unavailable" => actor_instances[target[s]].stopped
    BY DEF RequestsAccounted
  <2>1. s \in Slot /\ s # NoSlot
    BY BoundsAssumption DEF Slot, NoSlot, TypeOK
  <2>2. /\ s \in taken => actor_reply_slots[s] = "Pending"
        /\ actor_reply_slots[s] = "Unavailable" => actor_instances[target[s]].stopped
        /\ Open(s) <=> actor_reply_slots[s] = "Pending" /\ s \notin taken
    BY <2>1 DEF RequestsInvariant, SlotsTell, Open
  <2>3. Cardinality({}) = 0 /\ \A x : Cardinality({x}) = 1
    BY FS_EmptySet, FS_Singleton
  <2>4. Serving(s) = {i \in DOMAIN frames : Serves(frames[i], s)}
    BY DEF Serving, Serves
  <2>5. CASE \E m \in actor_mailbox : m.reply_slot = s
    <3>1. PICK m \in actor_mailbox : m.reply_slot = s
      BY <2>5
    <3>2. /\ Open(s) /\ \A n \in actor_mailbox : n.reply_slot = s => n = m
          /\ \A i \in DOMAIN frames : ~ Serves(frames[i], s)
      BY <2>1, <3>1 DEF RequestsInvariant, QueuedOnce
    <3>3. Queued(s) = {m} /\ Serving(s) = {}
      BY <2>4, <3>1, <3>2 DEF Queued
    <3>4. Cardinality(Queued(s)) = 1 /\ Cardinality(Serving(s)) = 0
      BY <2>3, <3>3
    <3>5. QED
      BY <2>2, <3>2, <3>4
  <2>6. CASE \E i \in DOMAIN frames : Serves(frames[i], s)
    <3>1. PICK i \in DOMAIN frames : Serves(frames[i], s)
      BY <2>6
    <3>2. Open(s) /\ \A j \in DOMAIN frames : Serves(frames[j], s) => i = j
      BY <2>1, <3>1 DEF RequestsInvariant, ServedOnce
    <3>3. \A m \in actor_mailbox : m.reply_slot # s
      BY <2>1, <3>1 DEF RequestsInvariant, QueuedOnce
    <3>4. Queued(s) = {} /\ Serving(s) = {i}
      BY <2>4, <3>1, <3>2, <3>3 DEF Queued
    <3>5. Cardinality(Queued(s)) = 0 /\ Cardinality(Serving(s)) = 1
      BY <2>3, <3>4
    <3>6. QED
      BY <2>2, <3>2, <3>5
  <2>7. CASE /\ ~ \E m \in actor_mailbox : m.reply_slot = s
             /\ ~ \E i \in DOMAIN frames : Serves(frames[i], s)
    <3>1. Queued(s) = {} /\ Serving(s) = {}
      BY <2>4, <2>7 DEF Queued
    <3>2. Cardinality(Queued(s)) = 0 /\ Cardinality(Serving(s)) = 0
      BY <2>3, <3>1
    <3>3. throws = 0 => ~ Open(s)
      BY <2>1, <2>7 DEF RequestsInvariant, NoneLost
    <3>4. QED
      BY <2>2, <3>2, <3>3
  <2>8. QED
    BY <2>5, <2>6, <2>7
<1>2. QED
  BY <1>1, TypeCorrect, RequestsInductive, PTL

(* A program that has ended takes no step, and each end has its cause.       *)
LEMMA EndedStays == Next /\ ~ Running => UNCHANGED vars
BY DEF Next, Body, Pump, Supervision, Ended, TopIs, Spawn, Tell, Ask, Wait, Await,
       Select, SelectNothing, EndTurn, EndTurnOnTakenState, EndMain, Throw,
       AwaitTakes, AwaitUnavailable, SelectTakes, SelectUnavailable, Dispatch,
       Pumping, Stall, DrainEnds, NoDeferred, DeferredStop, DeferredRestart,
       DeferredRestartLoops, SpawnReturns, RestartReturns, PublishReply,
       Unsupervised, SuperviseStop, SuperviseRestart, SuperviseRestartDeferred,
       Escalate, EscalatedToUnsupervised

LEMMA EndsHaveCauses ==
    ASSUME Next, Running
    PROVE  \/ outcome' \in {"running", "L0420", "L0403"}
           \/ outcome' = "done" /\ DrainEnds
           \/ outcome' = "L0356" /\ (SelectNothing \/ Stall)
           \/ outcome' = "L0359" /\ (AwaitUnavailable \/ SelectUnavailable)
           \/ outcome' = "L0362" /\ (Escalate \/ EscalatedToUnsupervised)
           \/ outcome' = "L0363" /\ DeferredRestartLoops
<1>1. CASE Body
  BY <1>1 DEF Running, Body, Spawn, Tell, Ask, Wait, Await, Select, SelectNothing,
       EndTurn, EndTurnOnTakenState, EndMain, Throw, Fail
<1>2. CASE Pump
  BY <1>2 DEF Running, Pump, AwaitTakes, AwaitUnavailable, SelectTakes, TakeReply,
       SelectUnavailable, Dispatch, Stall, DrainEnds, Fail
<1>3. CASE Supervision
  BY <1>3 DEF Running, Supervision, NoDeferred, DeferredStop, DeferredRestart,
       DeferredRestartLoops, SpawnReturns, RestartReturns, PublishReply,
       Unsupervised, SuperviseStop, SuperviseRestart, SuperviseRestartDeferred,
       Escalate, EscalatedToUnsupervised, Fail
<1>4. QED
  BY <1>1, <1>2, <1>3 DEF Next, Ended

(* What is queued for an actor that could take no message is not delivered.  *)
LEMMA UndeliverableIsBusy ==
    ASSUME TypeOK, Silent, Deliverable = {}, NEW m \in actor_mailbox
    PROVE  m.actor_id \in busy_actors
<1>1. m.actor_id \in Id
  BY DEF TypeOK, Message
<1>2. ~ actor_instances[m.actor_id].stopped
  BY <1>1 DEF Silent, StoppedIsSilent
<1>3. QED
  BY <1>2 DEF Deliverable

(* While user code is on top, whoever serves a request is mid-turn.          *)
LEMMA ServerIsBusy ==
    ASSUME TypeOK, StackInvariant, StackDiscipline, frames # << >>, Top.phase \in Live,
           NEW i \in DOMAIN frames, NEW s \in Slot, Serves(frames[i], s)
    PROVE  frames[i].actor_id \in busy_actors
<1> DEFINE n == Len(frames)
<1>1. /\ DOMAIN frames = 1..n /\ n \in Nat \ {0} /\ Top = frames[n]
      /\ \A j \in 1..n : frames[j] \in Frame
  BY TopIsFrame, LenProperties, ElementOfSeq DEF TypeOK
<1>2. ASSUME NEW j \in 1..n, frames[j].phase \in Live, frames[j].actor_id # Main
      PROVE  frames[j].actor_id \in busy_actors
  <2>1. busy_actors = {frames[k].actor_id : k \in {l \in 1..n : frames[l].phase \in Live}}
                      \ {Main}
    BY <1>1 DEF StackInvariant, StackOK
  <2>2. QED
    BY <1>2, <2>1
<1>3. /\ Beneath(frames, i) /\ Orderly(frames[i], asked)
      /\ i + 1 \in 1..n => Beneath(frames, i + 1)
  BY <1>1 DEF StackDiscipline, DisciplineOn
<1>4. frames[i].kind = "turn" /\ frames[i].actor_id # Main
  <2>1. frames[i].slot # NoSlot
    BY DEF Serves, Slot, NoSlot
  <2>2. frames[i].kind = "turn"
    BY <1>3, <2>1 DEF Orderly
  <2>3. QED
    BY <1>1, <2>2 DEF Frame
<1>5. CASE frames[i].phase \in Live
  BY <1>1, <1>2, <1>4, <1>5
<1>6. CASE frames[i].phase \notin Live
  <2>1. i < n
    BY <1>1, <1>6
  <2>2. /\ frames[i + 1].kind = "restart" /\ i + 1 \in 1..n
        /\ frames[i + 1].actor_id = frames[i].actor_id
    BY <1>1, <1>3, <1>6, <2>1 DEF Beneath
  <2>3. frames[i + 1].phase \in Live
    BY <1>1, <1>3, <2>2 DEF Beneath
  <2>4. QED
    BY <1>2, <1>4, <2>2, <2>3
<1>7. QED
  BY <1>5, <1>6

(* What a program that ends normally leaves behind: nothing undelivered,     *)
(* nobody mid-turn, no action still deferred, no request unanswered.         *)
THEOREM QuiescentEndCorrect == Spec => []QuiescentEnd
<1> DEFINE Held == TypeOK /\ StackInvariant /\ StackDiscipline /\ Silent
                     /\ DeferredActionsAgree /\ RequestsInvariant
<1>1. Init => QuiescentEnd
  BY DEF Init, QuiescentEnd
<1>2. Held /\ QuiescentEnd /\ [Next]_vars => QuiescentEnd'
  <2> SUFFICES ASSUME Held, QuiescentEnd, [Next]_vars PROVE QuiescentEnd'
    OBVIOUS
  <2> USE DEF instanceVars, mailVars, slotVars, turnVars
  <2>1. CASE UNCHANGED vars
    BY <2>1 DEF QuiescentEnd, vars
  <2>2. CASE DrainEnds
    <3>1. /\ frames = << >> /\ Deliverable = {}
          /\ UNCHANGED <<actor_mailbox, busy_actors, restarting, current_actor,
                         throws, pending_supervision, asked, actor_reply_slots, taken>>
      BY <2>2 DEF DrainEnds, Fail
    <3>2. DOMAIN frames = {} /\ Len(frames) = 0
      BY <3>1
    <3>3. busy_actors = {} /\ current_actor = Main
      <4>1. \A i : i \notin 1..0
        OBVIOUS
      <4>2. QED
        BY <3>2, <4>1 DEF StackInvariant, StackOK, IsCurrent
    <3>4. restarting = {}
      BY <3>2 DEF StackDiscipline, DisciplineOn
    <3>5. actor_mailbox = {}
      BY <3>1, <3>3, UndeliverableIsBusy
    <3>6. throws = 0 => \A id \in Id : pending_supervision[id] = "none"
      BY <3>2, <3>3 DEF DeferredActionsAgree
    <3>7. throws = 0 => \A s \in 1..asked : actor_reply_slots[s] = "Pending" => s \in taken
      <4>1. \A s \in 1..asked : s \in Slot
        BY BoundsAssumption DEF TypeOK, Slot
      <4>2. QED
        BY <3>2, <3>5, <4>1 DEF RequestsInvariant, NoneLost, Open
    <3>8. QED
      BY <3>1, <3>3, <3>4, <3>5, <3>6, <3>7 DEF QuiescentEnd
  <2>3. CASE Running /\ Next /\ ~ DrainEnds
    BY <2>3, EndsHaveCauses DEF QuiescentEnd
  <2>4. QED
    BY <2>1, <2>2, <2>3, EndedStays
<1>3. QED
  BY <1>1, <1>2, TypeCorrect, StackCorrect, DisciplineCorrect, SilentCorrect,
     DeferredActionsCorrect, RequestsInductive, PTL DEF Spec, Silent

(* A future that nobody can answer now is blocked.                          *)
LEMMA NobodyAnswers ==
    ASSUME TypeOK, StackInvariant, StackDiscipline, Silent, RequestsInvariant,
           frames # << >>, Top.phase \in Live, Deliverable = {}, throws = 0,
           NEW s \in Slot, s <= asked, actor_reply_slots[s] = "Pending"
    PROVE  Blocked(s)
<1> SUFFICES ASSUME s \notin taken PROVE target[s] \in busy_actors
  BY DEF Blocked
<1>1. Open(s)
  BY DEF Open, Slot, TypeOK
<1>2. CASE \E m \in actor_mailbox : m.reply_slot = s
  <2>1. PICK m \in actor_mailbox : m.reply_slot = s
    BY <1>2
  <2>2. target[s] = m.actor_id
    BY <2>1 DEF RequestsInvariant, QueuedOnce, Slot, NoSlot
  <2>3. QED
    BY <2>2, UndeliverableIsBusy
<1>3. CASE \E i \in DOMAIN frames : Serves(frames[i], s)
  <2>1. PICK i \in DOMAIN frames : Serves(frames[i], s)
    BY <1>3
  <2>2. target[s] = frames[i].actor_id
    BY <2>1 DEF RequestsInvariant, ServedOnce
  <2>3. QED
    BY <2>1, <2>2, ServerIsBusy
<1>4. QED
  BY <1>1, <1>2, <1>3 DEF RequestsInvariant, NoneLost

(* A fatal diagnostic tells the truth about the schedule: at L0356 every     *)
(* future waited for is blocked or refused, at L0359 it is a stopped actor's, *)
(* and at L0363 the actor whose init just ran is due another restart.        *)
THEOREM DiagnosesCorrect == Spec => []DiagnosesAreTrue
<1> DEFINE Held == TypeOK /\ StackInvariant /\ StackDiscipline /\ Silent
                   /\ RequestsInvariant
<1>1. Init => DiagnosesAreTrue
  BY DEF Init, DiagnosesAreTrue
<1>2. Held /\ DiagnosesAreTrue /\ [Next]_vars => DiagnosesAreTrue'
  <2> SUFFICES ASSUME Held, DiagnosesAreTrue, [Next]_vars PROVE DiagnosesAreTrue'
    OBVIOUS
  <2> USE DEF instanceVars, mailVars, slotVars, turnVars
  <2>1. CASE UNCHANGED vars
    BY <2>1 DEF DiagnosesAreTrue, vars, Top, Awaited, Blocked, Refused
  <2>2. ASSUME NEW code, Fail(code)
        PROVE  /\ UNCHANGED <<Top, frames, actor_reply_slots, taken, target, throws,
                              busy_actors, actor_instances, restarting>>
               /\ outcome' = code
    BY <2>2 DEF Fail, Top
  <2>3. ASSUME NEW s \in Slot, s <= asked
        PROVE  actor_reply_slots[s] \in {"Pending", "Filled", "Unavailable"}
    BY <2>3 DEF TypeOK, RequestsInvariant, SlotsTell
  <2>4. ASSUME NEW s \in Slot, actor_reply_slots[s] = "Unavailable"
        PROVE  actor_instances[target[s]].stopped
    BY <2>4 DEF RequestsInvariant, SlotsTell
  <2>5. ASSUME frames # << >>, Top.phase \in {"await", "select"}
        PROVE  /\ Top.awaiting # << >> /\ Awaited = Top.awaiting[1]
               /\ 1 \in DOMAIN Top.awaiting
               /\ \A i \in DOMAIN Top.awaiting :
                     Top.awaiting[i] \in Slot /\ Top.awaiting[i] <= asked
    <3>1. Top \in Frame /\ Orderly(Top, asked)
      BY <2>5, TopIsFrame, TopOrderly
    <3>2. Top.awaiting \in Seq(Slot) /\ Top.awaiting # << >>
      BY <2>5, <3>1 DEF Frame, FrameRecord, Orderly
    <3>3. Awaited = Top.awaiting[1] /\ 1 \in DOMAIN Top.awaiting
      BY <3>2, HeadTailProperties, LenProperties, EmptySeq DEF Awaited
    <3>4. \A i \in DOMAIN Top.awaiting : Top.awaiting[i] \in Slot
      BY <3>2, LenProperties, ElementOfSeq
    <3>5. QED
      BY <3>1, <3>2, <3>3, <3>4 DEF Orderly
  <2>6. CASE SelectNothing
    BY <2>2, <2>6 DEF SelectNothing, TopIs, DiagnosesAreTrue
  <2>7. CASE Stall
    <3>1. /\ frames # << >> /\ Deliverable = {} /\ outcome' = "L0356"
          /\ UNCHANGED <<Top, actor_reply_slots, taken, target, throws, busy_actors>>
          /\ \/ Top.phase = "await" /\ actor_reply_slots[Awaited] = "Pending"
             \/ Top.phase = "select" /\ NoneFilled
      BY <2>2, <2>7 DEF Stall, Pumping, TopIs
    <3>2. ASSUME throws = 0, Top.phase = "await" PROVE Blocked(Awaited)
      BY <2>5, <3>1, <3>2, NobodyAnswers DEF Live
    <3>3. ASSUME throws = 0, Top.phase = "select", NEW i \in DOMAIN Top.awaiting
          PROVE  Blocked(Top.awaiting[i]) \/ Refused(Top.awaiting[i])
      <4>1. /\ Top.awaiting[i] \in Slot /\ Top.awaiting[i] <= asked
            /\ actor_reply_slots[Top.awaiting[i]] # "Filled"
        BY <2>5, <3>1, <3>3 DEF NoneFilled
      <4>2. CASE actor_reply_slots[Top.awaiting[i]] = "Pending"
        BY <3>1, <3>3, <4>1, <4>2, NobodyAnswers DEF Live
      <4>3. CASE actor_reply_slots[Top.awaiting[i]] = "Unavailable"
        BY <4>3 DEF Refused
      <4>4. QED
        BY <2>3, <4>1, <4>2, <4>3
    <3>4. QED
      BY <3>1, <3>2, <3>3 DEF DiagnosesAreTrue, Awaited, Blocked, Refused
  <2>8. CASE AwaitUnavailable
    <3>1. /\ frames # << >> /\ Top.phase = "await" /\ outcome' = "L0359"
          /\ UNCHANGED <<Top, target, actor_instances>>
          /\ actor_reply_slots[Awaited] = "Unavailable"
      BY <2>2, <2>8 DEF AwaitUnavailable, TopIs
    <3>2. /\ 1 \in DOMAIN Top.awaiting
          /\ actor_instances[target[Top.awaiting[1]]].stopped
      BY <2>4, <2>5, <3>1
    <3>3. QED
      BY <3>1, <3>2 DEF DiagnosesAreTrue
  <2>9. CASE SelectUnavailable
    <3>1. /\ frames # << >> /\ Top.phase = "select" /\ outcome' = "L0359"
          /\ UNCHANGED <<Top, target, actor_instances>>
          /\ AllUnavailable
      BY <2>2, <2>9 DEF SelectUnavailable, TopIs
    <3>2. /\ 1 \in DOMAIN Top.awaiting
          /\ \A i \in DOMAIN Top.awaiting :
                actor_instances[target[Top.awaiting[i]]].stopped
      BY <2>4, <2>5, <3>1 DEF AllUnavailable
    <3>3. QED
      BY <3>1, <3>2 DEF DiagnosesAreTrue
  <2>10. CASE DeferredRestartLoops
    <3>1. /\ frames # << >> /\ Top.phase = "ended" /\ outcome' = "L0363"
          /\ UNCHANGED <<Top, restarting>> /\ Top.actor_id \in restarting
      BY <2>2, <2>10 DEF DeferredRestartLoops, TopIs
    <3>2. PICK n : n = Len(frames)
      OBVIOUS
    <3>3. DOMAIN frames = 1..n /\ n \in Nat \ {0} /\ Top = frames[n]
      BY <3>1, <3>2, TopIsFrame, LenProperties DEF TypeOK
    <3>4. PICK j \in 1..n : frames[j].kind = "restart" /\ frames[j].actor_id = Top.actor_id
      BY <3>1, <3>3 DEF StackDiscipline, DisciplineOn
    <3>5. ASSUME j # n PROVE FALSE
      <4>1. j < n /\ n \in 1..n
        BY <3>3, <3>5
      <4>2. frames[j].phase \in Live
        BY <3>2, <3>3, <3>4, <4>1 DEF StackDiscipline, DisciplineOn, Beneath
      <4>3. QED
        BY <3>3, <3>4, <4>1, <4>2 DEF StackInvariant, StackOK
    <3>6. QED
      BY <3>1, <3>3, <3>4, <3>5 DEF DiagnosesAreTrue
  <2>11. CASE outcome' \in {"running", "done", "L0420", "L0403", "L0362"}
    BY <2>11 DEF DiagnosesAreTrue
  <2>12. QED
    BY <2>1, <2>6, <2>7, <2>8, <2>9, <2>10, <2>11, EndedStays, EndsHaveCauses
<1>3. QED
  BY <1>1, <1>2, TypeCorrect, StackCorrect, DisciplineCorrect, SilentCorrect,
     RequestsInductive, PTL DEF Spec, Silent

-----------------------------------------------------------------------------
(* Escalation.                                                             *)

OlderSupervisors == \A id \in Id : actor_instances[id].supervisor < id

(* The chain of an actor is the least set that holds it and goes up.        *)
LEMMA ChainFacts ==
    ASSUME TypeOK, OlderSupervisors, NEW id \in Id
    PROVE  /\ id \in Chain(id)
           /\ \A a \in Chain(id) : /\ a \in Id /\ a <= id
                                   /\ actor_instances[a].supervisor \in Id =>
                                        actor_instances[a].supervisor \in Chain(id)
           /\ \A S \in SUBSET Id : id \in S /\ Upward(S) => Chain(id) \subseteq S
<1>1. id \in Chain(id) /\ \A a \in Chain(id) : a \in Id
  BY DEF Chain
<1>2. \A S \in SUBSET Id : id \in S /\ Upward(S) => Chain(id) \subseteq S
  BY DEF Chain
<1>3. ASSUME NEW a \in Chain(id), actor_instances[a].supervisor \in Id
      PROVE  actor_instances[a].supervisor \in Chain(id)
  BY <1>3 DEF Chain, Upward
<1>4. ASSUME NEW a \in Chain(id) PROVE a <= id
  <2> DEFINE S == {b \in Id : b <= id}
  <2>1. ASSUME NEW b \in S, actor_instances[b].supervisor \in Id
        PROVE  actor_instances[b].supervisor \in S
    BY <2>1 DEF OlderSupervisors, Id
  <2>2. id \in S /\ Upward(S) /\ S \in SUBSET Id
    BY <2>1 DEF Upward, Id
  <2>3. QED
    BY <1>2, <2>2
<1>5. QED
  BY <1>1, <1>2, <1>3, <1>4

(* A step that gives nobody another supervisor moves no chain.              *)
LEMMA ChainStays ==
    ASSUME NEW id \in Id,
           \A a \in Id : actor_instances'[a].supervisor = actor_instances[a].supervisor
    PROVE  Chain(id)' = Chain(id)
<1>1. ASSUME NEW S \in SUBSET Id PROVE Upward(S)' <=> Upward(S)
  BY DEF Upward
<1>2. QED
  BY <1>1 DEF Chain

(* Between two actors of a chain that the failure reached one after the       *)
(* other there is nobody: whoever is on the chain is the cursor, was passed,  *)
(* or is at or above the cursor's supervisor.                               *)
LEMMA ChainBeyond ==
    ASSUME TypeOK, EscalationInvariant, NEW id \in Id, NEW c \in Id,
           Escalating(id, c), NEW a \in Chain(id)
    PROVE  a >= c \/ a <= actor_instances[c].supervisor
<1> DEFINE up == actor_instances[c].supervisor
           S == {b \in Chain(id) : b >= c} \cup {b \in Id : b <= up}
<1>1. /\ OlderSupervisors /\ c \in Chain(id)
      /\ \A b \in Chain(id) : b > c => actor_instances[b].supervisor >= c
  BY DEF EscalationInvariant, OlderSupervisors
<1>2. /\ \A b \in Chain(id) : b \in Id /\ b <= id
      /\ id \in Chain(id) /\ c <= id
      /\ \A b \in Chain(id) : actor_instances[b].supervisor \in Id =>
                                 actor_instances[b].supervisor \in Chain(id)
      /\ \A T \in SUBSET Id : id \in T /\ Upward(T) => Chain(id) \subseteq T
  BY <1>1, ChainFacts
<1>3. ASSUME NEW b \in S, actor_instances[b].supervisor \in Id
      PROVE  actor_instances[b].supervisor \in S
  <2>1. CASE b \in Chain(id) /\ b > c
    BY <1>1, <1>2, <1>3, <2>1
  <2>2. CASE b = c
    BY <1>3, <2>2 DEF Id
  <2>3. CASE b \in Id /\ b <= up
    <3>1. actor_instances[c] \in Instance /\ actor_instances[b].supervisor < b
      BY <1>1, <2>3 DEF TypeOK, OlderSupervisors
    <3>2. QED
      BY <1>3, <2>3, <3>1 DEF Id, Instance, Main
  <2>4. QED
    BY <1>2, <2>1, <2>2, <2>3 DEF Id
<1>4. S \in SUBSET Id /\ id \in S /\ Upward(S)
  BY <1>2, <1>3 DEF Upward, Id
<1>5. a \in S
  BY <1>2, <1>4
<1>6. QED
  BY <1>5

(* The stack's new top.                                                     *)
LEMMA NewTop ==
    ASSUME TypeOK, StackDiscipline, frames # << >>
    PROVE  /\ \A f \in Frame : frames' = WithTop(f) => frames' # << >> /\ Top' = f
           /\ frames' = Popped /\ frames' # << >> =>
                 Top'.phase \in Live \cup {"reply"}
<1> DEFINE n == Len(frames)
<1>1. /\ n \in Nat \ {0} /\ DOMAIN frames = 1..n
      /\ Popped \in Seq(Frame) /\ Len(Popped) = n - 1
      /\ \A i \in 1..(n - 1) : Popped[i] = frames[i]
      /\ \A f \in Frame : /\ WithTop(f) \in Seq(Frame) /\ Len(WithTop(f)) = n
                          /\ \A i \in 1..n : WithTop(f)[i] = IF i = n THEN f ELSE frames[i]
  BY TopIsFrame, LenProperties DEF TypeOK
<1> HIDE DEF n
<1>2. ASSUME NEW f \in Frame, frames' = WithTop(f) PROVE frames' # << >> /\ Top' = f
  <2>1. Len(frames') = n /\ frames'[n] = f
    BY <1>1, <1>2
  <2>2. QED
    BY <1>1, <2>1 DEF Top, Last
<1>3. ASSUME frames' = Popped, frames' # << >>
      PROVE  Top'.phase \in Live \cup {"reply"}
  <2>1. Len(frames') = n - 1 /\ n - 1 # 0
    BY <1>1, <1>3, EmptySeq
  <2>2. n - 1 \in 1..n /\ n - 1 < n /\ n - 1 \in 1..(n - 1)
    BY <1>1, <2>1
  <2>3. frames[n - 1].phase \in Live \cup {"reply"}
    BY <1>1, <2>2 DEF StackDiscipline, DisciplineOn, Beneath
  <2>4. Top' = frames[n - 1]
    BY <1>1, <1>3, <2>1, <2>2 DEF Top, Last
  <2>5. QED
    BY <2>3, <2>4
<1>4. QED
  BY <1>2, <1>3

LEMMA NewTurnOnTop ==
    ASSUME TypeOK, NEW id, NEW kind, NEW slot, NEW instances, NEW below,
           TurnBegins(id, kind, slot, instances, below)
    PROVE  Top'.phase = "body"
<1>1. /\ Len(frames') = Len(below) + 1
      /\ frames'[Len(below) + 1].phase = "body"
  BY PushShape
<1>2. QED
  BY <1>1 DEF Top, Last

(* A failed turn comes on top only when its reply is published, and stays    *)
(* there only while its failure escalates.                                  *)
LEMMA SuperviseArises ==
    ASSUME TypeOK, StackDiscipline, Next, Running,
           frames' # << >>, Top'.phase = "supervise"
    PROVE  PublishReply \/ Escalate \/ EscalatedToUnsupervised
<1> USE DEF instanceVars, mailVars, slotVars, turnVars
<1>1. ASSUME frames # << >>, Top.phase # "supervise" PROVE ~ UNCHANGED frames
  BY <1>1 DEF Top
<1>2. ASSUME frames # << >>, NEW f \in Frame, frames' = WithTop(f)
      PROVE  f.phase = "supervise"
  BY <1>2, NewTop
<1>3. ASSUME frames # << >>, frames' = Popped PROVE FALSE
  BY <1>3, NewTop DEF Live
<1>4. ASSUME NEW id, NEW kind, NEW slot, NEW instances, NEW below,
             TurnBegins(id, kind, slot, instances, below)
      PROVE  FALSE
  BY <1>4, NewTurnOnTop
<1>5. ASSUME NEW phase \in {"body", "await", "select", "ended", "reply"}, TopIs(phase)
      PROVE  frames # << >> /\ Top \in Frame /\ Top.phase = phase /\ ~ UNCHANGED frames
  BY <1>1, <1>5, TopIsFrame DEF TopIs
<1>6. ASSUME NEW id \in Id, NEW below \in Seq(Frame), RestartActor(id, below) PROVE FALSE
  <2> DEFINE instances == [actor_instances EXCEPT ![id].state = incarnation[id] + 1]
  <2>1. incarnation[id] + 1 \in Nat
    BY DEF TypeOK
  <2>2. instances \in [Id -> Instance]
    BY <2>1, StateType DEF TypeOK
  <2>3. TurnBegins(id, "restart", NoSlot, instances, below)
    BY <1>6, <2>2 DEF RestartActor, TurnBegins
  <2> HIDE DEF instances
  <2>4. QED
    BY <1>4, <2>3
<1>7. ASSUME NEW policy \in Policies, Spawn(policy) PROVE FALSE
  <2> DEFINE id == spawned + 1
             new == [supervisor |-> current_actor, policy |-> policy,
                     stopped |-> FALSE, state |-> 1]
             instances == [actor_instances EXCEPT ![id] = new]
  <2>1. id \in Id
    BY <1>7, BoundsAssumption DEF Spawn, TypeOK, Id
  <2>2. new \in Instance
    BY PoliciesAssumption DEF Instance, TypeOK
  <2>3. instances \in [Id -> Instance] /\ frames \in Seq(Frame)
    BY <2>1, <2>2 DEF TypeOK
  <2>4. TurnBegins(id, "init", NoSlot, instances, frames)
    BY <1>7, <2>1, <2>3 DEF Spawn, TurnBegins
  <2> HIDE DEF id, new, instances
  <2>5. QED
    BY <1>4, <2>4
<1>8. ASSUME NEW ss \in Futures, NEW phase \in {"await", "select"}, Wait(phase, ss)
      PROVE  FALSE
  <2> DEFINE f == [Top EXCEPT !.phase = phase, !.awaiting = ss]
  <2>1. frames # << >> /\ Top \in Frame /\ Top.phase = "body" /\ frames' = WithTop(f)
    BY <1>5, <1>8 DEF Wait
  <2>2. f \in Frame /\ f.phase = phase
    BY <1>8, <2>1, FuturesType DEF Frame, FrameRecord, Live
  <2> HIDE DEF f
  <2>3. QED
    BY <1>2, <2>1, <2>2
<1>9. ASSUME NEW reply \in {"ok", "err"}, EndTurn(reply) PROVE FALSE
  <2> DEFINE f == [Top EXCEPT !.phase = "ended", !.reply = reply]
  <2>1. /\ frames # << >> /\ Top \in Frame /\ Top.phase = "body"
        /\ Top.kind # "main" /\ frames' = WithTop(f)
    BY <1>5, <1>9 DEF EndTurn
  <2>2. f \in Frame /\ f.phase = "ended"
    BY <2>1 DEF Frame, FrameRecord
  <2> HIDE DEF f
  <2>3. QED
    BY <1>2, <2>1, <2>2
<1>10. ASSUME NEW k \in 0..Len(frames), Throw(k) PROVE FALSE
  <2>1. CASE k = 0
    BY <1>5, <1>10, <2>1 DEF Throw
  <2>2. CASE k # 0
    <3>1. k \in 1..(Len(frames) - 1)
      BY <1>10, <2>2, LenProperties DEF Throw, TypeOK
    <3>2. Len(frames') = k /\ frames'[k].phase = "body"
      BY <1>10, <3>1, ThrowShape
    <3>3. QED
      BY <3>2 DEF Top, Last
  <2>3. QED
    BY <2>1, <2>2
<1>11. Body => FALSE
  <2>1. ASSUME NEW code, TopIs("body"), Fail(code) PROVE FALSE
    BY <1>5, <2>1 DEF Fail
  <2>2. ASSUME NEW id \in Known, Tell(id) \/ Ask(id) PROVE FALSE
    BY <1>5, <2>2 DEF Tell, Ask
  <2>3. QED
    BY <1>7, <1>8, <1>9, <1>10, <2>1, <2>2
       DEF Body, Await, Select, SelectNothing, EndTurnOnTakenState, EndMain
<1>12. AwaitTakes => FALSE
  <2> SUFFICES ASSUME AwaitTakes PROVE FALSE
    OBVIOUS
  <2> DEFINE rest == Tail(Top.awaiting)
             f == [Top EXCEPT !.phase = IF rest = << >> THEN "body" ELSE "await",
                              !.awaiting = rest]
  <2>1. frames # << >> /\ Top \in Frame /\ Top.phase = "await"
    BY <1>5 DEF AwaitTakes
  <2>2. f \in Frame /\ f.phase # "supervise"
    BY <2>1, AwaitedFrame
  <2>3. frames' = WithTop(f)
    BY DEF AwaitTakes, TakeReply
  <2> HIDE DEF f, rest
  <2>4. QED
    BY <1>2, <2>1, <2>2, <2>3
<1>13. SelectTakes => FALSE
  <2> SUFFICES ASSUME SelectTakes PROVE FALSE
    OBVIOUS
  <2> DEFINE f == [Top EXCEPT !.phase = "body", !.awaiting = << >>]
  <2>1. frames # << >> /\ Top \in Frame /\ Top.phase = "select" /\ frames' = WithTop(f)
    BY <1>5 DEF SelectTakes, TakeReply
  <2>2. << >> \in Seq(Slot)
    BY EmptySeq
  <2>3. f \in Frame /\ f.phase = "body"
    BY <2>1, <2>2 DEF Frame, FrameRecord, Live
  <2> HIDE DEF f
  <2>4. QED
    BY <1>2, <2>1, <2>3
<1>14. ASSUME NEW m \in actor_mailbox, Dispatch(m) PROVE FALSE
  <2>1. m.actor_id \in Id /\ m.reply_slot \in Slot \cup {NoSlot}
    BY DEF TypeOK, Message
  <2>2. actor_instances \in [Id -> Instance] /\ frames \in Seq(Frame)
    BY DEF TypeOK
  <2>3. TurnBegins(m.actor_id, "turn", m.reply_slot, actor_instances, frames)
    BY <1>14, <2>1, <2>2 DEF Dispatch, TurnBegins
  <2>4. QED
    BY <1>4, <2>3
<1>15. Pump => FALSE
  <2>1. ASSUME Stall PROVE FALSE
    BY <1>5, <2>1 DEF Stall, Pumping, Fail
  <2>2. AwaitUnavailable \/ SelectUnavailable \/ DrainEnds => FALSE
    BY <1>5 DEF AwaitUnavailable, SelectUnavailable, DrainEnds, Fail
  <2>3. QED
    BY <1>12, <1>13, <1>14, <2>1, <2>2 DEF Pump
<1>16. ASSUME TopIs("ended")
       PROVE  LET f == [Top EXCEPT !.phase = "reply"]
              IN  /\ frames' # WithTop(f) /\ WithTop(f) \in Seq(Frame)
                  /\ Top.actor_id \in Id
  <2> DEFINE f == [Top EXCEPT !.phase = "reply"]
  <2>1. frames # << >> /\ Top \in Frame /\ Top.phase = "ended"
    BY <1>5, <1>16
  <2>2. f \in Frame /\ f.phase = "reply" /\ Top.actor_id \in Id
    BY <2>1 DEF Frame, FrameRecord, Live
  <2> HIDE DEF f
  <2>3. frames' # WithTop(f) /\ WithTop(f) \in Seq(Frame)
    BY <1>2, <2>1, <2>2, TopIsFrame
  <2>4. QED
    BY <2>2, <2>3 DEF f
<1>17. NoDeferred \/ DeferredStop \/ DeferredRestart \/ DeferredRestartLoops => FALSE
  BY <1>5, <1>6, <1>16 DEF NoDeferred, DeferredStop, DeferredRestart,
     DeferredRestartLoops, Fail
<1>18. SpawnReturns \/ RestartReturns \/ Unsupervised \/ SuperviseStop
       \/ SuperviseRestartDeferred => FALSE
  BY <1>3 DEF SpawnReturns, RestartReturns, Unsupervised, SuperviseStop,
     SuperviseRestartDeferred, TopIs
<1>19. SuperviseRestart => FALSE
  <2> SUFFICES ASSUME SuperviseRestart PROVE FALSE
    OBVIOUS
  <2>1. frames # << >> /\ RestartActor(Top.cursor, Popped) /\ Top.phase = "supervise"
    BY DEF SuperviseRestart, TopIs
  <2>2. Top.cursor \in Id /\ Popped \in Seq(Frame)
    BY <2>1, TopIsFrame DEF Frame, FrameRecord, Live
  <2>3. QED
    BY <1>6, <2>1, <2>2
<1>20. QED
  BY <1>11, <1>15, <1>17, <1>18, <1>19 DEF Next, Supervision, Ended

(* Who supervises an actor, and how, is settled when it is spawned.         *)
SameOrders ==
    \A a \in Id :
        /\ actor_instances'[a].supervisor = actor_instances[a].supervisor
        /\ actor_instances'[a].policy = actor_instances[a].policy

LEMMA FieldsApart ==
    ASSUME NEW I \in [Id -> Instance], NEW id \in Id, NEW x, NEW a \in Id
    PROVE  /\ [I EXCEPT ![id].state = x][a].supervisor = I[a].supervisor
           /\ [I EXCEPT ![id].state = x][a].policy = I[a].policy
           /\ [I EXCEPT ![id].stopped = x][a].supervisor = I[a].supervisor
           /\ [I EXCEPT ![id].stopped = x][a].policy = I[a].policy
<1>1. I[a] \in Instance /\ I[id] \in Instance
  OBVIOUS
<1>2. CASE a = id
  BY <1>1, <1>2 DEF Instance
<1>3. CASE a # id
  BY <1>3
<1>4. QED
  BY <1>2, <1>3

LEMMA SameOrdersStop ==
    ASSUME TypeOK, NEW id \in Id,
           StopActor(id) \/ StopOrDefer(id) \/ UNCHANGED actor_instances
    PROVE  SameOrders
<1>1. \/ UNCHANGED actor_instances
      \/ actor_instances' = [actor_instances EXCEPT ![id].stopped = TRUE]
  BY DEF StopOrDefer, StopActor
<1>2. actor_instances \in [Id -> Instance]
  BY DEF TypeOK
<1>3. CASE UNCHANGED actor_instances
  BY <1>3 DEF SameOrders
<1>4. CASE actor_instances' = [actor_instances EXCEPT ![id].stopped = TRUE]
  BY <1>2, <1>4, FieldsApart DEF SameOrders
<1>5. QED
  BY <1>1, <1>3, <1>4

LEMMA SameOrdersRestart ==
    ASSUME TypeOK, NEW id \in Id, NEW below, RestartActor(id, below)
    PROVE  SameOrders
<1> DEFINE instances == [actor_instances EXCEPT ![id].state = incarnation[id] + 1]
<1>1. incarnation[id] + 1 \in Nat /\ actor_instances \in [Id -> Instance]
  BY DEF TypeOK
<1>2. instances \in [Id -> Instance]
  BY <1>1, StateType
<1>3. \A a \in Id : /\ instances[a].supervisor = actor_instances[a].supervisor
                    /\ instances[a].policy = actor_instances[a].policy
  BY <1>1, FieldsApart
<1>4. actor_instances' = [instances EXCEPT ![id].state = Taken]
  BY DEF RestartActor, BeginTurn
<1> HIDE DEF instances
<1>5. \A a \in Id : /\ actor_instances'[a].supervisor = instances[a].supervisor
                    /\ actor_instances'[a].policy = instances[a].policy
  BY <1>2, <1>4, FieldsApart
<1>6. QED
  BY <1>3, <1>5 DEF SameOrders

(* A new actor is younger than whoever is running, its supervisor.           *)
LEMMA OlderKept ==
    ASSUME TypeOK, StackInvariant, StackDiscipline, OlderSupervisors, Next
    PROVE  OlderSupervisors'
<1> USE DEF instanceVars, mailVars, slotVars, turnVars
<1>1. ASSUME SameOrders PROVE OlderSupervisors'
  BY <1>1 DEF SameOrders, OlderSupervisors
<1>2. ASSUME UNCHANGED actor_instances PROVE OlderSupervisors'
  BY <1>2 DEF OlderSupervisors
<1>3. ASSUME NEW policy \in Policies, Spawn(policy) PROVE OlderSupervisors'
  <2> DEFINE new == [supervisor |-> current_actor, policy |-> policy,
                     stopped |-> FALSE, state |-> 1]
  <2>1. PICK id : id = spawned + 1
    OBVIOUS
  <2> DEFINE instances == [actor_instances EXCEPT ![id] = new]
  <2>2. id \in Id /\ current_actor < id
    BY <1>3, <2>1, BoundsAssumption
       DEF Spawn, TypeOK, Id, Main, StackInvariant, OnlySpawnedNamed
  <2>3. new \in Instance /\ new.supervisor = current_actor
    BY PoliciesAssumption DEF Instance, TypeOK
  <2>4. actor_instances' = [instances EXCEPT ![id].state = Taken]
    BY <1>3, <2>1 DEF Spawn, BeginTurn
  <2> HIDE DEF new
  <2>5. instances \in [Id -> Instance]
    BY <2>2, <2>3 DEF TypeOK
  <2>6. \A a \in Id : instances[a].supervisor < a
    BY <2>2, <2>3 DEF TypeOK, OlderSupervisors
  <2> HIDE DEF instances
  <2>7. QED
    BY <2>2, <2>4, <2>5, <2>6, FieldsApart DEF OlderSupervisors
<1>4. ASSUME NEW reply \in {"ok", "err"}, EndTurn(reply) PROVE OlderSupervisors'
  <2>1. Top.actor_id \in Id
    BY <1>4, TopIsFrame DEF EndTurn, TopIs, Frame, FrameRecord
  <2>2. /\ actor_instances' = [actor_instances EXCEPT ![Top.actor_id].state = Top.env]
        /\ actor_instances \in [Id -> Instance]
    BY <1>4 DEF EndTurn, TypeOK
  <2>3. QED
    BY <1>1, <2>1, <2>2, FieldsApart DEF SameOrders
<1>5. ASSUME NEW m \in actor_mailbox, Dispatch(m) PROVE OlderSupervisors'
  <2>1. m.actor_id \in Id
    BY DEF TypeOK, Message
  <2>2. /\ actor_instances' = [actor_instances EXCEPT ![m.actor_id].state = Taken]
        /\ actor_instances \in [Id -> Instance]
    BY <1>5 DEF Dispatch, BeginTurn, TypeOK
  <2>3. QED
    BY <1>1, <2>1, <2>2, FieldsApart DEF SameOrders
<1>6. CASE Body
  BY <1>2, <1>3, <1>4, <1>6 DEF Body, Tell, Ask, Await, Select, Wait, SelectNothing,
     EndTurnOnTakenState, EndMain, Throw, Fail
<1>7. CASE Pump
  BY <1>2, <1>5, <1>7 DEF Pump, AwaitTakes, SelectTakes, TakeReply, AwaitUnavailable,
     SelectUnavailable, Stall, DrainEnds, Fail
<1>8. ASSUME NEW phase \in {"ended", "supervise"}, TopIs(phase)
      PROVE  Top.actor_id \in Id /\ Top.cursor \in Id
  BY <1>8, TopIsFrame DEF TopIs, Frame, FrameRecord, Live
<1>9. DeferredStop \/ SuperviseStop \/ Escalate => OlderSupervisors'
  BY <1>1, <1>8, SameOrdersStop DEF DeferredStop, SuperviseStop, Escalate
<1>10. DeferredRestart \/ SuperviseRestart => OlderSupervisors'
  BY <1>1, <1>8, SameOrdersRestart DEF DeferredRestart, SuperviseRestart
<1>11. CASE Supervision
  BY <1>2, <1>9, <1>10, <1>11 DEF Supervision, NoDeferred, DeferredRestartLoops,
     SpawnReturns, RestartReturns, PublishReply, Unsupervised,
     SuperviseRestartDeferred, EscalatedToUnsupervised, Fail
<1>12. CASE Ended
  BY <1>2, <1>12 DEF Ended, vars
<1>13. QED
  BY <1>6, <1>7, <1>11, <1>12 DEF Next

(* The failure starts at the actor that failed.                             *)
LEMMA EscalationStarts ==
    ASSUME TypeOK, StackDiscipline, OlderSupervisors, PublishReply,
           NEW id \in Id, NEW c \in Id, Escalating(id, c)'
    PROVE  /\ c = id /\ c \in Chain(id)' /\ \A a \in Chain(id)' : ~ (a > c)
           /\ outcome' = "running"
<1> USE DEF instanceVars, mailVars, slotVars, turnVars
<1> DEFINE f == [Top EXCEPT !.phase = "supervise"]
<1>1. /\ frames # << >> /\ Top \in Frame /\ Top.phase = "reply" /\ Top.kind = "turn"
      /\ outcome = "running" /\ Orderly(Top, asked)
      /\ UNCHANGED <<actor_instances, outcome>>
  BY TopIsFrame, TopOrderly DEF PublishReply, TopIs, Running
<1>2. f \in Frame /\ f.cursor = Top.cursor /\ f.actor_id = Top.actor_id
  BY <1>1 DEF Frame, FrameRecord, Live
<1>3. Top.cursor = Top.actor_id
  BY <1>1 DEF Orderly
<1>4. frames' # Popped
  BY <1>1, NewTop DEF Escalating, Live
<1>5. frames' = WithTop(f)
  BY <1>4 DEF PublishReply
<1> HIDE DEF f
<1>6. Top' = f
  BY <1>1, <1>2, <1>5, NewTop
<1>7. c = id
  BY <1>2, <1>3, <1>6 DEF Escalating
<1>8. Chain(id)' = Chain(id)
  BY <1>1, ChainStays
<1>9. id \in Chain(id) /\ \A a \in Chain(id) : a <= id /\ a \in Id
  BY ChainFacts
<1>10. QED
  BY <1>1, <1>7, <1>8, <1>9 DEF Id

(* It goes up from an actor whose policy is to escalate, which stops.        *)
LEMMA EscalationClimbs ==
    ASSUME TypeOK, PoliciesAgree, EscalationInvariant, Escalate,
           NEW id \in Id, NEW old \in Id, Escalating(id, old)
    PROVE  /\ SameOrders /\ Chain(id)' = Chain(id) /\ old \in Chain(id)
           /\ actor_instances[old].policy = "Escalate"
           /\ \A a \in Chain(id) : a >= old =>
                /\ a # old => actor_instances[a].supervisor >= old
                /\ actor_instances[a].policy = "Escalate"
                /\ actor_instances'[a].stopped \/ pending_supervision'[a] = "Stop"
<1>1. Top.cursor = old /\ Top.actor_id = id /\ frames # << >>
  BY DEF Escalating
<1>2. StopOrDefer(old) /\ actor_instances[old].policy = "Escalate"
  BY <1>1 DEF Escalate, PolicyAt
<1>3. SameOrders
  BY <1>2, SameOrdersStop
<1>4. Chain(id)' = Chain(id)
  BY <1>3, ChainStays DEF SameOrders
<1>5. /\ old \in Chain(id)
      /\ \A a \in Chain(id) : a > old =>
           /\ actor_instances[a].supervisor >= old
           /\ actor_instances[a].policy = "Escalate"
           /\ actor_instances[a].stopped \/ pending_supervision[a] = "Stop"
  BY DEF EscalationInvariant
<1>6. \A a \in Chain(id) : a \in Id
  BY DEF Chain
<1>7. pending_supervision[old] \in {"none", "Stop"}
  BY <1>2 DEF TypeOK, PoliciesAgree
<1>8. actor_instances'[old].stopped \/ pending_supervision'[old] = "Stop"
  <2>1. CASE StopActor(old)
    BY <2>1 DEF StopActor, TypeOK, Instance
  <2>2. CASE Defer(old, "Stop")
    BY <1>7, <2>2 DEF Defer, TypeOK
  <2>3. QED
    BY <1>2, <2>1, <2>2 DEF StopOrDefer
<1>9. ASSUME NEW a \in Id, a # old, actor_instances[a].stopped \/ pending_supervision[a] = "Stop"
      PROVE  actor_instances'[a].stopped \/ pending_supervision'[a] = "Stop"
  <2>1. CASE StopActor(old) /\ UNCHANGED pending_supervision
    BY <1>9, <2>1 DEF StopActor, TypeOK, Instance
  <2>2. CASE Defer(old, "Stop") /\ UNCHANGED actor_instances
    BY <1>9, <2>2 DEF Defer, TypeOK
  <2>3. QED
    BY <1>2, <2>1, <2>2 DEF StopOrDefer
<1>10. \A a \in Chain(id) : a >= old => a = old \/ a > old
  BY <1>6 DEF Id
<1>11. QED
  BY <1>2, <1>3, <1>4, <1>5, <1>6, <1>8, <1>9, <1>10

LEMMA EscalationKept ==
    ASSUME TypeOK, StackInvariant, StackDiscipline, PoliciesAgree,
           EscalationInvariant, [Next]_vars
    PROVE  EscalationInvariant'
<1> USE DEF instanceVars, mailVars, slotVars, turnVars
<1>1. CASE UNCHANGED vars
  BY <1>1 DEF vars, EscalationInvariant, Escalating, Top, Chain, Upward
<1>2. CASE Next /\ Running
  <2>1. OlderSupervisors /\ OlderSupervisors'
    BY <1>2, OlderKept DEF EscalationInvariant, OlderSupervisors
  <2>2. SUFFICES ASSUME NEW id \in Id, NEW c \in Id, Escalating(id, c)'
                 PROVE  /\ c \in Chain(id)'
                        /\ \A a \in Chain(id)' : a > c =>
                             /\ actor_instances'[a].supervisor >= c
                             /\ actor_instances'[a].policy = "Escalate"
                             /\ \/ actor_instances'[a].stopped
                                \/ pending_supervision'[a] = "Stop"
                        /\ outcome' = "L0362" =>
                             \/ actor_instances'[c].policy = "none" /\ c # id
                             \/ /\ actor_instances'[c].policy = "Escalate"
                                /\ actor_instances'[c].supervisor = Main
    BY <2>1 DEF EscalationInvariant, OlderSupervisors
  <2>3. PublishReply \/ Escalate \/ EscalatedToUnsupervised
    BY <1>2, <2>2, SuperviseArises DEF Escalating
  <2>4. CASE PublishReply
    BY <2>1, <2>2, <2>4, EscalationStarts
  <2>5. CASE EscalatedToUnsupervised
    <3>1. /\ UNCHANGED <<actor_instances, pending_supervision, frames>>
          /\ outcome' = "L0362" /\ actor_instances[Top.cursor].policy = "none"
          /\ Top.cursor # Top.actor_id
      BY <2>5 DEF EscalatedToUnsupervised, Fail, PolicyAt
    <3>2. Escalating(id, c) /\ Chain(id)' = Chain(id)
      BY <2>2, <3>1, ChainStays DEF Escalating, Top
    <3>3. actor_instances[c].policy = "none" /\ c # id
      BY <3>1, <3>2 DEF Escalating
    <3>4. QED
      BY <3>1, <3>2, <3>3 DEF EscalationInvariant
  <2>6. CASE Escalate
    <3>1. frames # << >> /\ Top \in Frame /\ Top.phase = "supervise" /\ Running
      BY <2>6, TopIsFrame DEF Escalate, TopIs
    <3>2. PICK failed \in Id, old \in Id : Escalating(failed, old)
      BY <3>1 DEF Escalating, Frame, FrameRecord, Live
    <3>3. PICK up : up = actor_instances[old].supervisor
      OBVIOUS
    <3>4. /\ SameOrders /\ Chain(failed)' = Chain(failed) /\ old \in Chain(failed)
          /\ actor_instances[old].policy = "Escalate"
          /\ \A a \in Chain(failed) : a >= old =>
                /\ a # old => actor_instances[a].supervisor >= old
                /\ actor_instances[a].policy = "Escalate"
                /\ actor_instances'[a].stopped \/ pending_supervision'[a] = "Stop"
      BY <2>6, <3>2, EscalationClimbs
    <3>5. /\ \A a \in Chain(failed) : a \in Id
          /\ up \in Id => up \in Chain(failed)
          /\ up < old /\ up \in Id \cup {Main}
      BY <2>1, <3>2, <3>3, <3>4, ChainFacts DEF OlderSupervisors, TypeOK, Instance
    <3>6. \A a \in Id : actor_instances'[a].supervisor \in Id \cup {Main}
      BY <3>4 DEF SameOrders, TypeOK, Instance
    <3>7. CASE up = Main
      <4>1. UNCHANGED frames /\ outcome' = "L0362"
        BY <2>6, <3>2, <3>3, <3>7 DEF Escalate, Escalating
      <4>2. id = failed /\ c = old
        BY <2>2, <3>2, <4>1 DEF Escalating, Top
      <4>3. \A a \in Id : a > old => a >= old /\ a # old
        BY DEF Id
      <4>4. QED
        BY <3>3, <3>4, <3>5, <3>7, <4>2, <4>3 DEF SameOrders
    <3>8. CASE up # Main
      <4> DEFINE f == [Top EXCEPT !.cursor = up]
      <4>1. up \in Id
        BY <3>5, <3>8
      <4>2. f \in Frame /\ f.actor_id = Top.actor_id /\ f.cursor = up
        BY <3>1, <4>1, CursorFrame
      <4>3. frames' = WithTop(f) /\ outcome' = "running"
        BY <2>6, <3>1, <3>2, <3>3, <3>8 DEF Escalate, Escalating, Running
      <4> HIDE DEF f
      <4>4. Top' = f
        BY <3>1, <4>2, <4>3, NewTop
      <4>5. id = failed /\ c = up
        BY <2>2, <3>2, <4>2, <4>4 DEF Escalating
      <4>6. ASSUME NEW a \in Chain(failed), a > up
            PROVE  /\ a >= old
                   /\ actor_instances[a].supervisor >= up
        <5>1. a \in Id /\ (a >= old \/ a <= up)
          BY <3>2, <3>3, <3>5, ChainBeyond
        <5>2. a >= old
          BY <4>1, <4>6, <5>1 DEF Id
        <5>3. CASE a = old
          BY <3>3, <4>1, <5>3 DEF Id
        <5>4. CASE a # old
          <6>1. actor_instances[a].supervisor >= old
            BY <3>4, <5>2, <5>4
          <6>2. actor_instances[a].supervisor \in Id \cup {Main}
            BY <5>1 DEF TypeOK, Instance
          <6>3. QED
            BY <3>5, <4>1, <5>2, <6>1, <6>2 DEF Id, Main
        <5>5. QED
          BY <5>2, <5>3, <5>4
      <4>7. QED
        BY <3>4, <3>5, <4>1, <4>3, <4>5, <4>6 DEF SameOrders
    <3>9. QED
      BY <3>7, <3>8
  <2>7. QED
    BY <2>3, <2>4, <2>5, <2>6
<1>3. QED
  BY <1>1, <1>2, EndedStays

LEMMA EscalationInductive == Spec => []EscalationInvariant
<1>1. Init => EscalationInvariant
  <2> SUFFICES ASSUME Init PROVE EscalationInvariant
    OBVIOUS
  <2>1. /\ \A id \in Id : actor_instances[id].supervisor = 0 /\ 0 < id
        /\ frames = <<NewFrame(Main, "main", NoSlot)>>
    BY DEF Init, Id, Main
  <2>2. frames[Len(frames)].phase = "body"
    BY <2>1 DEF NewFrame
  <2>3. QED
    BY <2>1, <2>2 DEF EscalationInvariant, Escalating, Top, Last
<1>2. TypeOK /\ StackInvariant /\ StackDiscipline /\ PoliciesAgree
      /\ EscalationInvariant /\ [Next]_vars => EscalationInvariant'
  BY EscalationKept
<1>3. QED
  BY <1>1, <1>2, TypeCorrect, StackCorrect, DisciplineCorrect, SilentCorrect, PTL
     DEF Spec

(* An escalating failure stops every actor it passes, and at L0362 nobody on  *)
(* the chain was left who could have handled it.                            *)
THEOREM EscalationCorrect == Spec => []EscalationStopsChain
<1>1. TypeOK /\ StackDiscipline /\ EscalationInvariant => EscalationStopsChain
  <2> SUFFICES ASSUME TypeOK, StackDiscipline, EscalationInvariant,
                      NEW i \in DOMAIN frames, frames[i].phase = "supervise"
               PROVE  LET failed == frames[i].actor_id
                          passed == {a \in Chain(failed) : a > frames[i].cursor}
                          left   == Chain(failed) \ (passed \cup {frames[i].cursor})
                      IN  /\ frames[i].cursor \in Chain(failed)
                          /\ \A a \in passed :
                               /\ actor_instances[a].policy = "Escalate"
                               /\ \/ actor_instances[a].stopped
                                  \/ pending_supervision[a] = "Stop"
                          /\ outcome = "L0362" =>
                               \/ PolicyAt = "none" /\ passed # {}
                               \/ PolicyAt = "Escalate" /\ left = {}
    BY DEF EscalationStopsChain
  <2>1. PICK n : n = Len(frames)
    OBVIOUS
  <2>2. /\ DOMAIN frames = 1..n /\ n \in Nat /\ frames # << >>
        /\ \A j \in 1..n : frames[j] \in Frame
    BY <2>1, LenProperties, EmptySeq, ElementOfSeq DEF TypeOK
  <2>3. i = n /\ frames[i] = Top /\ Top \in Frame
    <3>1. Beneath(frames, i)
      BY DEF StackDiscipline, DisciplineOn
    <3>2. QED
      BY <2>1, <2>2, <3>1, TopIsFrame DEF Beneath, Live
  <2>4. PICK failed \in Id, c \in Id : failed = Top.actor_id /\ c = Top.cursor
    BY <2>3 DEF Frame, FrameRecord, Live
  <2>5. Escalating(failed, c)
    BY <2>2, <2>3, <2>4 DEF Escalating
  <2>6. /\ c \in Chain(failed)
        /\ \A a \in Chain(failed) : a > c =>
              /\ actor_instances[a].supervisor >= c
              /\ actor_instances[a].policy = "Escalate"
              /\ actor_instances[a].stopped \/ pending_supervision[a] = "Stop"
        /\ outcome = "L0362" =>
              \/ actor_instances[c].policy = "none" /\ c # failed
              \/ /\ actor_instances[c].policy = "Escalate"
                 /\ actor_instances[c].supervisor = Main
    BY <2>5 DEF EscalationInvariant
  <2>7. PolicyAt = actor_instances[c].policy
    BY <2>4 DEF PolicyAt
  <2>8. /\ failed \in Chain(failed)
        /\ \A a \in Chain(failed) : a \in Id /\ a <= failed
    BY ChainFacts DEF EscalationInvariant, OlderSupervisors
  <2>9. c # failed => failed > c
    BY <2>6, <2>8 DEF Id
  <2>10. ASSUME actor_instances[c].supervisor = Main, NEW a \in Chain(failed)
         PROVE  a > c \/ a = c
    BY <2>5, <2>8, <2>10, ChainBeyond DEF Id, Main
  <2>11. QED
    BY <2>3, <2>4, <2>6, <2>7, <2>8, <2>9, <2>10
<1>2. QED
  BY <1>1, TypeCorrect, DisciplineCorrect, EscalationInductive, PTL

-----------------------------------------------------------------------------
(* The scheduler implements the abstract actor model: every step of the one   *)
(* stack and the one queue is a step of ActorModel or changes nothing there.  *)
Inbox(id) == {m \in actor_mailbox : m.actor_id = id}

-----------------------------------------------------------------------------
(* The abstract steps, one actor and one request at a time.                  *)

(* What a step leaves of the abstract state.                                *)
SameStatus(ids)  == \A id \in Id \ ids : StatusOf(id)' = StatusOf(id)
SameInboxes(ids) == \A id \in Id \ ids : Inbox(id)' = Inbox(id)
SameFates(ss)    == \A s \in Slot \ ss : FateOf(s)' = FateOf(s)

LEMMA AbstractStutter ==
    ASSUME SameStatus({}), SameInboxes({}), SameFates({}), UNCHANGED target
    PROVE  UNCHANGED AM!mvars
BY DEF AM!mvars, SameStatus, SameInboxes, SameFates, Inbox

LEMMA AbstractCreate ==
    ASSUME NEW id \in Id, SameStatus({id}), SameInboxes({}), SameFates({}),
           UNCHANGED target, StatusOf(id) = "none", StatusOf(id)' = "running"
    PROVE  AM!MNext
<1>1. AM!Create(id)
  BY DEF AM!Create, SameStatus, SameInboxes, SameFates, Inbox
<1>2. QED
  BY <1>1 DEF AM!MNext

LEMMA AbstractFinish ==
    ASSUME NEW id \in Id, SameStatus({id}), SameInboxes({}), SameFates({}),
           UNCHANGED target, StatusOf(id) = "running", StatusOf(id)' = "idle"
    PROVE  AM!MNext
<1>1. AM!FinishTurn(id)
  BY DEF AM!FinishTurn, SameStatus, SameInboxes, SameFates, Inbox
<1>2. QED
  BY <1>1 DEF AM!MNext

LEMMA AbstractReinit ==
    ASSUME NEW id \in Id, SameStatus({id}), SameInboxes({}), SameFates({}),
           UNCHANGED target, StatusOf(id) = "idle", StatusOf(id)' = "running"
    PROVE  AM!MNext
<1>1. AM!Reinit(id)
  BY DEF AM!Reinit, SameStatus, SameInboxes, SameFates, Inbox
<1>2. QED
  BY <1>1 DEF AM!MNext

LEMMA AbstractAnswer ==
    ASSUME NEW s \in Slot, SameStatus({}), SameInboxes({}), SameFates({s}),
           UNCHANGED target, FateOf(s) = "serving", FateOf(s)' = "answered"
    PROVE  AM!MNext
<1>1. AM!Answer(s)
  BY DEF AM!Answer, SameStatus, SameInboxes, SameFates, Inbox
<1>2. QED
  BY <1>1 DEF AM!MNext

LEMMA AbstractConsume ==
    ASSUME NEW s \in Slot, SameStatus({}), SameInboxes({}), SameFates({s}),
           UNCHANGED target, FateOf(s) = "answered", FateOf(s)' = "consumed"
    PROVE  AM!MNext
<1>1. AM!Consume(s)
  BY DEF AM!Consume, SameStatus, SameInboxes, SameFates, Inbox
<1>2. QED
  BY <1>1 DEF AM!MNext

LEMMA AbstractTell ==
    ASSUME TypeOK, NEW id \in Id, NEW m, m.reply_slot = NoSlot,
           SameStatus({}), SameInboxes({id}), SameFates({}), UNCHANGED target,
           StatusOf(id) \in {"idle", "running"}, m.ticket \in Nat,
           \A n \in Inbox(id) : n.ticket < m.ticket,
           Inbox(id)' = Inbox(id) \cup {m}
    PROVE  AM!MNext
<1>1. AM!Send(id, m)
  BY DEF AM!Send, SameStatus, SameInboxes, SameFates, Inbox
<1>2. m \in {n \in actor_mailbox : n.actor_id = id}'
  BY DEF Inbox
<1>3. QED
  BY <1>1, <1>2 DEF AM!MNext

LEMMA AbstractAsk ==
    ASSUME TypeOK, NEW id \in Id, NEW m, NEW s \in Slot, m.reply_slot = s,
           SameStatus({}), SameInboxes({id}), SameFates({s}),
           target' = [target EXCEPT ![s] = id],
           StatusOf(id) \in {"idle", "running"}, m.ticket \in Nat,
           \A n \in Inbox(id) : n.ticket < m.ticket,
           Inbox(id)' = Inbox(id) \cup {m},
           FateOf(s) = "unused", FateOf(s)' = "queued"
    PROVE  AM!MNext
<1>1. s # NoSlot
  BY DEF Slot, NoSlot
<1>2. AM!Send(id, m)
  BY <1>1 DEF AM!Send, SameStatus, SameInboxes, SameFates, Inbox
<1>3. m \in {n \in actor_mailbox : n.actor_id = id}'
  BY DEF Inbox
<1>4. QED
  BY <1>2, <1>3 DEF AM!MNext

LEMMA AbstractRefuse ==
    ASSUME TypeOK, NEW id \in Id, NEW s \in Slot,
           SameStatus({}), SameInboxes({}), SameFates({s}),
           target' = [target EXCEPT ![s] = id],
           StatusOf(id) = "stopped", FateOf(s) = "unused", FateOf(s)' = "refused"
    PROVE  AM!MNext
<1>1. AM!Refuse(id, s)
  BY DEF AM!Refuse, SameStatus, SameInboxes, SameFates, Inbox
<1>2. QED
  BY <1>1 DEF AM!MNext

LEMMA AbstractReceive ==
    ASSUME NEW id \in Id, NEW m \in Inbox(id), \A n \in Inbox(id) : m.ticket <= n.ticket,
           SameStatus({id}), SameInboxes({id}), SameFates({m.reply_slot}),
           UNCHANGED target, StatusOf(id) = "idle", StatusOf(id)' = "running",
           Inbox(id)' = Inbox(id) \ {m},
           m.reply_slot \in Slot => FateOf(m.reply_slot)' = "serving",
           m.reply_slot \in Slot \cup {NoSlot}
    PROVE  AM!MNext
<1>1. NoSlot \notin Slot
  BY DEF Slot, NoSlot
<1>2. [x \in Id |-> StatusOf(x)]' = [[x \in Id |-> StatusOf(x)] EXCEPT ![id] = "running"]
  BY DEF SameStatus
<1>3. [x \in Id |-> Inbox(x)]' = [[x \in Id |-> Inbox(x)] EXCEPT ![id] = @ \ {m}]
  BY DEF SameInboxes
<1>4. [s \in Slot |-> FateOf(s)]' =
         IF m.reply_slot = NoSlot THEN [s \in Slot |-> FateOf(s)]
         ELSE [[s \in Slot |-> FateOf(s)] EXCEPT ![m.reply_slot] = "serving"]
  BY <1>1 DEF SameFates
<1>5. AM!Receive(id)
  BY <1>2, <1>3, <1>4 DEF AM!Receive, AM!Oldest, Inbox
<1>6. QED
  BY <1>5 DEF AM!MNext

LEMMA AbstractStop ==
    ASSUME NEW id \in Id, SameStatus({id}), SameInboxes({id}), UNCHANGED target,
           SameFates({m.reply_slot : m \in Inbox(id)}),
           StatusOf(id) = "idle", StatusOf(id)' = "stopped", Inbox(id)' = {},
           \A m \in Inbox(id) : m.reply_slot \in Slot => FateOf(m.reply_slot)' = "refused"
    PROVE  AM!MNext
<1>1. [x \in Id |-> StatusOf(x)]' = [[x \in Id |-> StatusOf(x)] EXCEPT ![id] = "stopped"]
  BY DEF SameStatus
<1>2. [x \in Id |-> Inbox(x)]' = [[x \in Id |-> Inbox(x)] EXCEPT ![id] = {}]
  BY DEF SameInboxes
<1>3. AM!Messages(id) = {m.reply_slot : m \in Inbox(id)}
  BY DEF AM!Messages, Inbox
<1>4. \A s \in Slot : FateOf(s)' = IF s \in AM!Messages(id) THEN "refused" ELSE FateOf(s)
  BY <1>3 DEF SameFates
<1>5. AM!Stop(id)
  BY <1>1, <1>2, <1>4 DEF AM!Stop, Inbox
<1>6. QED
  BY <1>5 DEF AM!MNext

LEMMA AbstractAbandon ==
    ASSUME NEW ids \in SUBSET Id, NEW ss \in SUBSET Slot,
           SameStatus(ids), SameInboxes({}), SameFates(ss), UNCHANGED target,
           \A id \in ids : StatusOf(id) = "running" /\ StatusOf(id)' = "idle",
           \A s \in ss : FateOf(s) = "serving" /\ FateOf(s)' = "lost"
    PROVE  AM!MNext
<1>1. AM!Abandon(ids, ss)
  BY DEF AM!Abandon, SameStatus, SameInboxes, SameFates, Inbox
<1>2. QED
  BY <1>1 DEF AM!MNext

-----------------------------------------------------------------------------
(* What the ways a step changes the scheduler do to the abstract state.      *)

(* What the refinement rests on.                                           *)
Refining ==
    /\ TypeOK /\ StackInvariant /\ StackDiscipline /\ Silent
    /\ RequestsInvariant /\ TicketsSent

LEMMA TicketsInductive == Spec => []TicketsSent
<1>1. Init => TicketsSent
  BY DEF Init, TicketsSent
<1>2. TypeOK /\ TicketsSent /\ [Next]_vars => TicketsSent'
  <2> SUFFICES ASSUME TypeOK, TicketsSent, [Next]_vars PROVE TicketsSent'
    OBVIOUS
  <2> USE DEF instanceVars, mailVars, slotVars, turnVars
  <2>1. \A m \in actor_mailbox : m.ticket \in Nat
    BY DEF TypeOK, Message
  <2>2. ASSUME actor_mailbox' \subseteq actor_mailbox, UNCHANGED sent PROVE TicketsSent'
    BY <2>2 DEF TicketsSent
  <2>3. ASSUME NEW id, NEW slot, Enqueue(id, slot) PROVE TicketsSent'
    BY <2>1, <2>3 DEF Enqueue, NextTicket, TicketsSent, TypeOK
  <2>4. CASE Body
    BY <2>2, <2>3, <2>4 DEF Body, Spawn, Tell, Ask, Await, Select, Wait, SelectNothing,
       Fail, EndTurn, EndTurnOnTakenState, EndMain, Throw
  <2>5. CASE Pump
    BY <2>2, <2>5 DEF Pump, AwaitTakes, SelectTakes, TakeReply, AwaitUnavailable,
       SelectUnavailable, Dispatch, Stall, DrainEnds, Fail
  <2>6. CASE Supervision
    <3>1. ASSUME NEW id, StopActor(id) PROVE actor_mailbox' \subseteq actor_mailbox
      BY <3>1 DEF StopActor
    <3>2. ASSUME NEW id, StopOrDefer(id) PROVE actor_mailbox' \subseteq actor_mailbox
      BY <3>1, <3>2 DEF StopOrDefer
    <3>3. actor_mailbox' \subseteq actor_mailbox /\ UNCHANGED sent
      BY <2>6, <3>1, <3>2 DEF Supervision, NoDeferred, DeferredStop, DeferredRestart,
         DeferredRestartLoops, SpawnReturns, RestartReturns, PublishReply, Unsupervised,
         SuperviseStop, SuperviseRestart, SuperviseRestartDeferred, Escalate,
         EscalatedToUnsupervised, Fail
    <3>4. QED
      BY <2>2, <3>3
  <2>7. CASE UNCHANGED vars
    BY <2>2, <2>7 DEF vars
  <2>8. QED
    BY <2>4, <2>5, <2>6, <2>7 DEF Next, Ended
<1>3. QED
  BY <1>1, <1>2, TypeCorrect, PTL DEF Spec

LEMMA StatusesStay ==
    ASSUME NEW ids, UNCHANGED spawned,
           \A id \in Id \ ids :
               /\ actor_instances'[id].stopped = actor_instances[id].stopped
               /\ id \in busy_actors' <=> id \in busy_actors
    PROVE  SameStatus(ids)
BY DEF SameStatus, StatusOf

LEMMA InboxesStay ==
    ASSUME UNCHANGED actor_mailbox
    PROVE  SameInboxes({})
BY DEF SameInboxes, Inbox

LEMMA ServingMeans == \A s : Serving(s) # {} <=> \E i \in DOMAIN frames : Serves(frames[i], s)
BY DEF Serving, Serves

(* The fate of a request that is queued, or served, exactly when it was.     *)
LEMMA FateStays ==
    ASSUME NEW s \in Slot, actor_reply_slots'[s] = actor_reply_slots[s],
           s > asked' <=> s > asked, s \in taken' <=> s \in taken,
           Queued(s)' = {} <=> Queued(s) = {},
           (\E i \in DOMAIN frames' : Serves(frames'[i], s))
              <=> (\E i \in DOMAIN frames : Serves(frames[i], s))
    PROVE  FateOf(s)' = FateOf(s)
<1>1. Serving(s)' = {} <=> Serving(s) = {}
  BY DEF Serving, Serves
<1>2. QED
  BY <1>1 DEF FateOf

LEMMA ServedSame ==
    ASSUME SameService(frames, frames'), NEW s \in Slot
    PROVE  (\E i \in DOMAIN frames' : Serves(frames'[i], s))
             <=> (\E i \in DOMAIN frames : Serves(frames[i], s))
BY DEF SameService, LessService

LEMMA FatesStay ==
    ASSUME SlotsStay, SameService(frames, frames')
    PROVE  SameFates({})
<1>1. SUFFICES ASSUME NEW s \in Slot PROVE FateOf(s)' = FateOf(s)
  BY DEF SameFates
<1>2. UNCHANGED <<actor_reply_slots, asked, taken, Queued(s)>>
  BY DEF SlotsStay, Queued
<1>3. QED
  BY <1>2, ServedSame, FateStays

(* A step the abstract actors do not see.                                   *)
LEMMA NothingSeen ==
    ASSUME SlotsStay, StopsNobody, UNCHANGED <<spawned, busy_actors>>,
           SameService(frames, frames')
    PROVE  UNCHANGED AM!mvars
<1>1. SameStatus({})
  BY StatusesStay DEF StopsNobody
<1>2. SameInboxes({}) /\ UNCHANGED target
  BY InboxesStay DEF SlotsStay
<1>3. QED
  BY <1>1, <1>2, FatesStay, AbstractStutter

-----------------------------------------------------------------------------
(* The operations of a body.                                               *)

LEMMA SpawnRefines ==
    ASSUME Refining, NEW policy \in Policies, Spawn(policy),
           SameService(frames, frames')
    PROVE  AM!MNext
<1>1. TypeOK
  BY DEF Refining
<1>2. PICK new \in Id : new = spawned + 1
  BY <1>1, SpawnStopsNobody
<1>3. /\ spawned' = new /\ ~ actor_instances'[new].stopped
      /\ \A id \in Id \ {new} :
            actor_instances'[id].stopped = actor_instances[id].stopped
  BY <1>1, <1>2, SpawnStopsNobody
<1>4. busy_actors' = busy_actors \cup {new} /\ SlotsStay
  BY <1>2 DEF Spawn, BeginTurn, SlotsStay, mailVars, slotVars
<1>5. /\ new > spawned /\ ~ (new > new)
      /\ \A id \in Id \ {new} : id > spawned <=> id > new
  BY <1>1, <1>2, BoundsAssumption DEF TypeOK, Id
<1>6. SameStatus({new})
  BY <1>3, <1>4, <1>5 DEF SameStatus, StatusOf
<1>7. StatusOf(new) = "none" /\ StatusOf(new)' = "running"
  BY <1>3, <1>4, <1>5 DEF StatusOf
<1>8. SameInboxes({}) /\ UNCHANGED target /\ SameFates({})
  BY <1>4, FatesStay, InboxesStay DEF SlotsStay
<1>9. QED
  BY <1>6, <1>7, <1>8, AbstractCreate

(* A handle a program holds is one of a spawned actor.                       *)
LEMMA KnownIsSpawned ==
    ASSUME Refining, NEW id \in Known
    PROVE  /\ TypeOK /\ id \in Id /\ ~ (id > spawned)
           /\ sent \in Nat /\ asked \in Nat
<1>1. TypeOK /\ OnlySpawnedNamed
  BY DEF Refining, StackInvariant
<1>2. /\ spawned \in 0..MaxActors /\ sent \in 0..MaxMessages /\ asked \in 0..MaxAsks
      /\ id \in handles
  BY <1>1 DEF TypeOK, Known
<1>3. id \in 1..spawned
  BY <1>1, <1>2 DEF OnlySpawnedNamed
<1>4. QED
  BY <1>1, <1>2, <1>3, BoundsAssumption DEF Id

LEMMA TellRefines ==
    ASSUME Refining, NEW id \in Known, Tell(id)
    PROVE  AM!MNext
<1> DEFINE m == [ticket |-> sent + 1, actor_id |-> id, reply_slot |-> NoSlot]
<1>1. TypeOK /\ id \in Id /\ ~ (id > spawned) /\ sent \in Nat
  BY KnownIsSpawned
<1>2. /\ actor_mailbox' = actor_mailbox \cup {m}
      /\ UNCHANGED <<actor_instances, spawned, busy_actors, frames>>
      /\ UNCHANGED <<actor_reply_slots, asked, target, taken>>
      /\ ~ actor_instances[id].stopped
  BY DEF Tell, Enqueue, NextTicket, instanceVars, slotVars, turnVars
<1>3. m.ticket = sent + 1 /\ m.actor_id = id /\ m.reply_slot = NoSlot
  OBVIOUS
<1>4. \A n \in Inbox(id) : n.ticket < m.ticket
  BY <1>1, <1>3 DEF Refining, TicketsSent, Inbox, TypeOK, Message
<1> HIDE DEF m
<1>5. SameStatus({})
  BY <1>2, StatusesStay
<1>6. SameInboxes({id}) /\ Inbox(id)' = Inbox(id) \cup {m}
  BY <1>2, <1>3 DEF SameInboxes, Inbox
<1>7. SameFates({})
  <2> SUFFICES ASSUME NEW s \in Slot PROVE FateOf(s)' = FateOf(s)
    BY DEF SameFates
  <2>1. s # NoSlot
    BY DEF Slot, NoSlot
  <2>2. Queued(s)' = Queued(s)
    BY <1>2, <1>3, <2>1 DEF Queued
  <2>3. QED
    BY <1>2, <2>2, FateStays
<1>8. StatusOf(id) \in {"idle", "running"}
  BY <1>1, <1>2 DEF StatusOf
<1>9. QED
  BY <1>1, <1>2, <1>3, <1>4, <1>5, <1>6, <1>7, <1>8, AbstractTell

(* A fresh slot: queued at a living actor, refused by a stopped one.         *)
LEMMA AskRefines ==
    ASSUME Refining, NEW id \in Known, Ask(id)
    PROVE  AM!MNext
<1>1. /\ TypeOK /\ id \in Id /\ ~ (id > spawned) /\ sent \in Nat /\ asked \in Nat
      /\ asked < MaxAsks
  BY KnownIsSpawned DEF Ask
<1>2. PICK s \in Slot : s = asked + 1
  BY <1>1, BoundsAssumption DEF Slot
<1>3. /\ asked' = s /\ target' = [target EXCEPT ![s] = id]
      /\ DOMAIN actor_reply_slots = Slot
      /\ actor_reply_slots' = [actor_reply_slots EXCEPT ![s] =
            IF actor_instances[id].stopped THEN "Unavailable" ELSE "Pending"]
      /\ UNCHANGED <<actor_instances, spawned, busy_actors, frames, taken>>
  BY <1>1, <1>2 DEF Ask, TypeOK, instanceVars, turnVars
<1>4. /\ s > asked /\ ~ (s > asked')
      /\ \A r \in Slot \ {s} : r > asked <=> r > asked'
  BY <1>1, <1>2, <1>3, BoundsAssumption DEF Slot
<1>5. s \notin taken
  BY <1>1, <1>2 DEF Refining, RequestsInvariant, SlotsTell
<1>6. SameStatus({}) /\ FateOf(s) = "unused"
  BY <1>3, <1>4, StatusesStay DEF FateOf
<1>7. s # NoSlot
  BY DEF Slot, NoSlot
<1>8. CASE actor_instances[id].stopped
  <2>1. UNCHANGED actor_mailbox
    BY <1>8 DEF Ask, mailVars
  <2>2. SameFates({s})
    <3> SUFFICES ASSUME NEW r \in Slot \ {s} PROVE FateOf(r)' = FateOf(r)
      BY DEF SameFates
    <3>1. UNCHANGED Queued(r)
      BY <2>1 DEF Queued
    <3>2. QED
      BY <1>3, <1>4, <3>1, FateStays
  <2>3. FateOf(s)' = "refused"
    BY <1>3, <1>4, <1>8 DEF FateOf
  <2>4. StatusOf(id) = "stopped"
    BY <1>1, <1>8 DEF StatusOf
  <2>5. QED
    BY <1>1, <1>3, <1>6, <2>1, <2>2, <2>3, <2>4, InboxesStay, AbstractRefuse
<1>9. CASE ~ actor_instances[id].stopped
  <2> DEFINE m == [ticket |-> sent + 1, actor_id |-> id, reply_slot |-> s]
  <2>1. actor_mailbox' = actor_mailbox \cup {m}
    BY <1>2, <1>9 DEF Ask, Enqueue, NextTicket
  <2>2. m.ticket = sent + 1 /\ m.actor_id = id /\ m.reply_slot = s
    OBVIOUS
  <2>3. \A n \in Inbox(id) : n.ticket < m.ticket
    BY <1>1, <2>2 DEF Refining, TicketsSent, Inbox, TypeOK, Message
  <2> HIDE DEF m
  <2>4. SameInboxes({id}) /\ Inbox(id)' = Inbox(id) \cup {m}
    BY <2>1, <2>2 DEF SameInboxes, Inbox
  <2>5. SameFates({s})
    <3> SUFFICES ASSUME NEW r \in Slot \ {s} PROVE FateOf(r)' = FateOf(r)
      BY DEF SameFates
    <3>1. UNCHANGED Queued(r)
      BY <2>1, <2>2 DEF Queued
    <3>2. QED
      BY <1>3, <1>4, <3>1, FateStays
  <2>6. FateOf(s)' = "queued"
    <3>1. Queued(s)' # {}
      BY <2>1, <2>2 DEF Queued
    <3>2. actor_reply_slots'[s] = "Pending"
      BY <1>3, <1>9
    <3>3. QED
      BY <1>3, <1>4, <1>5, <3>1, <3>2 DEF FateOf
  <2>7. StatusOf(id) \in {"idle", "running"}
    BY <1>1, <1>9 DEF StatusOf
  <2>8. m.ticket \in Nat
    BY <1>1, <2>2
  <2>9. QED
    BY <1>1, <1>3, <1>6, <2>2, <2>3, <2>4, <2>5, <2>6, <2>7, <2>8, AbstractAsk
<1>10. QED
  BY <1>8, <1>9

LEMMA EndTurnRefines ==
    ASSUME Refining, NEW reply, EndTurn(reply), SameService(frames, frames')
    PROVE  AM!MNext
<1>1. TypeOK /\ frames # << >> /\ Top.phase = "body" /\ Top.kind # "main"
  BY DEF Refining, EndTurn, TopIs
<1>2. Top \in Frame /\ Top = frames[Len(frames)] /\ Len(frames) \in DOMAIN frames
  BY <1>1, TopIsFrame, LenProperties DEF TypeOK
<1>3. PICK id \in Id : id = Top.actor_id
  BY <1>1, <1>2 DEF Frame, FrameRecord
<1>4. id \in busy_actors /\ id <= spawned /\ spawned \in Nat
  <2>1. StackOK(frames, busy_actors, current_actor) /\ OnlySpawnedNamed
    BY DEF Refining, StackInvariant
  <2>2. id # Main /\ frames[Len(frames)].phase \in Live
    BY <1>1, <1>2 DEF Id, Main, Live
  <2>3. QED
    BY <1>1, <1>2, <1>3, <2>1, <2>2, BoundsAssumption DEF StackOK, OnlySpawnedNamed, TypeOK
<1>5. ~ actor_instances[id].stopped
  BY <1>4 DEF Refining, Silent, StoppedIsSilent
<1>6. StopsNobody /\ busy_actors' = busy_actors \ {id} /\ SlotsStay /\ UNCHANGED spawned
  BY <1>1, <1>3, EndTurnStopsNobody DEF EndTurn, SlotsStay, mailVars, slotVars
<1>7. SameStatus({id})
  BY <1>6, StatusesStay DEF StopsNobody
<1>8. StatusOf(id) = "running" /\ StatusOf(id)' = "idle"
  BY <1>4, <1>5, <1>6 DEF StatusOf, StopsNobody, Id
<1>9. QED
  BY <1>6, <1>7, <1>8, FatesStay, InboxesStay, AbstractFinish DEF SlotsStay

(* An error abandons the turns it unwinds, and the requests they served.     *)
LEMMA ThrowRefines ==
    ASSUME Refining, NEW k \in 0..Len(frames), Throw(k)
    PROVE  AM!MNext \/ UNCHANGED AM!mvars
<1>1. TypeOK
  BY DEF Refining
<1>2. SlotsStay /\ UNCHANGED <<actor_instances, spawned>>
  BY DEF Throw, SlotsStay, instanceVars, mailVars, slotVars
<1>3. CASE k = 0
  BY <1>2, <1>3, NothingSeen, SameServiceRefl DEF Throw, StopsNobody, turnVars
<1>4. CASE k # 0
  <2>1. k \in 1..(Len(frames) - 1)
    BY <1>1, <1>4, LenProperties DEF Throw, TypeOK
  <2>2. /\ DOMAIN frames' = 1..k /\ DOMAIN frames = 1..Len(frames)
        /\ Len(frames) \in Nat
        /\ \A i \in 1..(k - 1) : frames'[i] = frames[i]
        /\ \A i \in 1..k : /\ frames'[i].actor_id = frames[i].actor_id
                           /\ frames'[i].slot = frames[i].slot
        /\ frames[k].phase \in Live
    BY <1>1, <2>1, ThrowShape, LenProperties
  <2>3. \A i \in 1..k : i \in 1..Len(frames) /\ (i # k => i \in 1..(k - 1))
    BY <2>1, <2>2
  <2>4. LessService(frames, frames')
    BY <2>2, <2>3 DEF LessService, Serves, Live
  <2>5. busy_actors' = busy_actors \ Unwound(k)
    BY <1>4 DEF Throw
  <2> DEFINE ids == Id \cap busy_actors \cap Unwound(k)
             ss == {s \in Slot : /\ FateOf(s) = "serving"
                                 /\ \A i \in DOMAIN frames' : ~ Serves(frames'[i], s)}
  <2>6. SameStatus(ids)
    BY <1>2, <2>5, StatusesStay
  <2>7. ASSUME NEW id \in ids
        PROVE  StatusOf(id) = "running" /\ StatusOf(id)' = "idle"
    <3>1. ~ actor_instances[id].stopped
      BY DEF Refining, Silent, StoppedIsSilent
    <3>2. id <= spawned
      BY <1>1, <2>2 DEF Refining, StackInvariant, OnlySpawnedNamed, StackOK
    <3>3. QED
      BY <1>1, <1>2, <2>5, <3>1, <3>2, BoundsAssumption DEF StatusOf, Id, TypeOK
  <2>8. UNCHANGED <<actor_reply_slots, asked, taken>> /\ \A s : UNCHANGED Queued(s)
    BY <1>2 DEF SlotsStay, Queued
  <2>9. SameFates(ss)
    <3> SUFFICES ASSUME NEW s \in Slot \ ss PROVE FateOf(s)' = FateOf(s)
      BY DEF SameFates
    <3>1. CASE \E i \in DOMAIN frames' : Serves(frames'[i], s)
      BY <2>4, <2>8, <3>1, FateStays DEF LessService
    <3>2. CASE \A i \in DOMAIN frames' : ~ Serves(frames'[i], s)
      <4>1. FateOf(s) # "serving" /\ Serving(s)' = {}
        BY <3>2 DEF Serving, Serves
      <4>2. QED
        BY <2>8, <4>1 DEF FateOf
    <3>3. QED
      BY <3>1, <3>2
  <2>10. ASSUME NEW s \in ss
         PROVE  FateOf(s) = "serving" /\ FateOf(s)' = "lost"
    <3>1. FateOf(s) = "serving" /\ Serving(s)' = {}
      BY DEF Serving, Serves
    <3>2. QED
      BY <2>8, <3>1 DEF FateOf
  <2> HIDE DEF ids, ss
  <2>11. ids \in SUBSET Id /\ ss \in SUBSET Slot
    BY DEF ids, ss
  <2>12. QED
    BY <1>2, <2>6, <2>7, <2>9, <2>10, <2>11, InboxesStay, AbstractAbandon DEF SlotsStay
<1>5. QED
  BY <1>3, <1>4

-----------------------------------------------------------------------------
(* The pump.                                                               *)

LEMMA TakeRefines ==
    ASSUME Refining, NEW s \in Slot, NEW f, TakeReply(s, f),
           actor_reply_slots[s] = "Filled", SameService(frames, frames')
    PROVE  AM!MNext
<1>1. /\ DOMAIN actor_reply_slots = Slot
      /\ actor_reply_slots' = [actor_reply_slots EXCEPT ![s] = "Pending"]
      /\ taken' = taken \cup {s}
      /\ UNCHANGED <<actor_instances, spawned, busy_actors, actor_mailbox, asked, target>>
  BY DEF Refining, TypeOK, TakeReply, AfterTake, instanceVars, mailVars, turnVars
<1>2. s <= asked
  BY DEF Refining, RequestsInvariant, SlotsTell
<1>3. ~ (s > asked)
  BY <1>2 DEF Refining, TypeOK, Slot
<1>4. FateOf(s) = "answered" /\ FateOf(s)' = "consumed"
  BY <1>1, <1>3 DEF FateOf
<1>5. SameFates({s})
  <2> SUFFICES ASSUME NEW r \in Slot \ {s} PROVE FateOf(r)' = FateOf(r)
    BY DEF SameFates
  <2>1. UNCHANGED Queued(r)
    BY <1>1 DEF Queued
  <2>2. QED
    BY <1>1, <2>1, ServedSame, FateStays
<1>6. QED
  BY <1>1, <1>4, <1>5, StatusesStay, InboxesStay, AbstractConsume

(* The first deliverable message is the oldest of its actor's.               *)
LEMMA DispatchRefines ==
    ASSUME Refining, NEW m \in actor_mailbox, Dispatch(m)
    PROVE  AM!MNext
<1> DEFINE slot == m.reply_slot
           n == Len(frames)
<1>1. TypeOK /\ frames \in Seq(Frame)
  BY DEF Refining, TypeOK
<1>2. PICK id \in Id : id = m.actor_id
  BY <1>1 DEF TypeOK, Message
<1>3. slot \in Slot \cup {NoSlot} /\ NoSlot \notin Slot
  BY <1>1 DEF TypeOK, Message, Slot, NoSlot
<1>4. id \notin busy_actors /\ ~ actor_instances[id].stopped
  BY <1>2 DEF Dispatch, IsFirst, Deliverable
<1>5. ~ (id > spawned)
  BY <1>1, <1>2, BoundsAssumption
     DEF Refining, StackInvariant, OnlySpawnedNamed, TypeOK, Id
<1>6. /\ actor_mailbox' = actor_mailbox \ {m}
      /\ UNCHANGED <<spawned, actor_reply_slots, asked, target, taken>>
      /\ busy_actors' = busy_actors \cup {id}
      /\ actor_instances' = [actor_instances EXCEPT ![id].state = Taken]
      /\ BeginTurn(m.actor_id, "turn", slot, actor_instances, frames)
  BY <1>2 DEF Dispatch, BeginTurn, slotVars
<1>7. StopsNobody
  BY <1>1, <1>6, StateStopsNobody DEF TypeOK, StopsNobody
<1>8. SameStatus({id}) /\ StatusOf(id) = "idle" /\ StatusOf(id)' = "running"
  <2>1. SameStatus({id})
    BY <1>6, <1>7, StatusesStay DEF StopsNobody
  <2>2. QED
    BY <2>1, <1>4, <1>5, <1>6, <1>7 DEF StatusOf, StopsNobody
<1>9. SameInboxes({id}) /\ Inbox(id)' = Inbox(id) \ {m} /\ m \in Inbox(id)
  BY <1>2, <1>6 DEF SameInboxes, Inbox
<1>10. \A x \in Inbox(id) : m.ticket <= x.ticket
  BY <1>4 DEF Dispatch, IsFirst, Deliverable, Inbox
<1>11. /\ DOMAIN frames' = 1..(n + 1) /\ DOMAIN frames = 1..n /\ n \in Nat
       /\ \A i \in 1..n : frames'[i] = frames[i]
       /\ frames'[n + 1].slot = slot /\ frames'[n + 1].phase = "body"
  <2>1. TurnBegins(m.actor_id, "turn", slot, actor_instances, frames)
    BY <1>1, <1>2, <1>3, <1>6 DEF TurnBegins, TypeOK
  <2>2. QED
    BY <1>1, <2>1, PushShape, LenProperties
<1> HIDE DEF n
<1>12. ASSUME NEW s \in Slot
       PROVE  (\E i \in DOMAIN frames' : Serves(frames'[i], s))
                <=> slot = s \/ \E i \in DOMAIN frames : Serves(frames[i], s)
  <2>1. Serves(frames'[n + 1], s) <=> slot = s
    BY <1>11 DEF Serves
  <2>2. \A i \in 1..(n + 1) : i = n + 1 \/ i \in 1..n
    BY <1>11
  <2>3. n + 1 \in 1..(n + 1) /\ \A i \in 1..n : i \in 1..(n + 1)
    BY <1>11
  <2>4. QED
    BY <1>11, <2>1, <2>2, <2>3
<1>13. SameFates({slot})
  <2> SUFFICES ASSUME NEW s \in Slot \ {slot} PROVE FateOf(s)' = FateOf(s)
    BY DEF SameFates
  <2>1. UNCHANGED Queued(s)
    BY <1>6 DEF Queued
  <2>2. QED
    BY <1>6, <1>12, <2>1, FateStays
<1>14. slot \in Slot => FateOf(slot)' = "serving"
  <2> SUFFICES ASSUME slot \in Slot PROVE FateOf(slot)' = "serving"
    OBVIOUS
  <2>1. /\ slot \in 1..asked /\ actor_reply_slots[slot] = "Pending" /\ slot \notin taken
        /\ \A x \in actor_mailbox : x.reply_slot = slot => x = m
    BY <1>3 DEF Refining, RequestsInvariant, QueuedOnce, Open
  <2>2. ~ (slot > asked)
    BY <1>1, <2>1 DEF TypeOK
  <2>3. Queued(slot)' = {}
    BY <1>6, <2>1 DEF Queued
  <2>4. Serving(slot)' # {}
    <3>1. \E i \in DOMAIN frames' : Serves(frames'[i], slot)
      BY <1>12
    <3>2. QED
      BY <3>1 DEF Serving, Serves
  <2>5. QED
    BY <1>6, <2>1, <2>2, <2>3, <2>4 DEF FateOf
<1> HIDE DEF slot
<1>15. QED
  BY <1>3, <1>6, <1>8, <1>9, <1>10, <1>13, <1>14, AbstractReceive DEF slot

LEMMA PumpRefines ==
    ASSUME Refining, Pump
    PROVE  AM!MNext \/ UNCHANGED AM!mvars
<1> USE DEF instanceVars, mailVars, slotVars, turnVars
<1>1. ASSUME NEW m \in actor_mailbox, Dispatch(m) PROVE AM!MNext
  BY <1>1, DispatchRefines
<1>2. CASE \A m \in actor_mailbox : ~ Dispatch(m)
  <2>1. TypeOK /\ SameService(frames, frames')
    BY <1>2, ServicePump DEF Refining
  <2>2. ASSUME frames # << >>, Top.phase \in {"await", "select"}
        PROVE  /\ Top.phase = "await" => Awaited \in Slot
               /\ \A i \in DOMAIN Top.awaiting : Top.awaiting[i] \in Slot
    <3>1. Top.awaiting \in Seq(Slot) /\ (Top.phase = "await" => Top.awaiting # << >>)
      BY <2>1, <2>2, TopIsFrame DEF Frame, FrameRecord
    <3>2. QED
      BY <3>1, HeadTailProperties, LenProperties, ElementOfSeq DEF Awaited
  <2>3. AwaitTakes \/ SelectTakes => AM!MNext
    BY <2>1, <2>2, TakeRefines DEF AwaitTakes, SelectTakes, FirstFilled, TopIs
  <2>4. ASSUME NEW code, Fail(code) PROVE UNCHANGED AM!mvars
    BY <2>1, <2>4, NothingSeen DEF Fail, StopsNobody, SlotsStay
  <2>5. QED
    BY <1>2, <2>3, <2>4 DEF Pump, AwaitUnavailable, SelectUnavailable, Stall, DrainEnds
<1>3. QED
  BY <1>1, <1>2

-----------------------------------------------------------------------------
(* Supervision.                                                            *)

(* A stop purges the actor's inbox and refuses what waited there.            *)
LEMMA StopRefines ==
    ASSUME Refining, NEW id \in Id, StopActor(id), id \notin busy_actors, id <= spawned,
           UNCHANGED <<asked, target, taken, spawned, busy_actors>>,
           SameService(frames, frames')
    PROVE  AM!MNext \/ UNCHANGED AM!mvars
<1>1. TypeOK /\ DOMAIN actor_reply_slots = Slot /\ ~ (id > spawned)
  BY BoundsAssumption DEF Refining, TypeOK, Id
<1>2. CASE actor_instances[id].stopped
  BY <1>2, NothingSeen DEF StopActor, SlotsStay, StopsNobody
<1>3. CASE ~ actor_instances[id].stopped
  <2>1. /\ actor_instances' = [actor_instances EXCEPT ![id].stopped = TRUE]
        /\ actor_mailbox' = actor_mailbox \ QueuedFor(id)
        /\ actor_reply_slots' = [s \in Slot |->
              IF \E m \in QueuedFor(id) : m.reply_slot = s
              THEN "Unavailable" ELSE actor_reply_slots[s]]
    BY <1>3 DEF StopActor, SlotsAfterPurge
  <2>2. Inbox(id) = QueuedFor(id)
    BY DEF Inbox, QueuedFor
  <2>3. \A a \in Id : actor_instances'[a].stopped =
                        IF a = id THEN TRUE ELSE actor_instances[a].stopped
    <3>1. actor_instances \in [Id -> Instance]
      BY <1>1 DEF TypeOK
    <3>2. actor_instances[id] \in Instance
      BY <3>1
    <3>3. [actor_instances[id] EXCEPT !.stopped = TRUE].stopped = TRUE
      BY <3>2 DEF Instance
    <3>4. QED
      BY <2>1, <3>1, <3>3
  <2>4. SameStatus({id}) /\ StatusOf(id) = "idle" /\ StatusOf(id)' = "stopped"
    <3>1. SameStatus({id})
      BY <2>3, StatusesStay
    <3>2. QED
      BY <1>1, <1>3, <2>3, <3>1 DEF StatusOf
  <2>5. SameInboxes({id}) /\ Inbox(id)' = {}
    BY <2>1 DEF SameInboxes, Inbox, QueuedFor
  <2>6. SameFates({m.reply_slot : m \in Inbox(id)})
    <3> SUFFICES ASSUME NEW s \in Slot, \A m \in QueuedFor(id) : m.reply_slot # s
                 PROVE  FateOf(s)' = FateOf(s)
      BY <2>2 DEF SameFates
    <3>1. actor_reply_slots'[s] = actor_reply_slots[s]
      BY <2>1
    <3>2. UNCHANGED Queued(s)
      BY <2>1 DEF Queued
    <3>3. QED
      BY <3>1, <3>2, ServedSame, FateStays
  <2>7. ASSUME NEW m \in Inbox(id), m.reply_slot \in Slot
        PROVE  FateOf(m.reply_slot)' = "refused"
    <3> DEFINE s == m.reply_slot
    <3>1. s \in 1..asked
      BY <2>7 DEF Refining, RequestsInvariant, QueuedOnce, Open, Inbox, Slot, NoSlot
    <3>2. ~ (s > asked)
      BY <1>1, <3>1 DEF TypeOK
    <3>3. actor_reply_slots'[s] = "Unavailable"
      BY <2>1, <2>2, <2>7
    <3>4. QED
      BY <3>2, <3>3 DEF FateOf
  <2>8. QED
    BY <2>4, <2>5, <2>6, <2>7, AbstractStop
<1>4. QED
  BY <1>2, <1>3

LEMMA StopOrDeferRefines ==
    ASSUME Refining, NEW id \in Id, StopOrDefer(id), id <= spawned,
           UNCHANGED <<asked, target, taken, spawned, busy_actors>>,
           SameService(frames, frames')
    PROVE  AM!MNext \/ UNCHANGED AM!mvars
<1>1. CASE StopActor(id) /\ ~ MidTurn(id)
  BY <1>1, StopRefines DEF MidTurn
<1>2. CASE UNCHANGED <<actor_instances, actor_mailbox, actor_reply_slots>>
  BY <1>2, NothingSeen DEF SlotsStay, StopsNobody
<1>3. QED
  BY <1>1, <1>2 DEF StopOrDefer

(* Only a living actor between turns restarts: its policy says so.           *)
LEMMA RestartRefines ==
    ASSUME Refining, NEW id \in Id, NEW below, RestartActor(id, below),
           actor_instances[id].policy = "Restart", id \notin busy_actors, id <= spawned,
           SlotsStay, UNCHANGED spawned, SameService(frames, frames')
    PROVE  AM!MNext
<1>1. ~ (id > spawned) /\ ~ actor_instances[id].stopped
  <2>1. ~ (id > spawned)
    BY BoundsAssumption DEF Refining, TypeOK, Id
  <2>2. ~ actor_instances[id].stopped
    BY DEF Refining, Silent, StoppedIsSilent
  <2>3. QED
    BY <2>1, <2>2
<1>2. StopsNobody /\ busy_actors' = busy_actors \cup {id}
  BY RestartStopsNobody DEF Refining, RestartActor, BeginTurn
<1>3. SameStatus({id})
  BY <1>2, StatusesStay DEF StopsNobody
<1>4. StatusOf(id) = "idle" /\ StatusOf(id)' = "running"
  BY <1>1, <1>2 DEF StatusOf, StopsNobody
<1>5. QED
  BY <1>3, <1>4, FatesStay, InboxesStay, AbstractReinit DEF SlotsStay

LEMMA PublishRefines ==
    ASSUME Refining, PublishReply
    PROVE  AM!MNext \/ UNCHANGED AM!mvars
<1> DEFINE slot == Top.slot
           n == Len(frames)
<1>1. TypeOK
  BY DEF Refining
<1>2. /\ frames # << >> /\ Top.phase = "reply"
      /\ \A i \in DOMAIN frames' : \A s \in Slot : Serves(frames'[i], s) =>
            i \in DOMAIN frames /\ frames'[i] = frames[i] /\ i # n
      /\ \A i \in DOMAIN frames : i # n => i \in DOMAIN frames' /\ frames'[i] = frames[i]
      /\ n \in DOMAIN frames /\ Top = frames[n]
  BY <1>1, PublishedStack
<1>3. slot \in Slot \cup {NoSlot} /\ NoSlot \notin Slot
  BY <1>1, <1>2, TopIsFrame DEF Frame, FrameRecord, Slot, NoSlot
<1>4. \A s : Serves(frames[n], s) <=> s = slot
  BY <1>2 DEF Serves
<1>5. /\ DOMAIN actor_reply_slots = Slot
      /\ actor_reply_slots' = IF slot = NoSlot THEN actor_reply_slots
                              ELSE [actor_reply_slots EXCEPT ![slot] = "Filled"]
      /\ UNCHANGED <<actor_instances, spawned, busy_actors, actor_mailbox, asked,
                     target, taken>>
  BY <1>1 DEF PublishReply, TypeOK, instanceVars, mailVars, turnVars
<1> HIDE DEF n
<1>6. ASSUME NEW s \in Slot \ {slot}
      PROVE  (\E i \in DOMAIN frames' : Serves(frames'[i], s))
               <=> (\E i \in DOMAIN frames : Serves(frames[i], s))
  BY <1>2, <1>4
<1>7. SameStatus({}) /\ SameInboxes({})
  BY <1>5, StatusesStay, InboxesStay
<1>8. SameFates({slot})
  <2> SUFFICES ASSUME NEW s \in Slot \ {slot} PROVE FateOf(s)' = FateOf(s)
    BY DEF SameFates
  <2>1. UNCHANGED Queued(s)
    BY <1>5 DEF Queued
  <2>2. QED
    BY <1>5, <1>6, <2>1, FateStays
<1>9. CASE slot = NoSlot
  <2>1. SameFates({})
    BY <1>3, <1>8, <1>9 DEF SameFates
  <2>2. QED
    BY <1>5, <1>7, <2>1, AbstractStutter
<1>10. CASE slot # NoSlot
  <2>1. PICK s \in Slot : s = slot
    BY <1>3, <1>10
  <2>2. Serves(frames[n], s)
    BY <1>4, <2>1
  <2>3. /\ s \in 1..asked /\ actor_reply_slots[s] = "Pending" /\ s \notin taken
        /\ \A m \in actor_mailbox : m.reply_slot # s
    BY <1>2, <1>3, <2>1, <2>2
       DEF Refining, RequestsInvariant, ServedOnce, QueuedOnce, Open
  <2>4. ~ (s > asked)
    BY <1>1, <2>3 DEF TypeOK
  <2>5. Queued(s) = {} /\ Serving(s) # {}
    BY <1>2, <2>2, <2>3 DEF Queued, Serving, Serves
  <2>6. FateOf(s) = "serving"
    BY <2>3, <2>4, <2>5 DEF FateOf
  <2>7. FateOf(s)' = "answered"
    BY <1>5, <1>10, <2>1, <2>4 DEF FateOf
  <2> HIDE DEF slot
  <2>8. QED
    BY <1>5, <1>7, <1>8, <2>1, <2>6, <2>7, AbstractAnswer
<1>11. QED
  BY <1>9, <1>10

LEMMA SupervisionRefines ==
    ASSUME Refining, Supervision
    PROVE  AM!MNext \/ UNCHANGED AM!mvars
<1> USE DEF instanceVars, mailVars, slotVars, turnVars
<1>1. CASE PublishReply
  BY <1>1, PublishRefines
<1>2. CASE ~ PublishReply
  <2>1. TypeOK /\ SameService(frames, frames')
    BY <1>2, ServiceSupervision DEF Refining
  <2>2. ASSUME NEW phase \in {"ended", "supervise"}, TopIs(phase)
        PROVE  /\ Top.actor_id \in Id /\ Top.cursor \in Id
               /\ Top.actor_id <= spawned /\ Top.cursor <= spawned
               /\ Top.actor_id \notin busy_actors
    <3>1. frames # << >> /\ Top \in Frame /\ Top.phase = phase /\ Spawned(Top, spawned)
      BY <2>1, <2>2, NamedTop DEF TopIs, Refining, StackInvariant
    <3>2. Top.actor_id \notin busy_actors
      BY <2>1, <2>2, <3>1, PopTop DEF Refining, StackInvariant, Stack, Live
    <3>3. QED
      BY <2>2, <3>1, <3>2 DEF Frame, FrameRecord, Live, Spawned
  <2>3. ASSUME UNCHANGED <<actor_instances, spawned, busy_actors>>, SlotsStay
        PROVE  UNCHANGED AM!mvars
    BY <2>1, <2>3, NothingSeen DEF StopsNobody
  <2>4. CASE DeferredStop
    BY <2>1, <2>2, <2>4, StopRefines DEF DeferredStop
  <2>5. CASE SuperviseStop \/ Escalate
    BY <2>1, <2>2, <2>5, StopOrDeferRefines DEF SuperviseStop, Escalate
  <2>6. CASE DeferredRestart
    <3>1. /\ TopIs("ended") /\ SlotsStay /\ UNCHANGED spawned
          /\ \E below : RestartActor(Top.actor_id, below)
          /\ pending_supervision[Top.actor_id] = "Restart"
      BY <2>6 DEF DeferredRestart, SlotsStay
    <3>2. actor_instances[Top.actor_id].policy = "Restart"
      BY <2>2, <3>1 DEF Refining, Silent, PoliciesAgree
    <3>3. QED
      BY <2>1, <2>2, <3>1, <3>2, RestartRefines
  <2>7. CASE SuperviseRestart
    BY <2>1, <2>2, <2>7, RestartRefines DEF SuperviseRestart, PolicyAt, MidTurn, SlotsStay
  <2>8. CASE NoDeferred \/ DeferredRestartLoops \/ SpawnReturns \/ RestartReturns
    BY <2>3, <2>8 DEF NoDeferred, DeferredRestartLoops, SpawnReturns, RestartReturns,
       Fail, SlotsStay
  <2>9. CASE Unsupervised \/ SuperviseRestartDeferred \/ EscalatedToUnsupervised
    BY <2>3, <2>9 DEF Unsupervised, SuperviseRestartDeferred, EscalatedToUnsupervised,
       Fail, SlotsStay
  <2>10. QED
    BY <1>2, <2>4, <2>5, <2>6, <2>7, <2>8, <2>9 DEF Supervision
<1>3. QED
  BY <1>1, <1>2

-----------------------------------------------------------------------------

LEMMA BodyRefines ==
    ASSUME Refining, Body
    PROVE  AM!MNext \/ UNCHANGED AM!mvars
<1> USE DEF instanceVars, mailVars, slotVars, turnVars
<1>1. ASSUME NEW k \in 0..Len(frames), Throw(k) PROVE AM!MNext \/ UNCHANGED AM!mvars
  BY <1>1, ThrowRefines
<1>2. CASE \A k \in 0..Len(frames) : ~ Throw(k)
  <2>1. SameService(frames, frames')
    BY <1>2, ServiceBody DEF Refining
  <2>2. ASSUME UNCHANGED <<actor_instances, spawned, busy_actors>>, SlotsStay
        PROVE  UNCHANGED AM!mvars
    BY <2>1, <2>2, NothingSeen DEF StopsNobody
  <2>3. ASSUME NEW policy \in Policies, Spawn(policy) PROVE AM!MNext
    BY <2>1, <2>3, SpawnRefines
  <2>4. ASSUME NEW id \in Known, Tell(id) \/ Ask(id) PROVE AM!MNext
    BY <2>4, TellRefines, AskRefines
  <2>5. ASSUME NEW reply \in {"ok", "err"}, EndTurn(reply) PROVE AM!MNext
    BY <2>1, <2>5, EndTurnRefines
  <2>6. QED
    BY <1>2, <2>2, <2>3, <2>4, <2>5 DEF Body, Await, Select, Wait,
       SelectNothing, EndTurnOnTakenState, EndMain, Fail, SlotsStay
<1>3. QED
  BY <1>1, <1>2

LEMMA InitRefines == Init => AM!MInit
<1> SUFFICES ASSUME Init PROVE AM!MInit
  OBVIOUS
<1>1. /\ spawned = 0 /\ actor_mailbox = {} /\ asked = 0
      /\ target = [s \in Slot |-> 0]
  BY DEF Init, Main
<1>2. \A id \in Id : StatusOf(id) = "none"
  BY <1>1, BoundsAssumption DEF StatusOf, Id
<1>3. \A s \in Slot : FateOf(s) = "unused"
  BY <1>1, BoundsAssumption DEF FateOf, Slot
<1>4. QED
  BY <1>1, <1>2, <1>3 DEF AM!MInit

(* The scheduler of one stack and one queue implements the abstract actor     *)
(* model: each actor is a serial server with a FIFO inbox of its own, and     *)
(* every step a nested pump, a restart, a stop or an unwinding error takes    *)
(* is one step of that model, or none.                                      *)
THEOREM RefinementCorrect == Spec => ActorModelSpec
<1>1. Init => AM!MInit
  BY InitRefines
<1>2. Refining /\ [Next]_vars => [AM!MNext]_(AM!mvars)
  <2> SUFFICES ASSUME Refining, [Next]_vars PROVE AM!MNext \/ UNCHANGED AM!mvars
    OBVIOUS
  <2>1. CASE Body
    BY <2>1, BodyRefines
  <2>2. CASE Pump
    BY <2>2, PumpRefines
  <2>3. CASE Supervision
    BY <2>3, SupervisionRefines
  <2>4. CASE UNCHANGED vars
    BY <2>4, NothingSeen, SameServiceRefl
       DEF SlotsStay, StopsNobody, vars, instanceVars, slotVars, mailVars, turnVars
  <2>5. QED
    BY <2>1, <2>2, <2>3, <2>4 DEF Next, Ended
<1>3. Spec => []Refining
  BY TypeCorrect, StackCorrect, DisciplineCorrect, SilentCorrect, RequestsInductive,
     TicketsInductive, PTL DEF Refining, Silent
<1>4. QED
  BY <1>1, <1>2, <1>3, PTL DEF Spec, ActorModelSpec, AM!MSpec

-----------------------------------------------------------------------------
(* Why every run ends: it is never stuck, and every step uses something up.  *)

(* A set of naturals has a least member.                                    *)
LEMMA LeastNatural ==
    ASSUME NEW T \in SUBSET Nat, T # {}
    PROVE  \E k \in T : \A j \in T : k <= j
<1> DEFINE R == OpToRel(<, Nat)
<1>1. \A j, k \in Nat : j < k => <<j, k>> \in R
  BY DEF OpToRel
<1>2. IsWellFoundedOn(R, Nat)
  BY NatLessThanWellFounded
<1> HIDE DEF R
<1>3. PICK k \in T : \A j \in T : ~(<<j, k>> \in R)
  BY <1>2, WFMin
<1>4. ASSUME NEW j \in T PROVE k <= j
  <2>1. j \in Nat /\ k \in Nat /\ ~ (j < k)
    BY <1>1, <1>3
  <2>2. QED
    BY <2>1
<1>5. QED
  BY <1>4

(* A queue with something to deliver has a first message to deliver.        *)
LEMMA FirstExists ==
    ASSUME TypeOK, Deliverable # {}
    PROVE  \E m \in actor_mailbox : IsFirst(m)
<1> DEFINE T == {m.ticket : m \in Deliverable}
<1>1. \A m \in Deliverable : m \in actor_mailbox /\ m.ticket \in Nat
  BY DEF Deliverable, TypeOK, Message
<1>2. T \in SUBSET Nat /\ T # {}
  BY <1>1
<1>3. PICK t \in T : \A u \in T : t <= u
  BY <1>2, LeastNatural
<1>4. PICK m \in Deliverable : m.ticket = t
  OBVIOUS
<1>5. \A n \in Deliverable : m.ticket <= n.ticket
  BY <1>3, <1>4
<1>6. QED
  BY <1>1, <1>4, <1>5 DEF IsFirst

(* A wait is over, or it pumps.                                             *)
LEMMA WaitGoesOn ==
    ASSUME TypeOK, StackDiscipline, RequestsInvariant, Running, frames # << >>,
           Top.phase \in {"await", "select"}
    PROVE  WaitIsOver \/ Pumping
<1> DEFINE w == Top.awaiting
<1>1. Top \in Frame /\ Orderly(Top, asked)
  BY TopIsFrame, TopOrderly
<1>2. w \in Seq(Slot) /\ w # << >>
  BY <1>1 DEF Frame, FrameRecord, Orderly
<1>3. /\ Len(w) \in Nat \ {0} /\ DOMAIN w = 1..Len(w)
      /\ \A j \in 1..Len(w) : w[j] \in Slot /\ w[j] <= asked
  BY <1>1, <1>2, EmptySeq, LenProperties, ElementOfSeq DEF Orderly
<1>4. \A j \in 1..Len(w) : actor_reply_slots[w[j]] \in {"Pending", "Filled", "Unavailable"}
  BY <1>3 DEF RequestsInvariant, SlotsTell, TypeOK
<1>5. CASE Top.phase = "await"
  <2>1. Awaited = w[1] /\ 1 \in 1..Len(w)
    BY <1>2, <1>3 DEF Awaited
  <2>2. QED
    BY <1>4, <1>5, <2>1 DEF WaitIsOver, Pumping, TopIs
<1>6. CASE Top.phase = "select" /\ NoneFilled
  BY <1>6 DEF WaitIsOver, Pumping, TopIs
<1>7. CASE Top.phase = "select" /\ ~ NoneFilled
  <2> DEFINE T == {i \in DOMAIN w : actor_reply_slots[w[i]] = "Filled"}
  <2>1. T \in SUBSET Nat /\ T # {}
    BY <1>3, <1>7 DEF NoneFilled
  <2>2. PICK i \in T : \A j \in T : i <= j
    BY <2>1, LeastNatural
  <2>3. i \in 1..Len(w) /\ \A j \in 1..(i - 1) : j \in 1..Len(w) /\ ~ (i <= j)
    BY <1>3, <2>2
  <2>4. FirstFilled(i)
    BY <1>3, <2>2, <2>3 DEF FirstFilled
  <2>5. QED
    BY <1>3, <1>7, <2>3, <2>4 DEF WaitIsOver, TopIs
<1>8. QED
  BY <1>5, <1>6, <1>7

(* Whoever is to be restarted for a failure has no restart under way: that    *)
(* restart's frame would be below the failed turn, so that its init waits,    *)
(* and its actor is busy.                                                   *)
LEMMA RestartIsNew ==
    ASSUME TypeOK, StackInvariant, StackDiscipline, TopIs("supervise"),
           NEW id \in restarting
    PROVE  id \in busy_actors
<1> DEFINE n == Len(frames)
<1>1. /\ DOMAIN frames = 1..n /\ n \in Nat \ {0} /\ Top = frames[n]
      /\ \A j \in 1..n : frames[j] \in Frame
  BY TopIsFrame, LenProperties, ElementOfSeq DEF TypeOK, TopIs
<1>2. PICK i \in 1..n : frames[i].kind = "restart" /\ frames[i].actor_id = id
  <2>1. id \in {frames[i].actor_id : i \in {j \in 1..n : frames[j].kind = "restart"}}
    BY <1>1 DEF StackDiscipline, DisciplineOn
  <2>2. QED
    BY <2>1
<1>3. Beneath(frames, i) /\ Orderly(frames[n], asked)
  BY <1>1 DEF StackDiscipline, DisciplineOn
<1>4. i # n
  BY <1>1, <1>2, <1>3 DEF Orderly, TopIs
<1>5. frames[i].phase \in Live
  <2>1. n \in Nat /\ i \in 1..n /\ i # n
    BY <1>1, <1>4
  <2>2. i < n
    <3> HIDE DEF n
    <3>1. QED
      BY <2>1
  <2>3. QED
    BY <1>2, <1>3, <2>2 DEF Beneath
<1>6. busy_actors = {frames[k].actor_id : k \in {l \in 1..n : frames[l].phase \in Live}}
                    \ {Main}
  BY <1>1 DEF StackInvariant, StackOK
<1>7. id # Main
  BY DEF TypeOK, Id, Main
<1>8. QED
  BY <1>2, <1>5, <1>6, <1>7

(* While the program runs, user code is on top or the runtime has a next      *)
(* step: no await, select, drain, restart or escalation is stuck, however     *)
(* turns are nested and whatever was stopped, restarted or unwound.          *)
THEOREM NeverStuckCorrect == Spec => []NeverStuck
<1> DEFINE Held == TypeOK /\ StackInvariant /\ StackDiscipline /\ RequestsInvariant
<1>1. Held => NeverStuck
  <2> SUFFICES ASSUME Held, Running PROVE TopIs("body") \/ WaitIsOver \/ CanPump \/ CanSupervise
    BY DEF NeverStuck
  <2>1. Pumping => CanPump
    BY FirstExists DEF CanPump
  <2>2. CASE frames = << >>
    BY <2>1, <2>2 DEF Pumping
  <2>3. CASE frames # << >>
    <3>1. Top \in Frame
      BY <2>3, TopIsFrame
    <3>2. /\ Top.phase \in {"body", "await", "select", "ended", "reply", "supervise"}
          /\ Top.kind = "main" => Top.phase \in Live
          /\ Top.cursor = Main => Top.phase \in Live
          /\ Top.cursor \in Id \cup {Main}
      BY <3>1 DEF Frame, FrameRecord, Live
    <3>3. CASE Top.phase \in {"await", "select"}
      BY <2>1, <2>3, <3>3, WaitGoesOn
    <3>4. CASE Top.phase = "supervise"
      <4>1. TopIs("supervise") /\ Top.cursor \in Id
        BY <2>3, <3>2, <3>4 DEF TopIs, Live
      <4>2. PolicyAt \in {"none", "Restart", "Stop", "Escalate"}
        BY <4>1 DEF PolicyAt, TypeOK, Instance
      <4>3. CanBear
        BY <4>1, <4>2, RestartIsNew DEF CanBear, MidTurn
      <4>4. QED
        BY <4>1, <4>3 DEF CanSupervise
    <3>5. CASE Top.phase = "reply"
      BY <2>3, <3>2, <3>5 DEF CanSupervise, TopIs, Live
    <3>6. QED
      BY <2>3, <3>2, <3>3, <3>4, <3>5 DEF CanSupervise, TopIs
  <2>4. QED
    BY <2>2, <2>3
<1>2. QED
  BY <1>1, TypeCorrect, StackCorrect, DisciplineCorrect, RequestsInductive, PTL

(* What grows nowhere before a place where it shrinks is less.               *)
LEMMA LessAt ==
    ASSUME NEW x, NEW y, \A j \in 1..9 : x[j] \in Nat /\ y[j] \in Nat,
           NEW k \in 1..9, x[k] < y[k], \A j \in 1..(k - 1) : x[j] <= y[j]
    PROVE  Less(x, y)
<1> DEFINE T == {j \in 1..9 : x[j] # y[j]}
<1>1. T \in SUBSET Nat /\ k \in T
  OBVIOUS
<1>2. PICK m \in T : \A j \in T : m <= j
  BY <1>1, LeastNatural
<1>3. m \in 1..9 /\ x[m] # y[m] /\ m <= k
  BY <1>1, <1>2
<1>4. x[m] < y[m]
  <2>1. CASE m = k
    BY <2>1
  <2>2. CASE m # k
    <3>1. m \in 1..(k - 1)
      BY <1>3, <2>2
    <3>2. QED
      BY <1>3, <3>1
  <2>3. QED
    BY <2>1, <2>2
<1>5. ASSUME NEW j \in 1..(m - 1) PROVE x[j] = y[j]
  <2>1. j \in 1..9 /\ ~ (m <= j)
    BY <1>3
  <2>2. QED
    BY <1>2, <2>1
<1>6. QED
  BY <1>3, <1>4, <1>5 DEF Less

LEMMA FewerIn ==
    ASSUME NEW S, IsFiniteSet(S), NEW T \in SUBSET S
    PROVE  /\ IsFiniteSet(T) /\ Cardinality(S) \in Nat /\ Cardinality(T) \in Nat
           /\ Cardinality(T) <= Cardinality(S)
           /\ T # S => Cardinality(T) < Cardinality(S)
<1>1. /\ IsFiniteSet(T) /\ Cardinality(T) <= Cardinality(S)
      /\ Cardinality(S) = Cardinality(T) => S = T
  BY FS_Subset
<1>2. Cardinality(S) \in Nat /\ Cardinality(T) \in Nat
  BY <1>1, FS_CardinalityType
<1>3. QED
  BY <1>1, <1>2

(* What makes the quantities of Remaining numbers.                           *)
Countable == TypeOK /\ IsFiniteSet(actor_mailbox)

LEMMA FiniteParts ==
    ASSUME Countable
    PROVE  /\ IsFiniteSet(actor_mailbox) /\ IsFiniteSet(Unconsumed)
           /\ IsFiniteSet(TurnsOn(frames)) /\ IsFiniteSet(RestartsDue)
<1>1. IsFiniteSet(Unconsumed)
  <2>1. 1 \in Int /\ asked \in Int
    BY BoundsAssumption DEF Countable, TypeOK
  <2>2. IsFiniteSet(1..asked) /\ Unconsumed \in SUBSET (1..asked)
    BY <2>1, FS_Interval DEF Unconsumed
  <2>3. QED
    BY <2>2, FS_Subset
<1>2. IsFiniteSet(TurnsOn(frames))
  <2>1. DOMAIN frames = 1..Len(frames) /\ Len(frames) \in Int /\ 1 \in Int
    BY LenProperties DEF Countable, TypeOK
  <2>2. TurnsOn(frames) \in SUBSET (DOMAIN frames)
    BY DEF TurnsOn
  <2>3. IsFiniteSet(1..Len(frames))
    BY <2>1, FS_Interval
  <2>4. IsFiniteSet(DOMAIN frames)
    BY <2>1, <2>3
  <2>5. QED
    BY <2>2, <2>4, FS_Subset
<1>3. IsFiniteSet(RestartsDue)
  <2>1. 1 \in Int /\ MaxActors \in Int
    BY BoundsAssumption
  <2>2. IsFiniteSet(Id) /\ RestartsDue \in SUBSET Id
    BY <2>1, FS_Interval DEF RestartsDue, Id
  <2>3. QED
    BY <2>2, FS_Subset
<1>4. QED
  BY <1>1, <1>2, <1>3 DEF Countable

LEMMA RemainingIs ==
    /\ Remaining[1] = IF Running THEN 1 ELSE 0
    /\ Remaining[2] = Budget
    /\ Remaining[3] = Cardinality(actor_mailbox)
    /\ Remaining[4] = Cardinality(Unconsumed)
    /\ Remaining[5] = Cardinality(TurnsOn(frames))
    /\ Remaining[6] = Cardinality(RestartsDue)
    /\ Remaining[7] = Len(frames)
    /\ Remaining[8] = IF frames = << >> THEN 0 ELSE PhasesLeft(Top.phase)
    /\ Remaining[9] = IF frames = << >> THEN 0 ELSE Top.cursor
BY DEF Remaining

LEMMA PhasesLeftType == \A p : PhasesLeft(p) \in 0..4
BY DEF PhasesLeft

LEMMA RemainingType == Countable => \A j \in 1..9 : Remaining[j] \in Nat
<1> SUFFICES ASSUME Countable PROVE \A j \in 1..9 : Remaining[j] \in Nat
  OBVIOUS
<1>1. Remaining[1] \in Nat
  BY RemainingIs
<1>2. Remaining[2] \in Nat
  <2>1. /\ MaxActors - spawned \in Nat /\ MaxMessages - sent \in Nat
        /\ MaxAsks - asked \in Nat /\ MaxThrows - throws \in Nat
    BY BoundsAssumption DEF Countable, TypeOK
  <2>2. QED
    BY <2>1, RemainingIs DEF Budget
<1>3. Remaining[3] \in Nat /\ Remaining[4] \in Nat /\ Remaining[5] \in Nat /\ Remaining[6] \in Nat
  BY FiniteParts, FS_CardinalityType, RemainingIs
<1>4. Remaining[7] \in Nat
  BY RemainingIs, LenProperties DEF Countable, TypeOK
<1>5. Remaining[8] \in Nat
  BY RemainingIs, PhasesLeftType
<1>6. Remaining[9] \in Nat
  <2>1. ASSUME frames # << >> PROVE Top.cursor \in Nat
    <3>1. Top \in Frame
      BY <2>1, TopIsFrame DEF Countable
    <3>2. Top.cursor \in Id \cup {Main}
      BY <3>1 DEF Frame, FrameRecord
    <3>3. QED
      BY <3>2 DEF Id, Main
  <2>2. QED
    BY <2>1, RemainingIs
<1>7. QED
  BY <1>1, <1>2, <1>3, <1>4, <1>5, <1>6

LEMMA RemainingIsNext ==
    /\ Remaining'[1] = IF Running' THEN 1 ELSE 0
    /\ Remaining'[2] = Budget'
    /\ Remaining'[3] = Cardinality(actor_mailbox')
    /\ Remaining'[4] = Cardinality(Unconsumed')
    /\ Remaining'[5] = Cardinality(TurnsOn(frames'))
    /\ Remaining'[6] = Cardinality(RestartsDue')
    /\ Remaining'[7] = Len(frames')
    /\ Remaining'[8] = IF frames' = << >> THEN 0 ELSE PhasesLeft(Top'.phase)
    /\ Remaining'[9] = IF frames' = << >> THEN 0 ELSE Top'.cursor
BY DEF Remaining, TurnsOn, PhasesLeft

LEMMA RemainingTypeNext == Countable' => \A j \in 1..9 : Remaining'[j] \in Nat
<1>1. (Countable => \A j \in 1..9 : Remaining[j] \in Nat)'
  BY RemainingType, PTL
<1>2. QED
  BY <1>1

(* The state got smaller if the program ended, or spent from its budget, or   *)
(* did neither and took from what is left in the order of Remaining.         *)
Settled == UNCHANGED <<outcome, spawned, sent, asked, throws>>

TopMoves ==
    /\ frames # << >> /\ frames' # << >> /\ Len(frames') = Len(frames)
    /\ \/ PhasesLeft(Top'.phase) < PhasesLeft(Top.phase)
       \/ PhasesLeft(Top'.phase) = PhasesLeft(Top.phase) /\ Top'.cursor < Top.cursor

LEMMA SettledLess ==
    ASSUME Countable, Countable', Settled, NEW k \in 3..9, Remaining'[k] < Remaining[k],
           \A j \in 3..(k - 1) : Remaining'[j] <= Remaining[j]
    PROVE  Less(Remaining', Remaining)
<1>1. \A j \in 1..9 : Remaining'[j] \in Nat /\ Remaining[j] \in Nat
  BY RemainingType, RemainingTypeNext
<1>2. Remaining'[1] = Remaining[1] /\ Remaining'[2] = Remaining[2]
  BY RemainingIs, RemainingIsNext DEF Settled, Running, Budget
<1>3. ASSUME NEW j \in 1..(k - 1) PROVE Remaining'[j] <= Remaining[j]
  <2>1. j \in 3..(k - 1) \/ j = 1 \/ j = 2
    OBVIOUS
  <2>2. QED
    BY <1>1, <1>2, <2>1
<1>4. k \in 1..9
  OBVIOUS
<1>5. QED
  BY <1>1, <1>3, <1>4, LessAt

LEMMA LessBySpending ==
    ASSUME Countable, Countable', Running,
           Running' => Budget' < Budget
    PROVE  Less(Remaining', Remaining)
<1>1. \A j \in 1..9 : Remaining'[j] \in Nat /\ Remaining[j] \in Nat
  BY RemainingType, RemainingTypeNext
<1>2. Remaining[1] = 1 /\ Remaining'[1] = IF Running' THEN 1 ELSE 0
  BY RemainingIs, RemainingIsNext
<1>3. CASE ~ Running'
  <2>1. 1 \in 1..9 /\ Remaining'[1] < Remaining[1] /\ \A j \in 1..(1 - 1) : FALSE
    BY <1>2, <1>3
  <2>2. QED
    BY <1>1, <2>1, LessAt
<1>4. CASE Running' /\ Budget' < Budget
  <2>1. /\ 2 \in 1..9 /\ Remaining'[2] < Remaining[2]
        /\ \A j \in 1..(2 - 1) : Remaining'[j] <= Remaining[j]
    BY <1>2, <1>4, RemainingIs, RemainingIsNext
  <2>2. QED
    BY <1>1, <2>1, LessAt
<1>5. QED
  BY <1>3, <1>4

LEMMA LessByTaking ==
    ASSUME Countable, Countable', Settled,
           actor_mailbox' \subseteq actor_mailbox, Unconsumed' \subseteq Unconsumed,
           \/ actor_mailbox' # actor_mailbox
           \/ Unconsumed' # Unconsumed
           \/ /\ TurnsOn(frames') \subseteq TurnsOn(frames)
              /\ \/ TurnsOn(frames') # TurnsOn(frames)
                 \/ /\ RestartsDue' \subseteq RestartsDue
                    /\ (RestartsDue' # RestartsDue \/ Len(frames') < Len(frames) \/ TopMoves)
    PROVE  Less(Remaining', Remaining)
<1>1. /\ IsFiniteSet(actor_mailbox) /\ IsFiniteSet(Unconsumed)
      /\ IsFiniteSet(TurnsOn(frames)) /\ IsFiniteSet(RestartsDue)
  BY FiniteParts
<1>2. /\ Remaining'[3] <= Remaining[3] /\ Remaining'[4] <= Remaining[4]
      /\ actor_mailbox' # actor_mailbox => Remaining'[3] < Remaining[3]
      /\ Unconsumed' # Unconsumed => Remaining'[4] < Remaining[4]
  BY <1>1, FewerIn, RemainingIs, RemainingIsNext
<1>3. ASSUME TurnsOn(frames') \subseteq TurnsOn(frames)
      PROVE  /\ Remaining'[5] <= Remaining[5]
             /\ TurnsOn(frames') # TurnsOn(frames) => Remaining'[5] < Remaining[5]
  BY <1>1, <1>3, FewerIn, RemainingIs, RemainingIsNext
<1>4. ASSUME RestartsDue' \subseteq RestartsDue
      PROVE  /\ Remaining'[6] <= Remaining[6]
             /\ RestartsDue' # RestartsDue => Remaining'[6] < Remaining[6]
  BY <1>1, <1>4, FewerIn, RemainingIs, RemainingIsNext
<1>5. CASE actor_mailbox' # actor_mailbox
  <2>1. 3 \in 3..9 /\ Remaining'[3] < Remaining[3] /\ \A j \in 3..(3 - 1) : FALSE
    BY <1>2, <1>5
  <2>2. QED
    BY <2>1, SettledLess
<1>6. CASE Unconsumed' # Unconsumed
  <2>1. \A j \in 3..(4 - 1) : j = 3
    OBVIOUS
  <2>2. QED
    BY <1>2, <1>6, <2>1, SettledLess
<1>7. CASE TurnsOn(frames') \subseteq TurnsOn(frames)
  <2>1. CASE TurnsOn(frames') # TurnsOn(frames)
    <3>1. \A j \in 3..(5 - 1) : j = 3 \/ j = 4
      OBVIOUS
    <3>2. QED
      BY <1>2, <1>3, <1>7, <2>1, <3>1, SettledLess
  <2>2. CASE RestartsDue' \subseteq RestartsDue /\ RestartsDue' # RestartsDue
    <3>1. \A j \in 3..(6 - 1) : j = 3 \/ j = 4 \/ j = 5
      OBVIOUS
    <3>2. QED
      BY <1>2, <1>3, <1>4, <1>7, <2>2, <3>1, SettledLess
  <2>3. CASE RestartsDue' \subseteq RestartsDue /\ Len(frames') < Len(frames)
    <3>1. \A j \in 3..(7 - 1) : j = 3 \/ j = 4 \/ j = 5 \/ j = 6
      OBVIOUS
    <3>2. QED
      BY <1>2, <1>3, <1>4, <1>7, <2>3, <3>1, SettledLess, RemainingIs, RemainingIsNext
  <2>4. CASE RestartsDue' \subseteq RestartsDue /\ TopMoves
    <3>1. Remaining'[7] <= Remaining[7]
      BY <2>4, RemainingIs, RemainingIsNext, RemainingType, RemainingTypeNext DEF TopMoves
    <3>2. /\ Remaining[8] = PhasesLeft(Top.phase) /\ Remaining'[8] = PhasesLeft(Top'.phase)
          /\ Remaining[9] = Top.cursor /\ Remaining'[9] = Top'.cursor
      BY <2>4, RemainingIs, RemainingIsNext DEF TopMoves
    <3>3. CASE Remaining'[8] < Remaining[8]
      <4>1. \A j \in 3..(8 - 1) : j = 3 \/ j = 4 \/ j = 5 \/ j = 6 \/ j = 7
        OBVIOUS
      <4>2. QED
        BY <1>2, <1>3, <1>4, <1>7, <2>4, <3>1, <3>3, <4>1, SettledLess
    <3>4. CASE Remaining'[8] <= Remaining[8] /\ Remaining'[9] < Remaining[9]
      <4>1. \A j \in 3..(9 - 1) : j = 3 \/ j = 4 \/ j = 5 \/ j = 6 \/ j = 7 \/ j = 8
        OBVIOUS
      <4>2. QED
        BY <1>2, <1>3, <1>4, <1>7, <2>4, <3>1, <3>4, <4>1, SettledLess
    <3>5. Remaining'[8] = Remaining[8] => Remaining'[8] <= Remaining[8]
      BY RemainingType, RemainingTypeNext
    <3>6. QED
      BY <2>4, <3>2, <3>3, <3>4, <3>5 DEF TopMoves
  <2>5. QED
    BY <1>5, <1>6, <1>7, <2>1, <2>2, <2>3, <2>4
<1>8. QED
  BY <1>5, <1>6, <1>7

(* Which frames are turns, after the ways a stack changes.                   *)
LEMMA TurnsPopped ==
    ASSUME TypeOK, frames # << >>
    PROVE  /\ TurnsOn(Popped) = TurnsOn(frames) \ {Len(frames)}
           /\ Top.kind = "turn" => Len(frames) \in TurnsOn(frames)
           /\ Top.kind # "turn" => Len(frames) \notin TurnsOn(frames)
<1> DEFINE n == Len(frames)
<1>1. /\ n \in Nat \ {0} /\ DOMAIN frames = 1..n /\ Top = frames[n]
      /\ DOMAIN Popped = 1..(n - 1) /\ \A i \in 1..(n - 1) : Popped[i] = frames[i]
  BY TopIsFrame, LenProperties DEF TypeOK
<1> HIDE DEF n
<1>2. TurnsOn(Popped) = TurnsOn(frames) \ {n}
  BY <1>1 DEF TurnsOn
<1>3. n \in TurnsOn(frames) <=> Top.kind = "turn"
  BY <1>1 DEF TurnsOn
<1>4. QED
  BY <1>2, <1>3 DEF n

LEMMA TurnsRetopped ==
    ASSUME TypeOK, frames # << >>, NEW f \in Frame
    PROVE  /\ f.kind = Top.kind => TurnsOn(WithTop(f)) = TurnsOn(frames)
           /\ f.kind # "turn" => TurnsOn(WithTop(f)) = TurnsOn(frames) \ {Len(frames)}
<1> DEFINE n == Len(frames)
<1>1. /\ n \in Nat \ {0} /\ DOMAIN frames = 1..n /\ Top = frames[n]
      /\ DOMAIN WithTop(f) = 1..n
      /\ \A i \in 1..n : WithTop(f)[i] = IF i = n THEN f ELSE frames[i]
  BY TopIsFrame, LenProperties DEF TypeOK
<1> HIDE DEF n
<1>2. f.kind = Top.kind => TurnsOn(WithTop(f)) = TurnsOn(frames)
  BY <1>1 DEF TurnsOn
<1>3. f.kind # "turn" => TurnsOn(WithTop(f)) = TurnsOn(frames) \ {n}
  BY <1>1 DEF TurnsOn
<1>4. QED
  BY <1>2, <1>3 DEF n

LEMMA TurnsPushed ==
    ASSUME TypeOK, NEW id, NEW kind, NEW slot, NEW instances, NEW below,
           TurnBegins(id, kind, slot, instances, below), kind # "turn"
    PROVE  TurnsOn(frames') = TurnsOn(below)
<1> DEFINE n == Len(below)
<1>1. /\ n \in Nat /\ DOMAIN below = 1..n /\ DOMAIN frames' = 1..(n + 1)
      /\ \A i \in 1..n : frames'[i] = below[i]
      /\ frames'[n + 1].kind = kind
  BY PushShape, LenProperties DEF TurnBegins
<1> HIDE DEF n
<1>2. QED
  BY <1>1 DEF TurnsOn

(* A frame whose phase changes, and nothing else that is counted.            *)
LEMMA TopAdvances ==
    ASSUME TypeOK, StackDiscipline, frames # << >>, NEW f \in Frame, frames' = WithTop(f),
           f.kind = Top.kind,
           \/ PhasesLeft(f.phase) < PhasesLeft(Top.phase)
           \/ PhasesLeft(f.phase) = PhasesLeft(Top.phase) /\ f.cursor < Top.cursor
    PROVE  TopMoves /\ TurnsOn(frames') = TurnsOn(frames)
<1>1. frames' # << >> /\ Top' = f
  BY NewTop
<1>2. Len(frames') = Len(frames)
  BY TopIsFrame
<1>3. QED
  BY <1>1, <1>2, TurnsRetopped DEF TopMoves

LEMMA TopPops ==
    ASSUME TypeOK, frames # << >>, frames' = Popped
    PROVE  /\ Len(frames') < Len(frames) /\ TurnsOn(frames') \subseteq TurnsOn(frames)
           /\ Top.kind = "turn" => TurnsOn(frames') # TurnsOn(frames)
<1>1. Len(frames) \in Nat /\ Len(frames') = Len(frames) - 1
  BY TopIsFrame
<1>2. Len(frames') < Len(frames)
  BY <1>1
<1>3. QED
  BY <1>2, TurnsPopped

(* Stopping an actor takes messages away, or none; and defers no restart.    *)
LEMMA StopTakes ==
    ASSUME TypeOK, NEW id \in Id
    PROVE  /\ StopActor(id) => actor_mailbox' \subseteq actor_mailbox
           /\ StopOrDefer(id) => /\ actor_mailbox' \subseteq actor_mailbox
                                 /\ RestartsDue' \subseteq RestartsDue
<1>1. StopActor(id) => actor_mailbox' \subseteq actor_mailbox
  BY DEF StopActor
<1>2. Defer(id, "Stop") => RestartsDue' \subseteq RestartsDue
  BY DEF Defer, RestartsDue, TypeOK
<1>3. UNCHANGED pending_supervision => RestartsDue' \subseteq RestartsDue
  BY DEF RestartsDue
<1>4. QED
  BY <1>1, <1>2, <1>3 DEF StopOrDefer

(* What every step starts from.                                             *)
Accounted ==
    Countable /\ StackInvariant /\ StackDiscipline /\ RequestsInvariant
      /\ EscalationInvariant

LEMMA LeftDrops ==
    ASSUME NEW m \in Nat, NEW a \in 0..m, NEW b \in 0..m, b >= a
    PROVE  /\ m - a \in Int /\ m - b \in Int /\ m - b <= m - a
           /\ b > a => m - b < m - a
OBVIOUS

LEMMA SumDrops ==
    ASSUME NEW a \in Int, NEW b \in Int, NEW c \in Int, NEW d \in Int,
           NEW w \in Int, NEW x \in Int, NEW y \in Int, NEW z \in Int,
           w <= a, x <= b, y <= c, z <= d, w < a \/ x < b \/ y < c \/ z < d
    PROVE  w + x + y + z < a + b + c + d
OBVIOUS

(* The steps of user code.                                                  *)
LEMMA BodyUsesUp ==
    ASSUME Accounted, Countable', Running, Body
    PROVE  Less(Remaining', Remaining)
<1> USE DEF instanceVars, mailVars, slotVars, turnVars
<1>1. Countable /\ TypeOK /\ TypeOK' /\ StackDiscipline
  BY DEF Accounted, Countable
<1>2. ASSUME NEW phase, TopIs(phase)
      PROVE  frames # << >> /\ Top \in Frame /\ Top.phase = phase
  BY <1>1, <1>2, TopIsFrame DEF TopIs
<1>3. /\ spawned \in 0..MaxActors /\ sent \in 0..MaxMessages /\ asked \in 0..MaxAsks
      /\ throws \in 0..MaxThrows
      /\ spawned' \in 0..MaxActors /\ sent' \in 0..MaxMessages /\ asked' \in 0..MaxAsks
      /\ throws' \in 0..MaxThrows
      /\ MaxActors \in Nat /\ MaxMessages \in Nat /\ MaxAsks \in Nat /\ MaxThrows \in Nat
  BY <1>1, BoundsAssumption DEF TypeOK
<1>4. ASSUME spawned' >= spawned, sent' >= sent, asked' >= asked, throws' >= throws,
             \/ spawned' > spawned \/ sent' > sent \/ asked' > asked \/ throws' > throws
      PROVE  Budget' < Budget
  <2>1. /\ MaxActors - spawned \in Int /\ MaxActors - spawned' \in Int
        /\ MaxActors - spawned' <= MaxActors - spawned
        /\ spawned' > spawned => MaxActors - spawned' < MaxActors - spawned
    BY <1>3, <1>4, LeftDrops
  <2>2. /\ MaxMessages - sent \in Int /\ MaxMessages - sent' \in Int
        /\ MaxMessages - sent' <= MaxMessages - sent
        /\ sent' > sent => MaxMessages - sent' < MaxMessages - sent
    BY <1>3, <1>4, LeftDrops
  <2>3. /\ MaxAsks - asked \in Int /\ MaxAsks - asked' \in Int
        /\ MaxAsks - asked' <= MaxAsks - asked
        /\ asked' > asked => MaxAsks - asked' < MaxAsks - asked
    BY <1>3, <1>4, LeftDrops
  <2>4. /\ MaxThrows - throws \in Int /\ MaxThrows - throws' \in Int
        /\ MaxThrows - throws' <= MaxThrows - throws
        /\ throws' > throws => MaxThrows - throws' < MaxThrows - throws
    BY <1>3, <1>4, LeftDrops
  <2>5. (MaxActors - spawned') + (MaxMessages - sent') + (MaxAsks - asked')
          + (MaxThrows - throws')
        < (MaxActors - spawned) + (MaxMessages - sent) + (MaxAsks - asked)
          + (MaxThrows - throws)
    BY <1>4, <2>1, <2>2, <2>3, <2>4, SumDrops
  <2>6. QED
    BY <2>5 DEF Budget
<1>5. ASSUME NEW policy, Spawn(policy) PROVE Less(Remaining', Remaining)
  <2>1. spawned' = spawned + 1 /\ UNCHANGED <<sent, asked, throws>>
    BY <1>5 DEF Spawn
  <2>2. QED
    BY <1>1, <1>3, <1>4, <2>1, LessBySpending
<1>6. ASSUME NEW id, Tell(id) PROVE Less(Remaining', Remaining)
  <2>1. sent' = sent + 1 /\ UNCHANGED <<spawned, asked, throws>>
    BY <1>6 DEF Tell, Enqueue, NextTicket
  <2>2. QED
    BY <1>1, <1>3, <1>4, <2>1, LessBySpending
<1>7. ASSUME NEW id, Ask(id) PROVE Less(Remaining', Remaining)
  <2>1. /\ asked' = asked + 1 /\ UNCHANGED <<spawned, throws>>
        /\ sent' = sent + 1 \/ sent' = sent
    BY <1>7 DEF Ask, Enqueue, NextTicket
  <2>2. QED
    BY <1>1, <1>3, <1>4, <2>1, LessBySpending
<1>8. ASSUME NEW k, Throw(k) PROVE Less(Remaining', Remaining)
  <2>1. throws' = throws + 1 /\ UNCHANGED <<spawned, sent, asked>>
    BY <1>8 DEF Throw
  <2>2. QED
    BY <1>1, <1>3, <1>4, <2>1, LessBySpending
<1>9. ASSUME SelectNothing \/ EndTurnOnTakenState PROVE Less(Remaining', Remaining)
  <2>1. ~ Running'
    BY <1>9 DEF SelectNothing, EndTurnOnTakenState, Fail, Running
  <2>2. QED
    BY <1>1, <2>1, LessBySpending
<1>10. ASSUME UNCHANGED <<actor_mailbox, asked, taken, pending_supervision>>
       PROVE  /\ actor_mailbox' \subseteq actor_mailbox /\ Unconsumed' \subseteq Unconsumed
              /\ RestartsDue' \subseteq RestartsDue
  BY <1>10 DEF Unconsumed, RestartsDue
<1>11. ASSUME NEW phase \in {"await", "select"}, NEW ss \in Futures, Wait(phase, ss)
       PROVE  Less(Remaining', Remaining)
  <2> DEFINE f == [Top EXCEPT !.phase = phase, !.awaiting = ss]
  <2>1. /\ Top \in Frame /\ frames # << >> /\ Top.phase = "body" /\ frames' = WithTop(f)
        /\ UNCHANGED <<outcome, spawned, sent, asked, throws, actor_mailbox, taken,
                       pending_supervision>>
    BY <1>2, <1>11 DEF Wait
  <2>2. ss \in Seq(Slot) /\ ss # << >>
    BY <1>1, <1>11, FuturesType
  <2>3. f \in Frame
    BY <2>1, <2>2, FrameWith DEF Live
  <2>4. f.kind = Top.kind /\ f.phase = phase
    BY <2>1 DEF Frame, FrameRecord
  <2> HIDE DEF f
  <2>5. PhasesLeft(f.phase) < PhasesLeft(Top.phase)
    BY <2>1, <2>4 DEF PhasesLeft, Live
  <2>6. TopMoves /\ TurnsOn(frames') = TurnsOn(frames)
    BY <1>1, <2>1, <2>3, <2>4, <2>5, TopAdvances
  <2>7. QED
    BY <1>1, <1>10, <2>1, <2>6, LessByTaking DEF Settled
<1>12. ASSUME NEW reply \in {"ok", "err"}, EndTurn(reply) PROVE Less(Remaining', Remaining)
  <2> DEFINE f == [Top EXCEPT !.phase = "ended", !.reply = reply]
  <2>1. /\ Top \in Frame /\ frames # << >> /\ Top.phase = "body" /\ frames' = WithTop(f)
        /\ Top.kind # "main"
        /\ UNCHANGED <<outcome, spawned, sent, asked, throws, actor_mailbox, taken,
                       pending_supervision>>
    BY <1>2, <1>12 DEF EndTurn
  <2>2. f \in Frame
    BY <2>1 DEF Frame, FrameRecord
  <2>3. f.kind = Top.kind /\ f.phase = "ended"
    BY <2>1 DEF Frame, FrameRecord
  <2> HIDE DEF f
  <2>4. PhasesLeft(f.phase) < PhasesLeft(Top.phase)
    BY <2>1, <2>3 DEF PhasesLeft, Live
  <2>5. TopMoves /\ TurnsOn(frames') = TurnsOn(frames)
    BY <1>1, <2>1, <2>2, <2>3, <2>4, TopAdvances
  <2>6. QED
    BY <1>1, <1>10, <2>1, <2>5, LessByTaking DEF Settled
<1>13. ASSUME EndMain PROVE Less(Remaining', Remaining)
  <2>1. /\ frames # << >> /\ frames' = << >>
        /\ UNCHANGED <<outcome, spawned, sent, asked, throws, actor_mailbox, taken,
                       pending_supervision>>
    BY <1>2, <1>13 DEF EndMain
  <2>2. Len(frames') = 0 /\ Len(frames) \in Nat \ {0} /\ TurnsOn(frames') = {}
    BY <1>1, <2>1, TopIsFrame DEF TurnsOn
  <2>3. Len(frames') < Len(frames) /\ TurnsOn(frames') \subseteq TurnsOn(frames)
    BY <2>2
  <2>4. QED
    BY <1>1, <1>10, <2>1, <2>3, LessByTaking DEF Settled
<1>14. QED
  BY <1>5, <1>6, <1>7, <1>8, <1>9, <1>11, <1>12, <1>13 DEF Body, Await, Select

(* The steps of the pump.                                                   *)
LEMMA PumpUsesUp ==
    ASSUME Accounted, Countable', Running, Pump
    PROVE  Less(Remaining', Remaining)
<1> USE DEF instanceVars, mailVars, slotVars, turnVars
<1>1. Countable /\ TypeOK /\ TypeOK' /\ StackDiscipline /\ SlotsTell
  BY DEF Accounted, Countable, RequestsInvariant
<1>2. ASSUME NEW slot \in Slot, slot <= asked, actor_reply_slots[slot] = "Filled",
             taken' = taken \cup {slot},
             UNCHANGED <<outcome, spawned, sent, asked, throws, actor_mailbox>>
      PROVE  Less(Remaining', Remaining)
  <2>1. slot \in Unconsumed /\ slot \notin Unconsumed' /\ Unconsumed' \subseteq Unconsumed
    BY <1>1, <1>2 DEF SlotsTell, Unconsumed, Slot, TypeOK
  <2>2. QED
    BY <1>1, <1>2, <2>1, LessByTaking DEF Settled
<1>3. ASSUME NEW i \in DOMAIN Top.awaiting, TopIs("await") \/ TopIs("select")
      PROVE  Top.awaiting[i] \in Slot /\ Top.awaiting[i] <= asked
  <2>1. frames # << >> /\ Top \in Frame /\ Orderly(Top, asked)
    BY <1>1, <1>3, TopIsFrame, TopOrderly DEF TopIs
  <2>2. Top.awaiting \in Seq(Slot)
    BY <2>1 DEF Frame, FrameRecord
  <2>3. QED
    BY <1>3, <2>1, <2>2, LenProperties, ElementOfSeq DEF Orderly
<1>4. ASSUME AwaitTakes PROVE Less(Remaining', Remaining)
  <2>1. frames # << >> /\ Top \in Frame /\ Top.phase = "await"
    BY <1>1, <1>4, TopIsFrame DEF AwaitTakes, TopIs
  <2>2. Top.awaiting \in Seq(Slot) /\ Top.awaiting # << >>
    BY <2>1 DEF Frame, FrameRecord
  <2>3. 1 \in DOMAIN Top.awaiting /\ Awaited = Top.awaiting[1]
    BY <2>2, EmptySeq, LenProperties DEF Awaited
  <2>4. Awaited \in Slot /\ Awaited <= asked
    BY <1>3, <1>4, <2>3 DEF AwaitTakes
  <2>5. QED
    BY <1>2, <1>4, <2>4 DEF AwaitTakes, TakeReply
<1>5. ASSUME SelectTakes PROVE Less(Remaining', Remaining)
  <2>1. PICK i \in DOMAIN Top.awaiting :
           /\ FirstFilled(i)
           /\ TakeReply(Top.awaiting[i],
                [Top EXCEPT !.phase = "body", !.awaiting = << >>])
    BY <1>5 DEF SelectTakes
  <2>2. Top.awaiting[i] \in Slot /\ Top.awaiting[i] <= asked
    BY <1>3, <1>5 DEF SelectTakes
  <2>3. QED
    BY <1>2, <2>1, <2>2 DEF FirstFilled, TakeReply
<1>6. ASSUME NEW m \in actor_mailbox, Dispatch(m) PROVE Less(Remaining', Remaining)
  <2>1. /\ actor_mailbox' = actor_mailbox \ {m}
        /\ UNCHANGED <<outcome, spawned, sent, asked, throws, taken>>
    BY <1>6 DEF Dispatch
  <2>2. Unconsumed' \subseteq Unconsumed
    BY <2>1 DEF Unconsumed
  <2>3. QED
    BY <1>1, <2>1, <2>2, LessByTaking DEF Settled
<1>7. ASSUME AwaitUnavailable \/ SelectUnavailable \/ Stall \/ DrainEnds
      PROVE  Less(Remaining', Remaining)
  <2>1. ~ Running'
    BY <1>7 DEF AwaitUnavailable, SelectUnavailable, Stall, DrainEnds, Fail, Running
  <2>2. QED
    BY <1>1, <2>1, LessBySpending
<1>8. QED
  BY <1>4, <1>5, <1>6, <1>7 DEF Pump

(* The steps of supervision.                                                *)
LEMMA SupervisionUsesUp ==
    ASSUME Accounted, Countable', Running, Supervision
    PROVE  Less(Remaining', Remaining)
<1> USE DEF instanceVars, mailVars, slotVars, turnVars
<1>1. Countable /\ TypeOK /\ TypeOK' /\ StackDiscipline /\ EscalationInvariant
  BY DEF Accounted, Countable
<1>2. ASSUME NEW phase \in {"ended", "reply", "supervise"}, TopIs(phase)
      PROVE  /\ frames # << >> /\ Top \in Frame /\ Top.phase = phase
             /\ Top.actor_id \in Id /\ Top.cursor \in Id
             /\ phase = "supervise" => Top.kind = "turn"
  <2>1. frames # << >> /\ Top \in Frame /\ Top.phase = phase /\ Orderly(Top, asked)
    BY <1>1, <1>2, TopIsFrame, TopOrderly DEF TopIs
  <2>2. QED
    BY <2>1 DEF Frame, FrameRecord, Orderly, Live
<1>3. ASSUME ~ Running' PROVE Less(Remaining', Remaining)
  BY <1>1, <1>3, LessBySpending
<1>4. /\ UNCHANGED <<asked, taken>> => Unconsumed' \subseteq Unconsumed
      /\ UNCHANGED pending_supervision => RestartsDue' \subseteq RestartsDue
      /\ UNCHANGED actor_mailbox => actor_mailbox' \subseteq actor_mailbox
  BY DEF Unconsumed, RestartsDue
<1>5. ASSUME NEW phase \in {"ended", "reply"}, TopIs(phase)
      PROVE  LET f == [Top EXCEPT !.phase = IF phase = "ended" THEN "reply" ELSE "supervise"]
             IN  /\ f \in Frame /\ f.kind = Top.kind /\ f.actor_id = Top.actor_id
                 /\ frames' = WithTop(f) => TopMoves /\ TurnsOn(frames') = TurnsOn(frames)
  <2> DEFINE p == IF phase = "ended" THEN "reply" ELSE "supervise"
             f == [Top EXCEPT !.phase = p]
  <2>1. frames # << >> /\ Top \in Frame /\ Top.phase = phase /\ Top.actor_id \in Id
    BY <1>2, <1>5
  <2>2. p \in {"reply", "supervise"} /\ PhasesLeft(p) < PhasesLeft(phase)
    BY DEF PhasesLeft, Live
  <2> HIDE DEF p
  <2>3. f \in Frame
    BY <1>5, <2>1, <2>2 DEF Frame, FrameRecord, Live
  <2>4. f.kind = Top.kind /\ f.phase = p /\ f.actor_id = Top.actor_id
    BY <2>1 DEF Frame, FrameRecord
  <2> HIDE DEF f
  <2>5. frames' = WithTop(f) => TopMoves /\ TurnsOn(frames') = TurnsOn(frames)
    BY <1>1, <2>1, <2>2, <2>3, <2>4, TopAdvances
  <2>6. QED
    BY <2>3, <2>4, <2>5 DEF f, p
<1>6. ASSUME NoDeferred PROVE Less(Remaining', Remaining)
  <2>1. TopMoves /\ TurnsOn(frames') = TurnsOn(frames)
    BY <1>5, <1>6 DEF NoDeferred
  <2>2. QED
    BY <1>1, <1>4, <1>6, <2>1, LessByTaking DEF NoDeferred, Settled
<1>7. ASSUME DeferredStop PROVE Less(Remaining', Remaining)
  <2>1. TopMoves /\ TurnsOn(frames') = TurnsOn(frames)
    BY <1>5, <1>7 DEF DeferredStop
  <2>2. Top.actor_id \in Id
    BY <1>2, <1>7 DEF DeferredStop
  <2>3. actor_mailbox' \subseteq actor_mailbox
    BY <1>1, <1>7, <2>2, StopTakes DEF DeferredStop
  <2>4. RestartsDue' \subseteq RestartsDue
    BY <1>1, <1>7, <2>2 DEF DeferredStop, ClearPending, RestartsDue, TypeOK
  <2>5. QED
    BY <1>1, <1>4, <1>7, <2>1, <2>3, <2>4, LessByTaking DEF DeferredStop, Settled
<1>8. ASSUME NEW id \in Id, NEW below \in Seq(Frame), RestartActor(id, below)
      PROVE  TurnsOn(frames') = TurnsOn(below)
  <2> DEFINE instances == [actor_instances EXCEPT ![id].state = incarnation[id] + 1]
  <2>1. incarnation[id] + 1 \in Nat
    BY <1>1 DEF TypeOK
  <2>2. instances \in [Id -> Instance]
    BY <1>1, <2>1, StateType DEF TypeOK
  <2>3. BeginTurn(id, "restart", NoSlot, instances, below)
    BY <1>8 DEF RestartActor
  <2> HIDE DEF instances
  <2>4. TurnBegins(id, "restart", NoSlot, instances, below)
    BY <2>2, <2>3 DEF TurnBegins
  <2>5. QED
    BY <1>1, <2>4, TurnsPushed
<1>9. ASSUME DeferredRestart PROVE Less(Remaining', Remaining)
  <2> DEFINE f == [Top EXCEPT !.phase = "reply"]
  <2>1. /\ frames # << >> /\ Top \in Frame /\ Top.actor_id \in Id /\ TopIs("ended")
        /\ f \in Frame /\ f.kind = Top.kind
    BY <1>2, <1>5, <1>9 DEF DeferredRestart
  <2>2. RestartActor(Top.actor_id, WithTop(f))
    BY <1>9 DEF DeferredRestart
  <2> HIDE DEF f
  <2>3. WithTop(f) \in Seq(Frame) /\ TurnsOn(WithTop(f)) = TurnsOn(frames)
    BY <1>1, <2>1, TopIsFrame, TurnsRetopped
  <2>4. TurnsOn(frames') = TurnsOn(frames)
    BY <1>8, <2>1, <2>2, <2>3
  <2>5. RestartsDue' \subseteq RestartsDue /\ RestartsDue' # RestartsDue
    BY <1>1, <1>9, <2>1 DEF DeferredRestart, ClearPending, RestartsDue, TypeOK
  <2>6. QED
    BY <1>1, <1>4, <1>9, <2>4, <2>5, LessByTaking DEF DeferredRestart, Settled
<1>10. ASSUME SpawnReturns \/ RestartReturns PROVE Less(Remaining', Remaining)
  <2>1. frames # << >> /\ frames' = Popped
    BY <1>2, <1>10 DEF SpawnReturns, RestartReturns
  <2>2. Len(frames') < Len(frames) /\ TurnsOn(frames') \subseteq TurnsOn(frames)
    BY <1>1, <2>1, TopPops
  <2>3. /\ UNCHANGED <<asked, taken, pending_supervision, actor_mailbox>>
        /\ Settled
    BY <1>10 DEF SpawnReturns, RestartReturns, Settled
  <2>4. QED
    BY <1>1, <1>4, <2>2, <2>3, LessByTaking
<1>11. ASSUME frames # << >>, frames' = Popped, Top.kind = "turn", Settled,
              UNCHANGED <<asked, taken>>, actor_mailbox' \subseteq actor_mailbox
       PROVE  Less(Remaining', Remaining)
  <2>1. TurnsOn(frames') \subseteq TurnsOn(frames) /\ TurnsOn(frames') # TurnsOn(frames)
    BY <1>1, <1>11, TopPops
  <2>2. QED
    BY <1>1, <1>4, <1>11, <2>1, LessByTaking
<1>12. ASSUME PublishReply PROVE Less(Remaining', Remaining)
  <2>1. /\ UNCHANGED <<asked, taken, pending_supervision, actor_mailbox>> /\ Settled
        /\ frames # << >> /\ Top.kind = "turn" /\ TopIs("reply")
    BY <1>2, <1>12 DEF PublishReply, Settled
  <2>2. CASE frames' = Popped
    BY <1>4, <1>11, <2>1, <2>2
  <2>3. CASE frames' = WithTop([Top EXCEPT !.phase = "supervise"])
    <3>1. TopMoves /\ TurnsOn(frames') = TurnsOn(frames)
      BY <1>5, <2>1, <2>3
    <3>2. QED
      BY <1>1, <1>4, <2>1, <3>1, LessByTaking
  <2>4. QED
    BY <1>12, <2>2, <2>3 DEF PublishReply
<1>13. ASSUME Unsupervised \/ SuperviseRestartDeferred PROVE Less(Remaining', Remaining)
  <2>1. /\ frames # << >> /\ Top.kind = "turn" /\ frames' = Popped /\ Settled
        /\ UNCHANGED <<asked, taken, actor_mailbox>>
    BY <1>2, <1>13 DEF Unsupervised, SuperviseRestartDeferred, Settled
  <2>2. QED
    BY <1>4, <1>11, <2>1
<1>14. ASSUME SuperviseStop PROVE Less(Remaining', Remaining)
  <2>1. /\ frames # << >> /\ Top.kind = "turn" /\ frames' = Popped /\ Settled
        /\ UNCHANGED <<asked, taken>> /\ Top.cursor \in Id /\ StopOrDefer(Top.cursor)
    BY <1>2, <1>14 DEF SuperviseStop, Settled
  <2>2. QED
    BY <1>1, <1>11, <2>1, StopTakes
<1>15. ASSUME SuperviseRestart PROVE Less(Remaining', Remaining)
  <2>1. /\ frames # << >> /\ Top.kind = "turn" /\ Top.cursor \in Id /\ Settled
        /\ RestartActor(Top.cursor, Popped) /\ UNCHANGED <<asked, taken, actor_mailbox>>
    BY <1>2, <1>15 DEF SuperviseRestart, Settled
  <2>2. Popped \in Seq(Frame)
    BY <1>1, <2>1, TopIsFrame
  <2>3. /\ TurnsOn(frames') = TurnsOn(Popped)
        /\ TurnsOn(Popped) = TurnsOn(frames) \ {Len(frames)}
        /\ Len(frames) \in TurnsOn(frames)
    BY <1>1, <1>8, <2>1, <2>2, TurnsPopped
  <2>4. TurnsOn(frames') \subseteq TurnsOn(frames) /\ TurnsOn(frames') # TurnsOn(frames)
    BY <2>3
  <2>5. QED
    BY <1>1, <1>4, <2>1, <2>4, LessByTaking
<1>16. ASSUME Escalate, Running' PROVE Less(Remaining', Remaining)
  <2> DEFINE s == actor_instances[Top.cursor].supervisor
             f == [Top EXCEPT !.cursor = s]
  <2>1. /\ frames # << >> /\ Top \in Frame /\ Top.phase = "supervise" /\ Top.cursor \in Id
        /\ StopOrDefer(Top.cursor) /\ s # Main /\ frames' = WithTop(f) /\ Settled
        /\ UNCHANGED <<asked, taken>>
    BY <1>2, <1>16 DEF Escalate, Settled, Running
  <2>2. s \in Id /\ s < Top.cursor
    BY <1>1, <2>1 DEF EscalationInvariant, TypeOK, Instance
  <2> HIDE DEF s
  <2>3. /\ f \in Frame /\ f.cursor = s /\ f.kind = Top.kind /\ f.phase = Top.phase
    BY <2>1, <2>2, CursorFrame
  <2> HIDE DEF f
  <2>4. TopMoves /\ TurnsOn(frames') = TurnsOn(frames)
    BY <1>1, <2>1, <2>2, <2>3, TopAdvances
  <2>5. actor_mailbox' \subseteq actor_mailbox /\ RestartsDue' \subseteq RestartsDue
    BY <1>1, <2>1, StopTakes
  <2>6. QED
    BY <1>1, <1>4, <2>1, <2>4, <2>5, LessByTaking
<1>17. ASSUME EscalatedToUnsupervised \/ DeferredRestartLoops PROVE ~ Running'
  BY <1>17 DEF EscalatedToUnsupervised, DeferredRestartLoops, Fail, Running
<1>18. QED
  BY <1>3, <1>6, <1>7, <1>9, <1>10, <1>12, <1>13, <1>14, <1>15, <1>16, <1>17 DEF Supervision

FiniteMail == IsFiniteSet(actor_mailbox)

LEMMA MailboxFinite == Spec => []IsFiniteSet(actor_mailbox)
<1>1. Init => FiniteMail
  BY FS_EmptySet DEF Init, FiniteMail
<1>2. FiniteMail /\ [Next]_vars => FiniteMail'
  <2> SUFFICES ASSUME IsFiniteSet(actor_mailbox), [Next]_vars PROVE IsFiniteSet(actor_mailbox')
    BY DEF FiniteMail
  <2> USE DEF instanceVars, mailVars, slotVars, turnVars
  <2>1. ASSUME actor_mailbox' \subseteq actor_mailbox PROVE IsFiniteSet(actor_mailbox')
    BY <2>1, FS_Subset
  <2>2. ASSUME NEW id, NEW slot, Enqueue(id, slot) PROVE IsFiniteSet(actor_mailbox')
    BY <2>2, FS_AddElement DEF Enqueue
  <2>3. CASE Body
    BY <2>1, <2>2, <2>3 DEF Body, Spawn, Tell, Ask, Await, Select, Wait, SelectNothing,
       Fail, EndTurn, EndTurnOnTakenState, EndMain, Throw
  <2>4. CASE Pump
    BY <2>1, <2>4 DEF Pump, AwaitTakes, SelectTakes, TakeReply, AwaitUnavailable,
       SelectUnavailable, Dispatch, Stall, DrainEnds, Fail
  <2>5. CASE Supervision
    <3>1. ASSUME NEW id, StopActor(id) PROVE actor_mailbox' \subseteq actor_mailbox
      BY <3>1 DEF StopActor
    <3>2. ASSUME NEW id, StopOrDefer(id) PROVE actor_mailbox' \subseteq actor_mailbox
      BY <3>1, <3>2 DEF StopOrDefer
    <3>3. actor_mailbox' \subseteq actor_mailbox
      BY <2>5, <3>1, <3>2 DEF Supervision, NoDeferred, DeferredStop, DeferredRestart,
         DeferredRestartLoops, SpawnReturns, RestartReturns, PublishReply, Unsupervised,
         SuperviseStop, SuperviseRestart, SuperviseRestartDeferred, Escalate,
         EscalatedToUnsupervised, Fail
    <3>4. QED
      BY <2>1, <3>3
  <2>6. CASE UNCHANGED vars
    BY <2>1, <2>6 DEF vars
  <2>7. QED
    BY <2>3, <2>4, <2>5, <2>6 DEF Next, Ended
<1>3. Spec => []FiniteMail
  BY <1>1, <1>2, PTL DEF Spec
<1>4. FiniteMail => IsFiniteSet(actor_mailbox)
  BY DEF FiniteMail
<1>5. QED
  BY <1>3, <1>4, PTL

(* Every step of a run makes what Remaining counts less, for any number of    *)
(* actors, messages, requests and errors.  With a budget that user code does  *)
(* not draw on, a nest of awaits, a drain, a restart or an escalation comes    *)
(* to its end in as many steps as the queue, the replies not consumed, and the *)
(* stack allow.                                                             *)
THEOREM EveryStepUsesUpCorrect == Spec => EveryStepUsesUp
<1>1. Accounted /\ Countable' /\ [Next]_vars => [Less(Remaining', Remaining)]_vars
  <2> SUFFICES ASSUME Accounted, Countable', Next, ~ UNCHANGED vars
               PROVE  Less(Remaining', Remaining)
    OBVIOUS
  <2>1. Running
    BY EndedStays
  <2>2. QED
    BY <2>1, BodyUsesUp, PumpUsesUp, SupervisionUsesUp DEF Next, Ended
<1>2. Spec => []Accounted
  BY TypeCorrect, StackCorrect, DisciplineCorrect, RequestsInductive,
     EscalationInductive, MailboxFinite, PTL DEF Accounted, Countable
<1>3. Spec => []Countable
  BY TypeCorrect, MailboxFinite, PTL DEF Countable
<1>4. QED
  BY <1>1, <1>2, <1>3, PTL DEF Spec, EveryStepUsesUp

(* The values of Remaining are nine numbers, and no descent through them is   *)
(* endless: any set of them has one than which none in the set is less.  So   *)
(* a run takes finitely many steps.                                         *)
THEOREM NoEndlessDescent ==
    /\ Spec => [](Remaining \in [1..9 -> Nat])
    /\ \A S \in SUBSET [1..9 -> Nat] :
          S # {} => \E x \in S : \A y \in S : ~ Less(y, x)
<1>1. Countable => Remaining \in [1..9 -> Nat]
  <2> SUFFICES ASSUME Countable PROVE Remaining \in [1..9 -> Nat]
    OBVIOUS
  <2>1. \A j \in 1..9 : Remaining[j] \in Nat
    BY RemainingType
  <2>2. Remaining = [j \in 1..9 |-> Remaining[j]]
    BY DEF Remaining
  <2>3. QED
    BY <2>1, <2>2
<1>2. Spec => [](Remaining \in [1..9 -> Nat])
  BY <1>1, TypeCorrect, MailboxFinite, PTL DEF Countable
<1>3. ASSUME NEW S \in SUBSET [1..9 -> Nat], S # {}
      PROVE  \E x \in S : \A y \in S : ~ Less(y, x)
  <2> DEFINE R == OpToRel(<, Nat)
             L == LexProductOrdering(R, Nat, 9)
  <2>1. \A j, k \in Nat : j < k => <<j, k>> \in R
    BY DEF OpToRel
  <2>2. IsWellFoundedOn(R, Nat)
    BY NatLessThanWellFounded
  <2> HIDE DEF R
  <2>3. IsWellFoundedOn(L, [1..9 -> Nat])
    BY <2>2, WFLexProductOrdering
  <2>4. ASSUME NEW x \in S, NEW y \in S, Less(y, x) PROVE <<y, x>> \in L
    <3>1. PICK k \in 1..9 : y[k] < x[k] /\ \A j \in 1..(k - 1) : y[j] = x[j]
      BY <2>4 DEF Less
    <3>2. <<y[k], x[k]>> \in R
      BY <2>1, <3>1
    <3>3. QED
      BY <3>1, <3>2 DEF LexProductOrdering
  <2> HIDE DEF L
  <2>5. PICK x \in S : \A y \in S : ~ (<<y, x>> \in L)
    BY <1>3, <2>3, WFMin
  <2>6. QED
    BY <2>4, <2>5
<1>4. QED
  BY <1>2, <1>3

=============================================================================
