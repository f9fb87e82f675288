------------------------- MODULE ActorsStackProofs --------------------------
(* Theorems about the actor scheduler, for every bound, every set of        *)
(* supervise policies and every Knows: its types; no actor runs two turns at *)
(* once, because the stack operations preserve StackOK and StackOK implies   *)
(* SerialTurns; and a stopped actor is silent for ever.                     *)
EXTENDS ActorsProperties, SequenceTheorems, TLAPS

-----------------------------------------------------------------------------
(* The stack operations.                                                   *)

(* What Last, Front and the replacement of the last element yield.         *)
LEMMA StackOps ==
    ASSUME NEW S, NEW s \in Seq(S), s # << >>
    PROVE  /\ Len(s) \in Nat \ {0}
           /\ Last(s) = s[Len(s)] /\ Last(s) \in S
           /\ Front(s) \in Seq(S) /\ Len(Front(s)) = Len(s) - 1
           /\ \A i \in 1..(Len(s) - 1) : Front(s)[i] = s[i]
           /\ \A e \in S :
                /\ Append(Front(s), e) \in Seq(S)
                /\ Len(Append(Front(s), e)) = Len(s)
                /\ \A i \in 1..Len(s) :
                     Append(Front(s), e)[i] = IF i = Len(s) THEN e ELSE s[i]
<1>1. Len(s) \in Nat \ {0}
  BY EmptySeq
<1>2. Last(s) = s[Len(s)] /\ Last(s) \in S
  BY <1>1, ElementOfSeq DEF Last
<1>3. \A i \in 1..(Len(s) - 1) : s[i] \in S
  BY <1>1, ElementOfSeq
<1>4. /\ Front(s) \in Seq(S) /\ Len(Front(s)) = Len(s) - 1
      /\ \A i \in 1..(Len(s) - 1) : Front(s)[i] = s[i]
  <2> DEFINE n == Len(s) - 1
  <2>1. 1 \in Int /\ n \in Int /\ n >= 0 /\ n - 1 + 1 = n
    BY <1>1
  <2>2. /\ SubSeq(s, 1, n) \in Seq(S)
        /\ Len(SubSeq(s, 1, n)) = IF 1 <= n THEN n - 1 + 1 ELSE 0
        /\ \A i \in 1..(n - 1 + 1) : SubSeq(s, 1, n)[i] = s[1 + i - 1]
    <3> HIDE DEF n
    <3>1. \A i \in 1..n : s[i] \in S
      BY <1>3 DEF n
    <3>2. QED
      BY <2>1, <3>1, SubSeqProperties
  <2>3. Len(SubSeq(s, 1, n)) = n
    <3> HIDE DEF n
    <3>1. QED
      BY <2>1, <2>2
  <2>4. \A i \in 1..n : SubSeq(s, 1, n)[i] = s[i]
    <3> HIDE DEF n
    <3>1. QED
      BY <2>1, <2>2
  <2>5. QED
    BY <2>2, <2>3, <2>4 DEF Front
<1>5. ASSUME NEW e \in S
      PROVE  /\ Append(Front(s), e) \in Seq(S)
             /\ Len(Append(Front(s), e)) = Len(s)
             /\ \A i \in 1..Len(s) :
                  Append(Front(s), e)[i] = IF i = Len(s) THEN e ELSE s[i]
  <2> DEFINE f == Front(s)
  <2>1. /\ Append(f, e) \in Seq(S)
        /\ Len(Append(f, e)) = Len(f) + 1
        /\ \A i \in 1..Len(f) : Append(f, e)[i] = f[i]
        /\ Append(f, e)[Len(f) + 1] = e
    BY <1>4, AppendProperties
  <2>2. QED
    BY <1>1, <1>4, <2>1
<1>6. QED
  BY <1>1, <1>2, <1>4, <1>5

(* A stack is a sequence of frames, so its top is a frame.                  *)
LEMMA TopIsFrame ==
    ASSUME TypeOK, frames # << >>
    PROVE  /\ Len(frames) \in Nat \ {0}
           /\ Top \in Frame /\ Top = frames[Len(frames)]
           /\ Popped \in Seq(Frame) /\ Len(Popped) = Len(frames) - 1
           /\ \A i \in 1..(Len(frames) - 1) : Popped[i] = frames[i]
           /\ \A f \in Frame :
                /\ WithTop(f) \in Seq(Frame)
                /\ Len(WithTop(f)) = Len(frames)
                /\ \A i \in 1..Len(frames) :
                     WithTop(f)[i] = IF i = Len(frames) THEN f ELSE frames[i]
<1>1. frames \in Seq(Frame)
  BY DEF TypeOK
<1>2. QED
  BY <1>1, StackOps DEF Top, Popped, WithTop

(* Waiting for a further reply, and going up to a supervisor, keep a frame one. *)
LEMMA FrameWith ==
    ASSUME NEW g \in Frame, NEW p \in Live, NEW rest \in Seq(Slot), p = "await" => rest # << >>
    PROVE  [g EXCEPT !.phase = p, !.awaiting = rest] \in Frame
<1> DEFINE f == [g EXCEPT !.phase = p, !.awaiting = rest]
<1>1. f \in FrameRecord
  BY DEF Frame, FrameRecord
<1>2. /\ f.phase = p /\ f.awaiting = rest
      /\ f.actor_id = g.actor_id /\ f.kind = g.kind /\ f.cursor = g.cursor
  BY DEF Frame, FrameRecord
<1> HIDE DEF f
<1>3. f \in Frame
  BY <1>1, <1>2 DEF Frame
<1>4. QED
  BY <1>3 DEF f

LEMMA AwaitedFrame ==
    ASSUME NEW g \in Frame, g.phase = "await"
    PROVE  LET rest == Tail(g.awaiting)
               f == [g EXCEPT !.phase = IF rest = << >> THEN "body" ELSE "await",
                              !.awaiting = rest]
           IN  /\ Head(g.awaiting) \in Slot /\ rest \in Seq(Slot) /\ f \in Frame
               /\ f.actor_id = g.actor_id /\ f.kind = g.kind /\ f.slot = g.slot
               /\ f.env = g.env /\ f.outer = g.outer /\ f.reply = g.reply
               /\ f.cursor = g.cursor
               /\ f.phase \in {"body", "await"} /\ f.awaiting = rest
<1> DEFINE rest == Tail(g.awaiting)
           p == IF rest = << >> THEN "body" ELSE "await"
           f == [g EXCEPT !.phase = p, !.awaiting = rest]
<1>1. g.awaiting \in Seq(Slot) /\ g.awaiting # << >>
  BY DEF Frame, FrameRecord
<1>2. Head(g.awaiting) \in Slot /\ rest \in Seq(Slot)
  BY <1>1, HeadTailProperties
<1>3. p \in {"body", "await"} /\ p \in Live /\ (p = "await" => rest # << >>)
  BY DEF Live
<1> HIDE DEF rest, p
<1>4. f \in Frame
  BY <1>2, <1>3, FrameWith
<1>5. /\ f.actor_id = g.actor_id /\ f.kind = g.kind /\ f.slot = g.slot
      /\ f.env = g.env /\ f.outer = g.outer /\ f.reply = g.reply
      /\ f.cursor = g.cursor /\ f.phase = p /\ f.awaiting = rest
  BY DEF Frame, FrameRecord
<1>6. QED
  BY <1>2, <1>3, <1>4, <1>5 DEF rest, p

LEMMA CursorFrame ==
    ASSUME NEW g \in Frame, g.phase = "supervise", NEW id \in Id
    PROVE  LET f == [g EXCEPT !.cursor = id]
           IN  /\ f \in Frame /\ f.cursor = id
               /\ f.actor_id = g.actor_id /\ f.kind = g.kind /\ f.slot = g.slot
               /\ f.phase = "supervise" /\ f.env = g.env /\ f.outer = g.outer
<1> DEFINE f == [g EXCEPT !.cursor = id]
<1>1. f \in FrameRecord
  BY DEF Frame, FrameRecord
<1>2. /\ f.cursor = id /\ f.phase = g.phase /\ f.awaiting = g.awaiting
      /\ f.actor_id = g.actor_id /\ f.kind = g.kind /\ f.slot = g.slot
      /\ f.env = g.env /\ f.outer = g.outer
  BY DEF Frame, FrameRecord
<1>3. g.kind # "main" /\ id # Main
  BY DEF Frame, Live, Id, Main
<1> HIDE DEF f
<1>4. f \in Frame
  BY <1>1, <1>2, <1>3 DEF Frame
<1>5. QED
  BY <1>2, <1>4 DEF f

(* The frame a turn starts with is a frame.                                 *)
LEMMA NewFrameType ==
    ASSUME NEW id \in Id \cup {Main}, NEW slot \in Slot \cup {NoSlot},
           NEW kind \in {"main", "init", "turn", "restart"},
           NEW env \in Nat, NEW outer \in Id \cup {Main},
           id = Main <=> kind = "main"
    PROVE  /\ NewFrame(id, kind, slot) \in Frame
           /\ [NewFrame(id, kind, slot) EXCEPT !.env = env, !.outer = outer] \in Frame
<1>1. << >> \in Seq(Slot)
  BY EmptySeq
<1>2. 0 \in Nat /\ Main \in Id \cup {Main}
  OBVIOUS
<1>3. QED
  BY <1>1, <1>2 DEF NewFrame, Frame, FrameRecord, Live

-----------------------------------------------------------------------------
(* Type correctness.                                                       *)

(* Writing an instance's state keeps the table well typed.                  *)
LEMMA StateType ==
    ASSUME NEW instances \in [Id -> Instance], NEW id, NEW n \in Nat
    PROVE  [instances EXCEPT ![id].state = n] \in [Id -> Instance]
<1>1. \A i \in Id : [instances[i] EXCEPT !.state = n] \in Instance
  BY DEF Instance
<1>2. QED
  BY <1>1

(* Pushing a turn keeps the stack, the instance table and the turn          *)
(* bookkeeping well typed.                                                  *)
LEMMA BeginTurnType ==
    ASSUME TypeOK, NEW id \in Id, NEW slot \in Slot \cup {NoSlot},
           NEW kind \in {"init", "turn", "restart"},
           NEW instances \in [Id -> Instance], NEW below \in Seq(Frame),
           BeginTurn(id, kind, slot, instances, below)
    PROVE  /\ busy_actors' \subseteq Id
           /\ current_actor' \in Id \cup {Main}
           /\ frames' \in Seq(Frame)
           /\ actor_instances' \in [Id -> Instance]
<1>1. instances[id].state \in Nat /\ current_actor \in Id \cup {Main}
  BY DEF Instance, TypeOK
<1>2. [NewFrame(id, kind, slot) EXCEPT !.env = instances[id].state,
                                       !.outer = current_actor] \in Frame
  <2>1. id # Main /\ kind # "main"
    BY DEF Id, Main
  <2>2. QED
    BY <1>1, <2>1, NewFrameType
<1>3. frames' \in Seq(Frame)
  BY <1>2, AppendProperties DEF BeginTurn
<1>4. actor_instances' \in [Id -> Instance]
  BY DEF BeginTurn, Instance, Taken
<1>5. QED
  BY <1>3, <1>4 DEF BeginTurn, TypeOK

(* Ending the program changes nothing but the outcome.                      *)
LEMMA FailType ==
    ASSUME TypeOK,
           NEW code \in {"done", "L0356", "L0359", "L0362", "L0363", "L0403"},
           Fail(code)
    PROVE  TypeOK'
BY DEF Fail, TypeOK, instanceVars, mailVars, slotVars, turnVars

(* Stopping an instance keeps the table well typed.                         *)
LEMMA StoppedType ==
    ASSUME NEW instances \in [Id -> Instance], NEW id
    PROVE  [instances EXCEPT ![id].stopped = TRUE] \in [Id -> Instance]
<1>1. \A i \in Id : [instances[i] EXCEPT !.stopped = TRUE] \in Instance
  BY DEF Instance
<1>2. QED
  BY <1>1

(* A stop keeps the tables well typed.                                      *)
LEMMA StopActorType ==
    ASSUME TypeOK, NEW id \in Id, StopActor(id)
    PROVE  /\ actor_instances' \in [Id -> Instance]
           /\ actor_mailbox' \subseteq Message
           /\ actor_reply_slots' \in
                [Slot -> {"Unused", "Pending", "Filled", "Unavailable"}]
<1>1. CASE actor_instances[id].stopped
  BY <1>1 DEF StopActor, TypeOK
<1>2. CASE ~ actor_instances[id].stopped
  <2>1. actor_instances' = [actor_instances EXCEPT ![id].stopped = TRUE]
    BY <1>2 DEF StopActor
  <2>2. actor_instances' \in [Id -> Instance]
    BY <2>1, StoppedType DEF TypeOK
  <2>3. actor_mailbox' \subseteq Message
    BY <1>2 DEF StopActor, TypeOK
  <2>4. actor_reply_slots' \in
                [Slot -> {"Unused", "Pending", "Filled", "Unavailable"}]
    BY <1>2 DEF StopActor, SlotsAfterPurge, TypeOK
  <2>5. QED
    BY <2>2, <2>3, <2>4
<1>3. QED
  BY <1>1, <1>2

(* The same, when the stop is deferred.                                     *)
LEMMA StopOrDeferType ==
    ASSUME TypeOK, NEW id \in Id, StopOrDefer(id)
    PROVE  /\ actor_instances' \in [Id -> Instance]
           /\ actor_mailbox' \subseteq Message
           /\ actor_reply_slots' \in
                [Slot -> {"Unused", "Pending", "Filled", "Unavailable"}]
           /\ pending_supervision' \in [Id -> {"none", "Restart", "Stop"}]
<1>1. CASE ~ MidTurn(id) /\ StopActor(id) /\ UNCHANGED pending_supervision
  BY <1>1, StopActorType DEF TypeOK
<1>2. CASE /\ Defer(id, "Stop")
           /\ UNCHANGED <<actor_instances, actor_mailbox, actor_reply_slots>>
  BY <1>2 DEF Defer, TypeOK
<1>3. QED
  BY <1>1, <1>2 DEF StopOrDefer

(* A queued message keeps the queue well typed.                             *)
LEMMA EnqueueType ==
    ASSUME TypeOK, NEW id \in Id, NEW slot \in Slot \cup {NoSlot}, Enqueue(id, slot)
    PROVE  sent' \in 0..MaxMessages /\ actor_mailbox' \subseteq Message
<1>1. sent + 1 \in 0..MaxMessages /\ sent + 1 \in Nat
  BY BoundsAssumption DEF TypeOK, Enqueue
<1>2. [ticket |-> sent + 1, actor_id |-> id, reply_slot |-> slot] \in Message
  BY <1>1 DEF Message
<1>3. QED
  BY <1>1, <1>2 DEF Enqueue, NextTicket, TypeOK

(* Initially everything is well typed.                                      *)
LEMMA TypeInit == Init => TypeOK
<1> SUFFICES ASSUME Init PROVE TypeOK
  OBVIOUS
<1>1. frames \in Seq(Frame)
  <2>1. NewFrame(Main, "main", NoSlot) \in Frame
    BY NewFrameType
  <2>2. << >> \in Seq(Frame)
    BY EmptySeq
  <2>3. Append(<< >>, NewFrame(Main, "main", NoSlot)) \in Seq(Frame)
    BY <2>1, <2>2, AppendProperties
  <2>4. QED
    BY <2>1 DEF Init
<1>2. actor_instances \in [Id -> Instance]
  BY DEF Init, Instance, Taken
<1>3. /\ spawned \in 0..MaxActors /\ sent \in 0..MaxMessages
      /\ asked \in 0..MaxAsks /\ throws \in 0..MaxThrows
  BY BoundsAssumption DEF Init
<1>4. /\ incarnation \in [Id -> Nat] /\ target \in [Slot -> Id \cup {Main}]
      /\ actor_reply_slots \in
           [Slot -> {"Unused", "Pending", "Filled", "Unavailable"}]
      /\ pending_supervision \in [Id -> {"none", "Restart", "Stop"}]
  BY DEF Init
<1>5. QED
  BY <1>1, <1>2, <1>3, <1>4 DEF Init, TypeOK

(* Everything but the stack, whose frames change in one place.              *)
LEMMA TypeExceptTop ==
    ASSUME TypeOK, NEW f \in Frame, frames # << >>, frames' = WithTop(f),
           UNCHANGED <<instanceVars, mailVars, slotVars, turnVars,
                       pending_supervision, outcome, throws>>
    PROVE  TypeOK'
<1>1. frames' \in Seq(Frame)
  BY TopIsFrame
<1>2. QED
  BY <1>1 DEF TypeOK, instanceVars, mailVars, slotVars, turnVars

(* What a body waits for is a non-empty list of slots.                      *)
LEMMA FuturesType ==
    ASSUME TypeOK, NEW ss \in Futures
    PROVE  ss \in Seq(Slot) /\ ss # << >>
<1>1. PICK n \in 1..MaxWait : ss \in [1..n -> Slot]
  <2> DEFINE held == {s \in 1..asked : <<current_actor, target[s]>> \in Knows}
  <2>1. PICK n \in 1..MaxWait : ss \in [1..n -> held]
    BY DEF Futures
  <2>2. held \subseteq Slot
    BY BoundsAssumption DEF Slot, TypeOK
  <2>3. ss \in [1..n -> Slot]
    BY <2>1, <2>2
  <2>4. QED
    BY <2>3
<1>2. n \in Nat
  BY BoundsAssumption
<1>3. ss \in Seq(Slot)
  BY <1>1, <1>2, SeqDef
<1>4. Len(ss) \in Nat /\ DOMAIN ss = 1..Len(ss) /\ 1 \in DOMAIN ss
  BY <1>1, <1>3, LenProperties
<1>5. QED
  BY <1>3, <1>4, EmptySeq

(* The operations of a body keep the state well typed.                      *)
LEMMA TypeBody == TypeOK /\ Body => TypeOK'
<1> SUFFICES ASSUME TypeOK, Body PROVE TypeOK'
  OBVIOUS
<1> USE DEF instanceVars, mailVars, slotVars, turnVars
<1>1. ASSUME NEW policy \in Policies, Spawn(policy) PROVE TypeOK'
  <2> DEFINE id == spawned + 1
             new == [supervisor |-> current_actor, policy |-> policy,
                     stopped |-> FALSE, state |-> 1]
             instances == [actor_instances EXCEPT ![id] = new]
  <2>1. id \in Id /\ id \in 0..MaxActors
    BY <1>1, BoundsAssumption DEF Spawn, TypeOK, Id
  <2>2. new \in Instance
    BY PoliciesAssumption DEF Instance, TypeOK
  <2>3. instances \in [Id -> Instance]
    BY <2>1, <2>2 DEF TypeOK
  <2>4. BeginTurn(id, "init", NoSlot, instances, frames)
    BY <1>1 DEF Spawn
  <2>5. frames \in Seq(Frame)
    BY DEF TypeOK
  <2>6. /\ busy_actors' \subseteq Id /\ current_actor' \in Id \cup {Main}
        /\ frames' \in Seq(Frame) /\ actor_instances' \in [Id -> Instance]
    <3> HIDE DEF id, instances
    <3>1. QED
      BY <2>1, <2>3, <2>4, <2>5, BeginTurnType
  <2>7. incarnation' \in [Id -> Nat]
    BY <1>1 DEF Spawn, TypeOK
  <2>8. QED
    BY <1>1, <2>1, <2>6, <2>7 DEF Spawn, TypeOK
<1>2. Known \subseteq Id
  BY DEF Known, TypeOK
<1>3. ASSUME NEW id \in Known, Tell(id) PROVE TypeOK'
  <2>1. id \in Id
    BY <1>2, <1>3
  <2>2. sent' \in 0..MaxMessages /\ actor_mailbox' \subseteq Message
    BY <1>3, <2>1, EnqueueType DEF Tell
  <2>3. QED
    BY <1>3, <2>2 DEF Tell, TypeOK
<1>4. ASSUME NEW id \in Known, Ask(id) PROVE TypeOK'
  <2>1. id \in Id
    BY <1>2
  <2>2. asked + 1 \in Slot /\ asked + 1 \in 0..MaxAsks
    BY <1>4, BoundsAssumption DEF Ask, TypeOK, Slot
  <2>3. sent' \in 0..MaxMessages /\ actor_mailbox' \subseteq Message
    <3>1. CASE actor_instances[id].stopped
      BY <1>4, <3>1 DEF Ask, TypeOK
    <3>2. CASE ~ actor_instances[id].stopped
      <4>1. Enqueue(id, asked + 1)
        BY <1>4, <3>2 DEF Ask
      <4>2. QED
        BY <2>1, <2>2, <4>1, EnqueueType
    <3>3. QED
      BY <3>1, <3>2
  <2>4. target' \in [Slot -> Id \cup {Main}]
    BY <1>4, <2>1 DEF Ask, TypeOK
  <2>5. actor_reply_slots' \in [Slot -> {"Unused", "Pending", "Filled", "Unavailable"}]
    BY <1>4 DEF Ask, TypeOK
  <2>6. QED
    BY <1>4, <2>2, <2>3, <2>4, <2>5 DEF Ask, TypeOK
<1>5. ASSUME NEW ss \in Futures, NEW phase \in {"await", "select"}, Wait(phase, ss)
      PROVE  TypeOK'
  <2>1. ss \in Seq(Slot) /\ ss # << >>
    BY FuturesType
  <2>2. frames # << >> /\ Top \in Frame
    BY <1>5, TopIsFrame DEF Wait, TopIs
  <2>3. [Top EXCEPT !.phase = phase, !.awaiting = ss] \in Frame
    BY <2>1, <2>2 DEF Frame, FrameRecord, Live
  <2>4. QED
    BY <1>5, <2>2, <2>3, TypeExceptTop DEF Wait
<1>6. SelectNothing => TypeOK'
  BY FailType DEF SelectNothing
<1>7. ASSUME NEW reply \in {"ok", "err"}, EndTurn(reply) PROVE TypeOK'
  <2>1. frames # << >> /\ Top \in Frame /\ Top.kind # "main"
    BY <1>7, TopIsFrame DEF EndTurn, TopIs
  <2>2. [Top EXCEPT !.phase = "ended", !.reply = reply] \in Frame
    BY <2>1 DEF Frame, FrameRecord
  <2>3. frames' \in Seq(Frame)
    BY <1>7, <2>1, <2>2, TopIsFrame DEF EndTurn
  <2>4. Top.env \in Nat /\ Top.outer \in Id \cup {Main}
    BY <2>1 DEF Frame, FrameRecord
  <2>5. actor_instances' \in [Id -> Instance]
    <3>1. actor_instances' = [actor_instances EXCEPT ![Top.actor_id].state = Top.env]
      BY <1>7 DEF EndTurn
    <3>2. QED
      BY <2>4, <3>1, StateType DEF TypeOK
  <2>6. busy_actors' \subseteq Id /\ current_actor' \in Id \cup {Main}
    BY <1>7, <2>4 DEF EndTurn, TypeOK
  <2>7. QED
    BY <1>7, <2>3, <2>5, <2>6 DEF EndTurn, TypeOK
<1>8. EndTurnOnTakenState => TypeOK'
  BY FailType DEF EndTurnOnTakenState
<1>9. EndMain => TypeOK'
  <2>1. << >> \in Seq(Frame)
    BY EmptySeq
  <2>2. QED
    BY <2>1 DEF EndMain, TypeOK
<1>10. ASSUME NEW k \in 0..Len(frames), Throw(k) PROVE TypeOK'
  <2>1. throws' \in 0..MaxThrows
    BY <1>10, BoundsAssumption DEF Throw, TypeOK
  <2>2. CASE k = 0
    BY <1>10, <2>1, <2>2 DEF Throw, TypeOK
  <2>3. CASE k # 0
    <3>1. frames \in Seq(Frame) /\ Len(frames) \in Nat
      BY LenProperties DEF TypeOK
    <3>2. k \in 1..Len(frames) /\ k + 1 \in 1..Len(frames)
      BY <1>10, <2>3, <3>1 DEF Throw
    <3>3. frames[k] \in Frame /\ frames[k + 1] \in Frame
      BY <3>1, <3>2, ElementOfSeq
    <3>4. << >> \in Seq(Slot)
      BY EmptySeq
    <3>5. [frames[k] EXCEPT !.phase = "body", !.awaiting = << >>] \in Frame
      BY <3>3, <3>4 DEF Frame, FrameRecord, Live
    <3>6. \A i \in 1..(k - 1) : frames[i] \in Frame
      BY <3>1, <3>2, ElementOfSeq
    <3>7. SubSeq(frames, 1, k - 1) \in Seq(Frame)
      <4>1. 1 \in Int /\ k - 1 \in Int
        BY <3>2
      <4>2. QED
        BY <3>6, <4>1, SubSeqProperties
    <3>8. frames' \in Seq(Frame)
      <4>1. frames' = Append(SubSeq(frames, 1, k - 1),
                       [frames[k] EXCEPT !.phase = "body", !.awaiting = << >>])
        BY <1>10, <2>3 DEF Throw
      <4>2. QED
        BY <3>5, <3>7, <4>1, AppendProperties
    <3>9. current_actor' \in Id \cup {Main}
      BY <1>10, <2>3, <3>3 DEF Throw, Frame, FrameRecord
    <3>10. QED
      BY <1>10, <2>1, <2>3, <3>8, <3>9 DEF Throw, TypeOK
  <2>4. QED
    BY <2>2, <2>3
<1>11. QED
  BY <1>1, <1>3, <1>4, <1>5, <1>6, <1>7, <1>8, <1>9, <1>10 DEF Body, Await, Select

(* The pump keeps the state well typed.                                     *)
LEMMA TypePump == TypeOK /\ Pump => TypeOK'
<1> SUFFICES ASSUME TypeOK, Pump PROVE TypeOK'
  OBVIOUS
<1> USE DEF instanceVars, mailVars, slotVars, turnVars
<1>1. ASSUME NEW s \in Slot, NEW f \in Frame, frames # << >>, TakeReply(s, f)
      PROVE  TypeOK'
  <2>1. frames' \in Seq(Frame)
    BY <1>1, TopIsFrame DEF TakeReply
  <2>2. actor_reply_slots' \in [Slot -> {"Unused", "Pending", "Filled", "Unavailable"}]
    BY <1>1 DEF TakeReply, AfterTake, TypeOK
  <2>3. QED
    BY <1>1, <2>1, <2>2 DEF TakeReply, TypeOK
<1>2. AwaitTakes => TypeOK'
  <2> SUFFICES ASSUME AwaitTakes PROVE TypeOK'
    OBVIOUS
  <2> DEFINE rest == Tail(Top.awaiting)
             f == [Top EXCEPT !.phase = IF rest = << >> THEN "body" ELSE "await",
                              !.awaiting = rest]
  <2>1. frames # << >> /\ Top \in Frame /\ Top.phase = "await"
    BY TopIsFrame DEF AwaitTakes, TopIs
  <2>2. Awaited \in Slot /\ f \in Frame
    BY <2>1, AwaitedFrame DEF Awaited
  <2>3. TakeReply(Awaited, f)
    BY DEF AwaitTakes
  <2> HIDE DEF f, rest
  <2>4. QED
    BY <1>1, <2>1, <2>2, <2>3
<1>3. SelectTakes => TypeOK'
  <2> SUFFICES ASSUME SelectTakes PROVE TypeOK'
    OBVIOUS
  <2> DEFINE f == [Top EXCEPT !.phase = "body", !.awaiting = << >>]
  <2>1. frames # << >> /\ Top \in Frame
    BY TopIsFrame DEF SelectTakes, TopIs
  <2>2. PICK i \in DOMAIN Top.awaiting : TakeReply(Top.awaiting[i], f)
    BY DEF SelectTakes
  <2>3. Top.awaiting \in Seq(Slot)
    BY <2>1 DEF Frame, FrameRecord
  <2>4. Top.awaiting[i] \in Slot
    BY <2>3, LenProperties, ElementOfSeq
  <2>5. << >> \in Seq(Slot)
    BY EmptySeq
  <2>6. f \in Frame
    BY <2>1, <2>5 DEF Frame, FrameRecord, Live
  <2>7. QED
    BY <1>1, <2>1, <2>2, <2>4, <2>6
<1>4. ASSUME NEW m \in actor_mailbox, Dispatch(m) PROVE TypeOK'
  <2>1. m.actor_id \in Id /\ m.reply_slot \in Slot \cup {NoSlot}
    BY DEF TypeOK, Message
  <2>2. /\ busy_actors' \subseteq Id /\ current_actor' \in Id \cup {Main}
        /\ frames' \in Seq(Frame) /\ actor_instances' \in [Id -> Instance]
    <3>1. BeginTurn(m.actor_id, "turn", m.reply_slot, actor_instances, frames)
      BY <1>4 DEF Dispatch
    <3>2. frames \in Seq(Frame) /\ actor_instances \in [Id -> Instance]
      BY DEF TypeOK
    <3>3. QED
      BY <2>1, <3>1, <3>2, BeginTurnType
  <2>3. actor_mailbox' \subseteq Message
    BY <1>4 DEF Dispatch, TypeOK
  <2>4. QED
    BY <1>4, <2>2, <2>3 DEF Dispatch, TypeOK
<1>5. AwaitUnavailable \/ SelectUnavailable \/ Stall \/ DrainEnds => TypeOK'
  BY FailType DEF AwaitUnavailable, SelectUnavailable, Stall, DrainEnds
<1>6. QED
  BY <1>2, <1>3, <1>4, <1>5 DEF Pump

(* Starting a restart keeps the state well typed.                           *)
LEMMA RestartType ==
    ASSUME TypeOK, NEW id \in Id, NEW below \in Seq(Frame), RestartActor(id, below)
    PROVE  /\ busy_actors' \subseteq Id /\ restarting' \subseteq Id
           /\ current_actor' \in Id \cup {Main}
           /\ frames' \in Seq(Frame)
           /\ actor_instances' \in [Id -> Instance]
           /\ incarnation' \in [Id -> Nat]
<1> DEFINE instances == [actor_instances EXCEPT ![id].state = incarnation[id] + 1]
<1>1. incarnation[id] + 1 \in Nat /\ incarnation' \in [Id -> Nat]
  BY DEF RestartActor, TypeOK
<1>2. instances \in [Id -> Instance]
  BY <1>1, StateType DEF TypeOK
<1>3. BeginTurn(id, "restart", NoSlot, instances, below)
  BY DEF RestartActor
<1>4. /\ busy_actors' \subseteq Id /\ current_actor' \in Id \cup {Main}
      /\ frames' \in Seq(Frame) /\ actor_instances' \in [Id -> Instance]
  <2> HIDE DEF instances
  <2>1. QED
    BY <1>2, <1>3, BeginTurnType
<1>5. QED
  BY <1>1, <1>4 DEF RestartActor, TypeOK

(* Supervision keeps the state well typed.                                  *)
LEMMA TypeSupervision == TypeOK /\ Supervision => TypeOK'
<1> SUFFICES ASSUME TypeOK, Supervision PROVE TypeOK'
  OBVIOUS
<1> USE DEF instanceVars, mailVars, slotVars, turnVars
<1> DEFINE atReply == [Top EXCEPT !.phase = "reply"]
<1>1. ASSUME frames # << >>, Top.phase \notin Live
      PROVE  /\ Top \in Frame /\ atReply \in Frame
             /\ Popped \in Seq(Frame) /\ WithTop(atReply) \in Seq(Frame)
  <2>1. Top \in Frame /\ Popped \in Seq(Frame)
    BY <1>1, TopIsFrame
  <2>2. atReply \in Frame
    BY <1>1, <2>1 DEF Frame, FrameRecord
  <2>3. QED
    BY <1>1, <2>1, <2>2, TopIsFrame
<1>2. NoDeferred => TypeOK'
  BY <1>1 DEF NoDeferred, TopIs, Live, TypeOK
<1>3. DeferredStop => TypeOK'
  <2> SUFFICES ASSUME DeferredStop PROVE TypeOK'
    OBVIOUS
  <2>1. frames # << >> /\ Top.phase = "ended" /\ Top.actor_id \in Id
    BY <1>1 DEF DeferredStop, TopIs, Frame, FrameRecord, Live
  <2>2. /\ actor_instances' \in [Id -> Instance]
        /\ actor_mailbox' \subseteq Message
        /\ actor_reply_slots' \in
             [Slot -> {"Unused", "Pending", "Filled", "Unavailable"}]
    BY <2>1, StopActorType DEF DeferredStop
  <2>3. pending_supervision' \in [Id -> {"none", "Restart", "Stop"}]
    BY DEF DeferredStop, ClearPending, TypeOK
  <2>4. frames' \in Seq(Frame)
    BY <1>1, <2>1 DEF DeferredStop, Live
  <2>5. QED
    BY <2>2, <2>3, <2>4 DEF DeferredStop, TypeOK
<1>4. DeferredRestart => TypeOK'
  <2> SUFFICES ASSUME DeferredRestart PROVE TypeOK'
    OBVIOUS
  <2>1. frames # << >> /\ Top.phase = "ended" /\ Top.actor_id \in Id
    BY <1>1 DEF DeferredRestart, TopIs, Frame, FrameRecord, Live
  <2>2. RestartActor(Top.actor_id, WithTop(atReply))
    BY DEF DeferredRestart
  <2>3. /\ busy_actors' \subseteq Id /\ restarting' \subseteq Id
        /\ current_actor' \in Id \cup {Main}
        /\ frames' \in Seq(Frame)
        /\ actor_instances' \in [Id -> Instance]
        /\ incarnation' \in [Id -> Nat]
    BY <1>1, <2>1, <2>2, RestartType DEF Live
  <2>4. pending_supervision' \in [Id -> {"none", "Restart", "Stop"}]
    BY DEF DeferredRestart, ClearPending, TypeOK
  <2>5. QED
    BY <2>3, <2>4 DEF DeferredRestart, TypeOK
<1>5. DeferredRestartLoops \/ EscalatedToUnsupervised => TypeOK'
  BY FailType DEF DeferredRestartLoops, EscalatedToUnsupervised
<1>6. SpawnReturns => TypeOK'
  <2> SUFFICES ASSUME SpawnReturns PROVE TypeOK'
    OBVIOUS
  <2>1. Top.actor_id \in Id /\ frames' \in Seq(Frame)
    BY <1>1 DEF SpawnReturns, TopIs, Frame, FrameRecord, Live
  <2>2. QED
    BY <2>1 DEF SpawnReturns, TypeOK
<1>7. RestartReturns => TypeOK'
  BY <1>1 DEF RestartReturns, TopIs, Live, TypeOK
<1>8. PublishReply => TypeOK'
  <2> SUFFICES ASSUME PublishReply PROVE TypeOK'
    OBVIOUS
  <2>1. frames # << >> /\ Top \in Frame /\ Top.kind = "turn"
    BY <1>1 DEF PublishReply, TopIs, Live
  <2>2. [Top EXCEPT !.phase = "supervise"] \in Frame
    BY <2>1 DEF Frame, FrameRecord
  <2>3. frames' \in Seq(Frame)
    BY <1>1, <2>1, <2>2, TopIsFrame DEF PublishReply
  <2>4. actor_reply_slots' \in
             [Slot -> {"Unused", "Pending", "Filled", "Unavailable"}]
    BY DEF PublishReply, TypeOK
  <2>5. QED
    BY <2>3, <2>4 DEF PublishReply, TypeOK
<1>9. ASSUME TopIs("supervise")
      PROVE  frames # << >> /\ Top.cursor \in Id /\ Popped \in Seq(Frame)
  BY <1>1, <1>9 DEF TopIs, Frame, FrameRecord, Live
<1>10. Unsupervised => TypeOK'
  BY <1>9 DEF Unsupervised, TypeOK
<1>11. SuperviseStop => TypeOK'
  <2> SUFFICES ASSUME SuperviseStop PROVE TypeOK'
    OBVIOUS
  <2>1. /\ actor_instances' \in [Id -> Instance]
        /\ actor_mailbox' \subseteq Message
        /\ actor_reply_slots' \in
             [Slot -> {"Unused", "Pending", "Filled", "Unavailable"}]
        /\ pending_supervision' \in [Id -> {"none", "Restart", "Stop"}]
    BY <1>9, StopOrDeferType DEF SuperviseStop
  <2>2. QED
    BY <1>9, <2>1 DEF SuperviseStop, TypeOK
<1>12. SuperviseRestart => TypeOK'
  <2> SUFFICES ASSUME SuperviseRestart PROVE TypeOK'
    OBVIOUS
  <2>1. /\ busy_actors' \subseteq Id /\ restarting' \subseteq Id
        /\ current_actor' \in Id \cup {Main}
        /\ frames' \in Seq(Frame)
        /\ actor_instances' \in [Id -> Instance]
        /\ incarnation' \in [Id -> Nat]
    BY <1>9, RestartType DEF SuperviseRestart
  <2>2. QED
    BY <2>1 DEF SuperviseRestart, TypeOK
<1>13. SuperviseRestartDeferred => TypeOK'
  BY <1>9 DEF SuperviseRestartDeferred, Defer, TypeOK
<1>14. Escalate => TypeOK'
  <2> SUFFICES ASSUME Escalate PROVE TypeOK'
    OBVIOUS
  <2> DEFINE supervisor == actor_instances[Top.cursor].supervisor
  <2>1. TopIs("supervise") /\ Top.cursor \in Id /\ frames # << >> /\ Top \in Frame
    BY <1>1, <1>9 DEF Escalate, TopIs, Live
  <2>2. supervisor \in Id \cup {Main}
    BY <2>1 DEF TypeOK, Instance
  <2>3. /\ actor_instances' \in [Id -> Instance]
        /\ actor_mailbox' \subseteq Message
        /\ actor_reply_slots' \in
             [Slot -> {"Unused", "Pending", "Filled", "Unavailable"}]
        /\ pending_supervision' \in [Id -> {"none", "Restart", "Stop"}]
    BY <2>1, StopOrDeferType DEF Escalate
  <2>4. CASE supervisor = Main
    BY <2>3, <2>4 DEF Escalate, TypeOK
  <2>5. CASE supervisor # Main
    <3>1. [Top EXCEPT !.cursor = supervisor] \in Frame
      BY <2>1, <2>2, <2>5 DEF Frame, FrameRecord, TopIs, Live
    <3>2. frames' = WithTop([Top EXCEPT !.cursor = supervisor])
      BY <2>5 DEF Escalate
    <3>3. frames' \in Seq(Frame)
      BY <2>1, <3>1, <3>2, TopIsFrame
    <3>4. QED
      BY <2>3, <2>5, <3>3 DEF Escalate, TypeOK
  <2>6. QED
    BY <2>4, <2>5
<1>15. QED
  BY <1>2, <1>3, <1>4, <1>5, <1>6, <1>7, <1>8, <1>10, <1>11, <1>12, <1>13, <1>14
     DEF Supervision

(***************************************************************************)
(* The scheduler's state is well typed: in particular main's frame is never  *)
(* ended or supervised, a waiting frame has a future to wait for, and an      *)
(* escalation cursor is always an actor.                                    *)
(***************************************************************************)
THEOREM TypeCorrect == Spec => []TypeOK
<1>1. Init => TypeOK
  BY TypeInit
<1>2. TypeOK /\ [Next]_vars => TypeOK'
  <2> SUFFICES ASSUME TypeOK, [Next]_vars PROVE TypeOK'
    OBVIOUS
  <2>1. CASE Body
    BY <2>1, TypeBody
  <2>2. CASE Pump
    BY <2>2, TypePump
  <2>3. CASE Supervision
    BY <2>3, TypeSupervision
  <2>4. CASE UNCHANGED vars
    BY <2>4 DEF TypeOK, vars, instanceVars, mailVars, slotVars, turnVars
  <2>5. QED
    BY <2>1, <2>2, <2>3, <2>4 DEF Next, Ended
<1>3. QED
  BY <1>1, <1>2, PTL DEF Spec

-----------------------------------------------------------------------------
(* What the ways a stack changes do to StackOK.  `S(f)` below abbreviates    *)
(* "f is running user code".                                                *)

(* The actors of the frames that are running user code.                     *)
LiveActors(F) == {F[i].actor_id : i \in {j \in DOMAIN F : F[j].phase \in Live}}

(* What it takes for a stack to be in order.                                *)
LEMMA StackIntro ==
    ASSUME NEW F, NEW busy, NEW current,
           \A i, j \in DOMAIN F : i < j /\ F[i].phase \in Live
                                    => F[i].actor_id # F[j].actor_id,
           \A i \in DOMAIN F : F[i].kind = "main" => i = 1,
           busy = LiveActors(F) \ {Main},
           IsCurrent(F, Len(F), current),
           \A i \in DOMAIN F : IsCurrent(F, i - 1, F[i].outer)
    PROVE  StackOK(F, busy, current)
  BY DEF StackOK, LiveActors

(* A frame that stays live, or stays not live, disturbs nothing.            *)
LEMMA KeepTop ==
    ASSUME NEW F \in Seq(Frame), NEW G \in Seq(Frame), NEW busy, NEW current,
           Len(F) > 0, Len(G) = Len(F), StackOK(F, busy, current),
           \A i \in 1..Len(F) :
               /\ G[i].actor_id = F[i].actor_id
               /\ G[i].kind = F[i].kind
               /\ G[i].outer = F[i].outer
               /\ G[i].phase \in Live <=> F[i].phase \in Live
    PROVE  StackOK(G, busy, current)
<1>1. DOMAIN F = 1..Len(F) /\ DOMAIN G = 1..Len(F) /\ Len(F) \in Nat
  BY LenProperties
<1>2. {G[i].actor_id : i \in {j \in DOMAIN G : G[j].phase \in Live}} =
      {F[i].actor_id : i \in {j \in DOMAIN F : F[j].phase \in Live}}
  BY <1>1
<1>3. ASSUME NEW n \in 0..Len(F), NEW a, IsCurrent(F, n, a) PROVE IsCurrent(G, n, a)
  <2>1. \A i \in 1..n : i \in 1..Len(F) /\ \A j \in (i + 1)..n : j \in 1..Len(F)
    BY <1>1
  <2>2. QED
    BY <1>3, <2>1 DEF IsCurrent
<1>4. IsCurrent(G, Len(G), current)
  BY <1>1, <1>3 DEF StackOK
<1>5. \A i \in DOMAIN G : IsCurrent(G, i - 1, G[i].outer)
  <2>1. ASSUME NEW i \in 1..Len(F) PROVE IsCurrent(G, i - 1, G[i].outer)
    <3>1. i - 1 \in 0..Len(F)
      BY <1>1
    <3>2. IsCurrent(F, i - 1, F[i].outer)
      BY <1>1 DEF StackOK
    <3>3. QED
      BY <1>3, <3>1, <3>2
  <2>2. QED
    BY <1>1, <2>1
<1>6. /\ \A i, j \in DOMAIN G : i < j /\ G[i].phase \in Live
                                => G[i].actor_id # G[j].actor_id
      /\ \A i \in DOMAIN G : G[i].kind = "main" => i = 1
  <2>1. /\ \A i, j \in DOMAIN F : i < j /\ F[i].phase \in Live
                                  => F[i].actor_id # F[j].actor_id
        /\ \A i \in DOMAIN F : F[i].kind = "main" => i = 1
    BY Zenon DEF StackOK
  <2>2. QED
    BY <1>1, <2>1
<1>7. busy = LiveActors(G) \ {Main}
  BY <1>2 DEF StackOK, LiveActors
<1>8. QED
  BY <1>4, <1>5, <1>6, <1>7, StackIntro, Zenon

(* IsCurrent looks only at the frames it is about.                          *)
LEMMA SamePrefix ==
    ASSUME NEW F, NEW G, NEW n \in Nat, NEW a,
           \A i \in 1..n : G[i] = F[i], IsCurrent(F, n, a)
    PROVE  IsCurrent(G, n, a)
<1>1. \A i \in 1..n : \A j \in (i + 1)..n : j \in 1..n
  OBVIOUS
<1>2. QED
  BY <1>1 DEF IsCurrent

(* A turn that ends, or a frame that leaves: the frames below decide who is  *)
(* busy and who is current.                                                 *)
LEMMA TopNotLive ==
    ASSUME NEW F \in Seq(Frame), Len(F) > 0, F[Len(F)].phase \notin Live, NEW a
    PROVE  IsCurrent(F, Len(F), a) <=> IsCurrent(F, Len(F) - 1, a)
<1>1. Len(F) \in Nat
  BY LenProperties
<1> DEFINE n == Len(F)
<1>2. 1..n = (1..(n - 1)) \cup {n}
  BY <1>1
<1>3. \A i \in 1..(n - 1) : (i + 1)..n = ((i + 1)..(n - 1)) \cup {n}
  BY <1>1
<1>4. F[n].phase \notin Live
  OBVIOUS
<1> HIDE DEF n
<1>5. IsCurrent(F, n, a) <=> IsCurrent(F, n - 1, a)
  BY <1>2, <1>3, <1>4 DEF IsCurrent
<1>6. QED
  BY <1>5 DEF n

(* The actor of a finished frame is not mid-turn.                           *)
LEMMA FinishedNotBusy ==
    ASSUME NEW F \in Seq(Frame), NEW busy, NEW current, StackOK(F, busy, current),
           Len(F) > 0, F[Len(F)].phase \notin Live
    PROVE  F[Len(F)].actor_id \notin busy
<1>1. DOMAIN F = 1..Len(F) /\ Len(F) \in Nat
  BY LenProperties
<1>2. ASSUME NEW i \in DOMAIN F, F[i].phase \in Live
      PROVE  F[i].actor_id # F[Len(F)].actor_id
  <2>1. i < Len(F) /\ Len(F) \in DOMAIN F
    BY <1>1, <1>2
  <2>2. QED
    BY <1>2, <2>1 DEF StackOK
<1>3. QED
  BY <1>2 DEF StackOK

(* Popping a finished frame.                                                *)
LEMMA PopFinished ==
    ASSUME NEW F \in Seq(Frame), NEW G \in Seq(Frame), NEW busy, NEW current,
           StackOK(F, busy, current), Len(F) > 0, F[Len(F)].phase \notin Live,
           Len(G) = Len(F) - 1, \A i \in 1..(Len(F) - 1) : G[i] = F[i]
    PROVE  StackOK(G, busy, current)
<1>1. DOMAIN F = 1..Len(F) /\ DOMAIN G = 1..(Len(F) - 1) /\ Len(F) \in Nat
  BY LenProperties
<1>2. DOMAIN G \subseteq DOMAIN F /\ \A i \in DOMAIN G : G[i] = F[i]
  BY <1>1
<1>3. \A i \in DOMAIN F : F[i].phase \in Live => i \in DOMAIN G
  BY <1>1
<1>4. {G[i].actor_id : i \in {j \in DOMAIN G : G[j].phase \in Live}} =
      {F[i].actor_id : i \in {j \in DOMAIN F : F[j].phase \in Live}}
  BY <1>2, <1>3
<1>5. IsCurrent(G, Len(G), current)
  <2>1. IsCurrent(F, Len(F) - 1, current)
    BY TopNotLive DEF StackOK
  <2>2. Len(F) - 1 \in Nat
    BY <1>1
  <2>3. IsCurrent(G, Len(F) - 1, current)
    BY <2>1, <2>2, SamePrefix
  <2>4. QED
    BY <2>3
<1>6. ASSUME NEW i \in DOMAIN G PROVE IsCurrent(G, i - 1, G[i].outer)
  <2>1. IsCurrent(F, i - 1, F[i].outer)
    BY <1>2 DEF StackOK
  <2>2. i - 1 \in Nat /\ \A j \in 1..(i - 1) : G[j] = F[j]
    BY <1>1, <1>2
  <2>3. QED
    BY <1>2, <2>1, <2>2, SamePrefix
<1>7. /\ \A i, j \in DOMAIN G :
           i < j /\ G[i].phase \in Live => G[i].actor_id # G[j].actor_id
      /\ \A i \in DOMAIN G : G[i].kind = "main" => i = 1
  BY <1>2 DEF StackOK
<1>8. busy = LiveActors(G) \ {Main}
  BY <1>4 DEF StackOK, LiveActors
<1>9. QED
  BY <1>5, <1>6, <1>7, <1>8, StackIntro, Zenon

(* A turn whose body ends: its actor is no longer busy, and `outer` becomes  *)
(* current.                                                                *)
LEMMA FinishTop ==
    ASSUME NEW F \in Seq(Frame), NEW G \in Seq(Frame), NEW busy, NEW current,
           NEW n \in Nat \ {0}, n = Len(F), StackOK(F, busy, current), Len(G) = n,
           F[n].phase \in Live, F[n].actor_id # Main,
           \A i \in 1..(n - 1) : G[i] = F[i],
           G[n].actor_id = F[n].actor_id, G[n].kind = F[n].kind,
           G[n].outer = F[n].outer, G[n].phase \notin Live
    PROVE  StackOK(G, busy \ {F[n].actor_id}, F[n].outer)
<1>1. DOMAIN F = 1..n /\ DOMAIN G = 1..n /\ n \in 1..n
  BY LenProperties
<1>2. \A i \in 1..n : i # n => i \in 1..(n - 1) /\ G[i] = F[i]
  OBVIOUS
<1>3. \A i \in 1..n : i # n /\ F[i].phase \in Live => F[i].actor_id # F[n].actor_id
  BY <1>1 DEF StackOK
<1>4. busy \ {F[n].actor_id} =
      LiveActors(G) \ {Main}
  <2>1. busy = {F[i].actor_id : i \in {j \in DOMAIN F : F[j].phase \in Live}} \ {Main}
    BY DEF StackOK
  <2>2. QED
    BY <1>1, <1>2, <1>3, <2>1 DEF LiveActors
<1>5. IsCurrent(G, Len(G), F[n].outer)
  <2>1. IsCurrent(F, n - 1, F[n].outer)
    BY <1>1 DEF StackOK
  <2>2. n - 1 \in Nat
    OBVIOUS
  <2>3. IsCurrent(G, n - 1, F[n].outer)
    BY <2>1, <2>2, SamePrefix
  <2>4. QED
    BY <2>3, TopNotLive
<1>6. ASSUME NEW i \in DOMAIN G PROVE IsCurrent(G, i - 1, G[i].outer)
  <2>1. IsCurrent(F, i - 1, F[i].outer) /\ G[i].outer = F[i].outer
    BY <1>1, <1>2 DEF StackOK
  <2>2. i - 1 \in Nat /\ \A j \in 1..(i - 1) : G[j] = F[j]
    BY <1>1, <1>2
  <2>3. QED
    BY <2>1, <2>2, SamePrefix
<1>7. /\ \A i, j \in DOMAIN G : i < j /\ G[i].phase \in Live
                                => G[i].actor_id # G[j].actor_id
      /\ \A i \in DOMAIN G : G[i].kind = "main" => i = 1
  <2>1. /\ \A i, j \in DOMAIN F : i < j /\ F[i].phase \in Live
                                  => F[i].actor_id # F[j].actor_id
        /\ \A i \in DOMAIN F : F[i].kind = "main" => i = 1
    BY Zenon DEF StackOK
  <2>2. QED
    BY <1>1, <1>2, <2>1
<1>8. QED
  BY <1>4, <1>5, <1>6, <1>7, StackIntro, Zenon

(* Starting a turn of an actor that is not mid-turn.                        *)
LEMMA PushTurn ==
    ASSUME NEW F \in Seq(Frame), NEW f \in Frame, NEW busy, NEW current,
           StackOK(F, busy, current), f.actor_id \notin busy, f.actor_id # Main,
           f.kind # "main", f.phase \in Live, f.outer = current
    PROVE  StackOK(Append(F, f), busy \cup {f.actor_id}, f.actor_id)
<1> DEFINE n == Len(F)  G == Append(F, f)
<1>1. n \in Nat /\ DOMAIN F = 1..n
  BY LenProperties
<1>2. /\ G \in Seq(Frame) /\ Len(G) = n + 1 /\ G[n + 1] = f
      /\ \A i \in 1..n : G[i] = F[i]
  BY AppendProperties
<1>3. DOMAIN G = 1..(n + 1)
  BY <1>2, LenProperties
<1> HIDE DEF n, G
<1>4. \A i \in 1..(n + 1) : i # n + 1 => i \in 1..n
  BY <1>1
<1>5. \A i \in 1..n : i \in 1..(n + 1) /\ i < n + 1
  BY <1>1
<1>6. n + 1 \in 1..(n + 1)
  BY <1>1
<1>7. \A i \in 1..n : F[i].phase \in Live => F[i].actor_id # f.actor_id
  BY <1>1 DEF StackOK
<1>8. busy \cup {f.actor_id} =
      LiveActors(G) \ {Main}
  <2>1. busy = {F[i].actor_id : i \in {j \in 1..n : F[j].phase \in Live}} \ {Main}
    BY <1>1 DEF StackOK
  <2>2. QED
    BY <1>2, <1>3, <1>4, <1>5, <1>6, <2>1 DEF LiveActors
<1>9. IsCurrent(G, Len(G), f.actor_id)
  <2>1. \A j \in (n + 1 + 1)..(n + 1) : FALSE
    BY <1>1
  <2>2. QED
    BY <1>2, <1>6, <2>1 DEF IsCurrent
<1>10. ASSUME NEW i \in DOMAIN G PROVE IsCurrent(G, i - 1, G[i].outer)
  <2>1. CASE i = n + 1
    <3>1. IsCurrent(F, n, f.outer)
      BY DEF StackOK, n
    <3>2. IsCurrent(G, n, f.outer)
      BY <1>1, <1>2, <3>1, SamePrefix
    <3>3. i - 1 = n
      BY <1>1, <2>1
    <3>4. QED
      BY <1>2, <2>1, <3>2, <3>3
  <2>2. CASE i # n + 1
    <3>1. i \in 1..n
      BY <1>3, <1>4, <2>2
    <3>2. IsCurrent(F, i - 1, F[i].outer)
      BY <1>1, <3>1 DEF StackOK
    <3>3. i - 1 \in Nat /\ \A j \in 1..(i - 1) : G[j] = F[j]
      BY <1>1, <1>2, <3>1
    <3>4. QED
      BY <1>2, <3>1, <3>2, <3>3, SamePrefix
  <2>3. QED
    BY <2>1, <2>2
<1>11. \A i \in DOMAIN G : G[i].kind = "main" => i = 1
  BY <1>1, <1>2, <1>3, <1>4 DEF StackOK
<1>12. ASSUME NEW i \in DOMAIN G, NEW j \in DOMAIN G, i < j, G[i].phase \in Live
       PROVE  G[i].actor_id # G[j].actor_id
  <2>1. i \in 1..n /\ G[i] = F[i]
    BY <1>1, <1>2, <1>3, <1>12
  <2>2. CASE j = n + 1
    BY <1>2, <1>7, <1>12, <2>1, <2>2
  <2>3. CASE j # n + 1
    BY <1>1, <1>2, <1>3, <1>4, <1>12, <2>1, <2>3 DEF StackOK
  <2>4. QED
    BY <2>2, <2>3
<1>13. StackOK(G, busy \cup {f.actor_id}, f.actor_id)
  BY <1>8, <1>9, <1>10, <1>11, <1>12, StackIntro, Zenon
<1>14. QED
  BY <1>13 DEF G

(* Catching an error in the body of frame k: the frames above it leave.     *)
LEMMA UnwindTo ==
    ASSUME NEW F \in Seq(Frame), NEW G \in Seq(Frame), NEW busy, NEW current,
           NEW n \in Nat, n = Len(F), NEW k \in 1..(n - 1),
           StackOK(F, busy, current), Len(G) = k, F[k].phase \in Live,
           \A i \in 1..(k - 1) : G[i] = F[i],
           G[k].actor_id = F[k].actor_id, G[k].kind = F[k].kind,
           G[k].outer = F[k].outer, G[k].phase \in Live
    PROVE  StackOK(G, busy \ {F[i].actor_id : i \in (k + 1)..n}, F[k + 1].outer)
<1>1. DOMAIN F = 1..n /\ DOMAIN G = 1..k
  BY LenProperties
<1>2. \A i \in 1..k : /\ G[i].actor_id = F[i].actor_id /\ G[i].kind = F[i].kind
                      /\ G[i].outer = F[i].outer
                      /\ G[i].phase \in Live <=> F[i].phase \in Live
  <2>1. \A i \in 1..k : i = k \/ i \in 1..(k - 1)
    OBVIOUS
  <2>2. QED
    BY <2>1
<1>3. \A i \in 1..k : i \in 1..n
  OBVIOUS
<1>4. busy \ {F[i].actor_id : i \in (k + 1)..n} =
      LiveActors(G) \ {Main}
  <2>1. busy = {F[i].actor_id : i \in {j \in 1..n : F[j].phase \in Live}} \ {Main}
    BY <1>1 DEF StackOK
  <2>2. \A i \in 1..n : i \in 1..k \/ i \in (k + 1)..n
    OBVIOUS
  <2>3. \A i \in 1..k : F[i].phase \in Live =>
            \A j \in (k + 1)..n : F[i].actor_id # F[j].actor_id
    <3>1. \A i \in 1..k : \A j \in (k + 1)..n : i < j /\ i \in 1..n /\ j \in 1..n
      OBVIOUS
    <3>2. \A i, j \in 1..n : i < j /\ F[i].phase \in Live
                                => F[i].actor_id # F[j].actor_id
      <4>1. \A i, j \in DOMAIN F : i < j /\ F[i].phase \in Live
                                    => F[i].actor_id # F[j].actor_id
        BY Zenon DEF StackOK
      <4>2. QED
        BY <1>1, <4>1, Zenon
    <3>3. ASSUME NEW i \in 1..k, F[i].phase \in Live, NEW j \in (k + 1)..n
          PROVE  F[i].actor_id # F[j].actor_id
      <4>1. i \in 1..n /\ j \in 1..n /\ i < j
        BY <3>1, <3>3
      <4>2. QED
        BY <3>2, <3>3, <4>1
    <3>4. QED
      BY <3>3
  <2>4. LiveActors(G) = {F[i].actor_id : i \in {j \in 1..k : F[j].phase \in Live}}
    <3>1. {j \in DOMAIN G : G[j].phase \in Live} = {j \in 1..k : F[j].phase \in Live}
      BY <1>1, <1>2
    <3>2. \A i \in {j \in 1..k : F[j].phase \in Live} : G[i].actor_id = F[i].actor_id
      BY <1>2
    <3>3. QED
      BY <3>1, <3>2 DEF LiveActors
  <2>5. QED
    BY <1>3, <2>1, <2>2, <2>3, <2>4
<1>5. ASSUME NEW m \in 0..k, NEW a, IsCurrent(F, m, a) PROVE IsCurrent(G, m, a)
  <2>1. \A i \in 1..m : i \in 1..k /\ \A j \in (i + 1)..m : j \in 1..k
    OBVIOUS
  <2>2. QED
    BY <1>2, <1>5, <2>1 DEF IsCurrent
<1>6. IsCurrent(G, Len(G), F[k + 1].outer)
  <2>1. k + 1 \in DOMAIN F /\ k + 1 - 1 = k /\ k \in 0..k
    BY <1>1
  <2>2. IsCurrent(F, k, F[k + 1].outer)
    BY <2>1 DEF StackOK
  <2>3. QED
    BY <1>5, <2>1, <2>2
<1>7. ASSUME NEW i \in DOMAIN G PROVE IsCurrent(G, i - 1, G[i].outer)
  <2>1. i - 1 \in 0..k /\ i \in DOMAIN F
    BY <1>1, <1>3
  <2>2. IsCurrent(F, i - 1, F[i].outer)
    BY <2>1 DEF StackOK
  <2>3. QED
    BY <1>1, <1>2, <1>5, <2>1, <2>2
<1>8. /\ \A i, j \in DOMAIN G : i < j /\ G[i].phase \in Live
                                => G[i].actor_id # G[j].actor_id
      /\ \A i \in DOMAIN G : G[i].kind = "main" => i = 1
  <2>1. /\ \A i, j \in DOMAIN F : i < j /\ F[i].phase \in Live
                                  => F[i].actor_id # F[j].actor_id
        /\ \A i \in DOMAIN F : F[i].kind = "main" => i = 1
    BY Zenon DEF StackOK
  <2>2. QED
    BY <1>1, <1>2, <1>3, <2>1
<1>9. QED
  BY <1>4, <1>6, <1>7, <1>8, StackIntro, Zenon

-----------------------------------------------------------------------------
(* The actions, on the stack.                                              *)

Stack == StackOK(frames, busy_actors, current_actor)

(* Changing the top frame's phase within, or outside, user code.            *)
LEMMA RephaseTop ==
    ASSUME TypeOK, Stack, frames # << >>, NEW f \in Frame,
           f.actor_id = Top.actor_id, f.kind = Top.kind, f.outer = Top.outer,
           f.phase \in Live <=> Top.phase \in Live
    PROVE  StackOK(WithTop(f), busy_actors, current_actor)
<1> DEFINE F == frames  G == WithTop(f)
<1>1. /\ F \in Seq(Frame) /\ G \in Seq(Frame) /\ Len(F) \in Nat \ {0}
      /\ Len(G) = Len(F) /\ Top = F[Len(F)]
      /\ \A i \in 1..Len(F) : G[i] = IF i = Len(F) THEN f ELSE F[i]
  BY TopIsFrame DEF TypeOK
<1>2. StackOK(F, busy_actors, current_actor)
  BY DEF Stack
<1>3. \A i \in 1..Len(F) :
               /\ G[i].actor_id = F[i].actor_id
               /\ G[i].kind = F[i].kind
               /\ G[i].outer = F[i].outer
               /\ G[i].phase \in Live <=> F[i].phase \in Live
  BY <1>1
<1> HIDE DEF F, G
<1>4. StackOK(G, busy_actors, current_actor)
  BY <1>1, <1>2, <1>3, KeepTop
<1>5. QED
  BY <1>4 DEF G

(* Popping the top frame outside user code.                                 *)
LEMMA PopTop ==
    ASSUME TypeOK, Stack, frames # << >>, Top.phase \notin Live
    PROVE  /\ StackOK(Popped, busy_actors, current_actor)
           /\ Top.actor_id \notin busy_actors
<1>1. /\ frames \in Seq(Frame) /\ Popped \in Seq(Frame) /\ Len(frames) > 0
      /\ Top = frames[Len(frames)] /\ Len(Popped) = Len(frames) - 1
      /\ \A i \in 1..(Len(frames) - 1) : Popped[i] = frames[i]
  BY TopIsFrame DEF TypeOK
<1>2. StackOK(frames, busy_actors, current_actor)
  BY DEF Stack
<1>3. QED
  BY <1>1, <1>2, PopFinished, FinishedNotBusy

(* run_actor_turn's entry, for an actor that is not mid-turn.               *)
LEMMA BeginTurnStack ==
    ASSUME TypeOK, NEW id \in Id, NEW kind \in {"init", "turn", "restart"},
           NEW slot \in Slot \cup {NoSlot}, NEW instances \in [Id -> Instance],
           NEW below \in Seq(Frame), StackOK(below, busy_actors, current_actor),
           id \notin busy_actors, BeginTurn(id, kind, slot, instances, below)
    PROVE  Stack'
<1> DEFINE f == [NewFrame(id, kind, slot) EXCEPT !.env = instances[id].state,
                                                 !.outer = current_actor]
<1>1. instances[id].state \in Nat /\ current_actor \in Id \cup {Main}
      /\ id # Main /\ kind # "main"
  BY DEF Instance, TypeOK, Id, Main
<1>2. f \in Frame
  BY <1>1, NewFrameType
<1>3. /\ f.actor_id = id /\ f.kind = kind /\ f.phase \in Live
      /\ f.outer = current_actor
  BY DEF NewFrame, Live
<1>4. /\ frames' = Append(below, f) /\ busy_actors' = busy_actors \cup {id}
      /\ current_actor' = id
  BY DEF BeginTurn
<1> HIDE DEF f
<1>5. StackOK(Append(below, f), busy_actors \cup {f.actor_id}, f.actor_id)
  BY <1>1, <1>2, <1>3, PushTurn
<1>6. QED
  BY <1>3, <1>4, <1>5 DEF Stack

(* The operations of a body.                                                *)
LEMMA StackBody == TypeOK /\ StackInvariant /\ Body => Stack'
<1> SUFFICES ASSUME TypeOK, StackInvariant, Body PROVE Stack'
  OBVIOUS
<1> USE DEF instanceVars, mailVars, slotVars, turnVars
<1>1. Stack /\ StackOK(frames, busy_actors, current_actor) /\ frames \in Seq(Frame)
  BY DEF StackInvariant, Stack, TypeOK
<1>2. ASSUME UNCHANGED <<frames, busy_actors, current_actor>> PROVE Stack'
  BY <1>1, <1>2 DEF Stack
<1>3. ASSUME NEW policy \in Policies, Spawn(policy) PROVE Stack'
  <2> DEFINE id == spawned + 1
             instances == [actor_instances EXCEPT ![id] =
                 [supervisor |-> current_actor, policy |-> policy,
                  stopped |-> FALSE, state |-> 1]]
  <2>1. id \in Id
    BY <1>3, BoundsAssumption DEF Spawn, TypeOK, Id
  <2>2. [supervisor |-> current_actor, policy |-> policy,
         stopped |-> FALSE, state |-> 1] \in Instance
    BY PoliciesAssumption DEF Instance, TypeOK
  <2>3. instances \in [Id -> Instance]
    BY <2>1, <2>2 DEF TypeOK
  <2>4. id \notin busy_actors
    <3>1. \A i \in DOMAIN frames : frames[i].actor_id <= spawned
      BY DEF StackInvariant, OnlySpawnedNamed
    <3>2. \A a \in busy_actors : a <= spawned
      BY <1>1, <3>1 DEF StackOK
    <3>3. QED
      BY <2>1, <3>2 DEF TypeOK
  <2>5. BeginTurn(id, "init", NoSlot, instances, frames)
    BY <1>3 DEF Spawn
  <2> HIDE DEF id, instances
  <2>6. QED
    BY <1>1, <2>1, <2>3, <2>4, <2>5, BeginTurnStack
<1>4. ASSUME NEW id \in Known, Tell(id) \/ Ask(id) PROVE Stack'
  BY <1>2, <1>4 DEF Tell, Ask
<1>5. ASSUME NEW ss \in Futures, NEW phase \in {"await", "select"}, Wait(phase, ss)
      PROVE  Stack'
  <2> DEFINE f == [Top EXCEPT !.phase = phase, !.awaiting = ss]
  <2>1. frames # << >> /\ Top \in Frame /\ Top.phase = "body"
    BY <1>5, TopIsFrame DEF Wait, TopIs
  <2>2. f \in Frame
    BY <1>5, <2>1, FuturesType DEF Frame, FrameRecord, Live
  <2>3. /\ f.actor_id = Top.actor_id /\ f.kind = Top.kind /\ f.outer = Top.outer
        /\ f.phase \in Live <=> Top.phase \in Live
    BY <2>1 DEF Frame, FrameRecord, Live
  <2>4. /\ frames' = WithTop(f)
        /\ UNCHANGED <<busy_actors, current_actor>>
    BY <1>5 DEF Wait
  <2> HIDE DEF f
  <2>5. QED
    BY <1>1, <2>1, <2>2, <2>3, <2>4, RephaseTop DEF Stack
<1>6. ASSUME NEW code, Fail(code) PROVE Stack'
  BY <1>2, <1>6 DEF Fail
<1>7. SelectNothing \/ EndTurnOnTakenState => Stack'
  BY <1>6 DEF SelectNothing, EndTurnOnTakenState
<1>8. ASSUME NEW reply \in {"ok", "err"}, EndTurn(reply) PROVE Stack'
  <2> DEFINE f == [Top EXCEPT !.phase = "ended", !.reply = reply]
             n == Len(frames)
  <2>1. /\ frames # << >> /\ n \in Nat \ {0} /\ Top = frames[n] /\ Top \in Frame
        /\ Top.phase \in Live /\ Top.kind # "main"
    BY <1>8, TopIsFrame DEF EndTurn, TopIs, Live
  <2>2. f \in Frame /\ Top.actor_id # Main
    BY <2>1 DEF Frame, FrameRecord
  <2>3. /\ f.actor_id = Top.actor_id /\ f.kind = Top.kind /\ f.outer = Top.outer
        /\ f.phase \notin Live
    BY <2>1 DEF Frame, FrameRecord, Live
  <2>4. /\ frames' = WithTop(f) /\ busy_actors' = busy_actors \ {frames[n].actor_id}
        /\ current_actor' = frames[n].outer
    BY <1>8, <2>1 DEF EndTurn
  <2>5. /\ WithTop(f) \in Seq(Frame) /\ Len(WithTop(f)) = n
        /\ \A i \in 1..n : WithTop(f)[i] = IF i = n THEN f ELSE frames[i]
    BY <2>1, <2>2, TopIsFrame
  <2>6. /\ \A i \in 1..(n - 1) : WithTop(f)[i] = frames[i]
        /\ WithTop(f)[n] = f
    BY <2>1, <2>5
  <2> HIDE DEF f
  <2>7. StackOK(WithTop(f), busy_actors \ {frames[n].actor_id}, frames[n].outer)
    BY <1>1, <2>1, <2>2, <2>3, <2>5, <2>6, FinishTop
  <2>8. QED
    BY <2>4, <2>7 DEF Stack
<1>9. EndMain => Stack'
  <2> SUFFICES ASSUME EndMain PROVE Stack'
    OBVIOUS
  <2>1. /\ frames # << >> /\ Len(frames) \in Nat \ {0} /\ Top = frames[Len(frames)]
        /\ Top.kind = "main" /\ Top.phase \in Live /\ Top \in Frame
    BY TopIsFrame DEF EndMain, TopIs, Live
  <2>2. DOMAIN frames = 1..Len(frames)
    BY <1>1, LenProperties
  <2>3. Len(frames) = 1
    BY <1>1, <2>1, <2>2 DEF StackOK
  <2>4. frames[1].actor_id = Main /\ frames[1].phase \in Live
    BY <2>1, <2>3 DEF Frame
  <2>5. busy_actors = {}
    BY <1>1, <2>2, <2>3, <2>4 DEF StackOK
  <2>6. current_actor = Main
    <3>1. IsCurrent(frames, 1, current_actor)
      BY <1>1, <2>3 DEF StackOK
    <3>2. QED
      BY <2>4, <3>1 DEF IsCurrent
  <2>7. frames' = << >> /\ busy_actors' = {} /\ current_actor' = Main
    BY <2>5, <2>6 DEF EndMain
  <2>8. StackOK(<< >>, {}, Main)
    <3>1. Len(<< >>) = 0 /\ DOMAIN << >> = {} /\ \A j \in 1..0 : FALSE
      OBVIOUS
    <3>2. QED
      BY <3>1 DEF StackOK, IsCurrent
  <2>9. QED
    BY <2>7, <2>8 DEF Stack
<1>10. ASSUME NEW k \in 0..Len(frames), Throw(k) PROVE Stack'
  <2>1. CASE k = 0
    BY <1>2, <1>10, <2>1 DEF Throw
  <2>2. CASE k # 0
    <3> DEFINE n == Len(frames)
               f == [frames[k] EXCEPT !.phase = "body", !.awaiting = << >>]
               G == Append(SubSeq(frames, 1, k - 1), f)
    <3>1. n \in Nat /\ k \in 1..(n - 1) /\ k \in 1..n
      BY <1>1, <1>10, <2>2, LenProperties DEF Throw
    <3>2. /\ frames' = G /\ frames[k].phase \in Live
          /\ busy_actors' = busy_actors \ {frames[i].actor_id : i \in (k + 1)..n}
          /\ current_actor' = frames[k + 1].outer
      BY <1>10, <2>2 DEF Throw, Unwound
    <3>3. frames[k] \in Frame /\ \A i \in 1..(k - 1) : frames[i] \in Frame
      BY <1>1, <3>1, ElementOfSeq
    <3>4. f \in Frame
      <4>1. << >> \in Seq(Slot)
        BY EmptySeq
      <4>2. QED
        BY <3>3, <4>1 DEF Frame, FrameRecord, Live
    <3>5. /\ f.actor_id = frames[k].actor_id /\ f.kind = frames[k].kind
          /\ f.outer = frames[k].outer /\ f.phase \in Live
      BY <3>3 DEF Frame, FrameRecord, Live
    <3>6. 1 \in Int /\ k - 1 \in Int /\ k - 1 >= 0 /\ k - 1 - 1 + 1 = k - 1
      BY <3>1
    <3>7. /\ SubSeq(frames, 1, k - 1) \in Seq(Frame)
          /\ Len(SubSeq(frames, 1, k - 1)) = IF 1 <= k - 1 THEN k - 1 - 1 + 1 ELSE 0
          /\ \A i \in 1..(k - 1 - 1 + 1) :
               SubSeq(frames, 1, k - 1)[i] = frames[1 + i - 1]
      BY <3>3, <3>6, SubSeqProperties
    <3>8. /\ SubSeq(frames, 1, k - 1) \in Seq(Frame)
          /\ Len(SubSeq(frames, 1, k - 1)) = k - 1
          /\ \A i \in 1..(k - 1) : SubSeq(frames, 1, k - 1)[i] = frames[i]
      BY <3>6, <3>7
    <3> HIDE DEF f
    <3>9. /\ G \in Seq(Frame) /\ Len(G) = k /\ G[k] = f
          /\ \A i \in 1..(k - 1) : G[i] = frames[i]
      BY <3>1, <3>4, <3>8, AppendProperties
    <3> HIDE DEF n, G
    <3>10. StackOK(G, busy_actors \ {frames[i].actor_id : i \in (k + 1)..n},
                   frames[k + 1].outer)
      BY <1>1, <3>1, <3>2, <3>5, <3>9, UnwindTo DEF n
    <3>11. QED
      BY <3>2, <3>10 DEF Stack
  <2>3. QED
    BY <2>1, <2>2
<1>11. QED
  BY <1>3, <1>4, <1>5, <1>7, <1>8, <1>9, <1>10 DEF Body, Await, Select

(* The pump.                                                               *)
LEMMA StackPump == TypeOK /\ StackInvariant /\ Pump => Stack'
<1> SUFFICES ASSUME TypeOK, StackInvariant, Pump PROVE Stack'
  OBVIOUS
<1> USE DEF instanceVars, mailVars, slotVars, turnVars
<1>1. Stack /\ StackOK(frames, busy_actors, current_actor) /\ frames \in Seq(Frame)
  BY DEF StackInvariant, Stack, TypeOK
<1>2. ASSUME NEW f \in Frame, frames # << >>, frames' = WithTop(f),
             UNCHANGED <<busy_actors, current_actor>>,
             f.actor_id = Top.actor_id, f.kind = Top.kind, f.outer = Top.outer,
             f.phase \in Live, Top.phase \in Live
      PROVE  Stack'
  BY <1>1, <1>2, RephaseTop DEF Stack
<1>3. AwaitTakes => Stack'
  <2> SUFFICES ASSUME AwaitTakes PROVE Stack'
    OBVIOUS
  <2> DEFINE rest == Tail(Top.awaiting)
             f == [Top EXCEPT !.phase = IF rest = << >> THEN "body" ELSE "await",
                              !.awaiting = rest]
  <2>1. frames # << >> /\ Top \in Frame /\ Top.phase = "await"
    BY TopIsFrame DEF AwaitTakes, TopIs
  <2>2. /\ f \in Frame
        /\ f.actor_id = Top.actor_id /\ f.kind = Top.kind /\ f.outer = Top.outer
        /\ f.phase \in Live /\ Top.phase \in Live
    BY <2>1, AwaitedFrame DEF Live
  <2>3. frames' = WithTop(f) /\ UNCHANGED <<busy_actors, current_actor>>
    BY DEF AwaitTakes, TakeReply
  <2> HIDE DEF f
  <2>4. QED
    BY <1>2, <2>1, <2>2, <2>3
<1>4. SelectTakes => Stack'
  <2> SUFFICES ASSUME SelectTakes PROVE Stack'
    OBVIOUS
  <2> DEFINE f == [Top EXCEPT !.phase = "body", !.awaiting = << >>]
  <2>1. frames # << >> /\ Top \in Frame /\ Top.phase = "select"
    BY TopIsFrame DEF SelectTakes, TopIs
  <2>2. << >> \in Seq(Slot)
    BY EmptySeq
  <2>3. f \in Frame
    BY <2>1, <2>2 DEF Frame, FrameRecord, Live
  <2>4. /\ f.actor_id = Top.actor_id /\ f.kind = Top.kind /\ f.outer = Top.outer
        /\ f.phase \in Live /\ Top.phase \in Live
    BY <2>1 DEF Frame, FrameRecord, Live
  <2>5. frames' = WithTop(f) /\ UNCHANGED <<busy_actors, current_actor>>
    BY DEF SelectTakes, TakeReply
  <2> HIDE DEF f
  <2>6. QED
    BY <1>2, <2>1, <2>3, <2>4, <2>5
<1>5. ASSUME NEW m \in actor_mailbox, Dispatch(m) PROVE Stack'
  <2>1. m.actor_id \in Id /\ m.reply_slot \in Slot \cup {NoSlot}
    BY DEF TypeOK, Message
  <2>2. m.actor_id \notin busy_actors
    BY <1>5 DEF Dispatch, IsFirst, Deliverable
  <2>3. BeginTurn(m.actor_id, "turn", m.reply_slot, actor_instances, frames)
    BY <1>5 DEF Dispatch
  <2>4. actor_instances \in [Id -> Instance]
    BY DEF TypeOK
  <2>5. QED
    BY <1>1, <2>1, <2>2, <2>3, <2>4, BeginTurnStack
<1>6. ASSUME NEW code, Fail(code) PROVE Stack'
  BY <1>1, <1>6 DEF Fail, Stack
<1>7. AwaitUnavailable \/ SelectUnavailable \/ Stall \/ DrainEnds => Stack'
  BY <1>6 DEF AwaitUnavailable, SelectUnavailable, Stall, DrainEnds
<1>8. QED
  BY <1>3, <1>4, <1>5, <1>7 DEF Pump

(* Supervision.                                                            *)
LEMMA StackSupervision == TypeOK /\ StackInvariant /\ Supervision => Stack'
<1> SUFFICES ASSUME TypeOK, StackInvariant, Supervision PROVE Stack'
  OBVIOUS
<1> USE DEF instanceVars, mailVars, slotVars, turnVars
<1>1. Stack /\ StackOK(frames, busy_actors, current_actor) /\ frames \in Seq(Frame)
  BY DEF StackInvariant, Stack, TypeOK
<1>2. ASSUME frames # << >>, Top.phase \notin Live, NEW phase \in {"reply", "supervise"},
             NEW id \in Id
      PROVE  /\ StackOK(WithTop([Top EXCEPT !.phase = phase]),
                        busy_actors, current_actor)
             /\ StackOK(WithTop([Top EXCEPT !.cursor = id]),
                        busy_actors, current_actor)
             /\ StackOK(Popped, busy_actors, current_actor)
             /\ WithTop([Top EXCEPT !.phase = phase]) \in Seq(Frame)
             /\ Popped \in Seq(Frame)
             /\ Top.actor_id \notin busy_actors
             /\ Top.actor_id \in Id /\ Top.cursor \in Id
  <2> DEFINE f == [Top EXCEPT !.phase = phase]
             g == [Top EXCEPT !.cursor = id]
  <2>1. Top \in Frame /\ Popped \in Seq(Frame)
    BY <1>2, TopIsFrame
  <2>2. Top.actor_id \in Id /\ Top.cursor \in Id /\ id # Main
    BY <1>2, <2>1 DEF Frame, FrameRecord, Id, Main
  <2>3. f \in Frame /\ g \in Frame
    BY <1>2, <2>1, <2>2 DEF Frame, FrameRecord
  <2>4. /\ f.actor_id = Top.actor_id /\ f.kind = Top.kind /\ f.outer = Top.outer
        /\ f.phase \in Live <=> Top.phase \in Live
    BY <1>2, <2>1 DEF Frame, FrameRecord, Live
  <2>5. /\ g.actor_id = Top.actor_id /\ g.kind = Top.kind /\ g.outer = Top.outer
        /\ g.phase = Top.phase
    BY <1>2, <2>1 DEF Frame, FrameRecord
  <2>6. WithTop(f) \in Seq(Frame)
    BY <1>2, <2>3, TopIsFrame
  <2> HIDE DEF f, g
  <2>7. StackOK(WithTop(f), busy_actors, current_actor)
    BY <1>1, <1>2, <2>3, <2>4, RephaseTop
  <2>8. StackOK(WithTop(g), busy_actors, current_actor)
    BY <1>1, <1>2, <2>3, <2>5, RephaseTop
  <2>9. StackOK(Popped, busy_actors, current_actor) /\ Top.actor_id \notin busy_actors
    BY <1>1, <1>2, PopTop
  <2>10. QED
    BY <2>1, <2>2, <2>6, <2>7, <2>8, <2>9 DEF f, g
<1>3. ASSUME NEW phase \in {"ended", "reply", "supervise"}, TopIs(phase)
      PROVE  frames # << >> /\ Top.phase \notin Live /\ Top \in Frame
  BY <1>3, TopIsFrame DEF TopIs, Live
<1>4. ASSUME NEW id \in Id, NEW below \in Seq(Frame), RestartActor(id, below),
             StackOK(below, busy_actors, current_actor), id \notin busy_actors
      PROVE  Stack'
  <2> DEFINE instances == [actor_instances EXCEPT ![id].state = incarnation[id] + 1]
  <2>1. instances \in [Id -> Instance]
    <3>1. incarnation[id] + 1 \in Nat /\ actor_instances \in [Id -> Instance]
      BY DEF TypeOK
    <3>2. QED
      BY <3>1, StateType
  <2>2. BeginTurn(id, "restart", NoSlot, instances, below)
    BY <1>4 DEF RestartActor
  <2> HIDE DEF instances
  <2>3. QED
    BY <1>4, <2>1, <2>2, BeginTurnStack
<1>5. NoDeferred \/ DeferredStop => Stack'
  <2> SUFFICES ASSUME NoDeferred \/ DeferredStop PROVE Stack'
    OBVIOUS
  <2>1. frames # << >> /\ Top.phase \notin Live /\ Top \in Frame
    BY <1>3 DEF NoDeferred, DeferredStop
  <2>2. Top.actor_id \in Id
    BY <2>1 DEF Frame, FrameRecord
  <2>3. /\ frames' = WithTop([Top EXCEPT !.phase = "reply"])
        /\ UNCHANGED <<busy_actors, current_actor>>
    BY DEF NoDeferred, DeferredStop
  <2>4. StackOK(WithTop([Top EXCEPT !.phase = "reply"]), busy_actors, current_actor)
    BY <1>2, <2>1, <2>2
  <2>5. QED
    BY <2>3, <2>4 DEF Stack
<1>6. DeferredRestart => Stack'
  <2> SUFFICES ASSUME DeferredRestart PROVE Stack'
    OBVIOUS
  <2>1. frames # << >> /\ Top.phase \notin Live /\ Top \in Frame
    BY <1>3 DEF DeferredRestart
  <2>2. Top.actor_id \in Id
    BY <2>1 DEF Frame, FrameRecord
  <2>3. RestartActor(Top.actor_id, WithTop([Top EXCEPT !.phase = "reply"]))
    BY DEF DeferredRestart
  <2>4. /\ StackOK(WithTop([Top EXCEPT !.phase = "reply"]), busy_actors, current_actor)
        /\ WithTop([Top EXCEPT !.phase = "reply"]) \in Seq(Frame)
        /\ Top.actor_id \notin busy_actors
    BY <1>2, <2>1, <2>2
  <2>5. QED
    BY <1>4, <2>2, <2>3, <2>4
<1>7. ASSUME NEW phase \in {"reply", "supervise"}, TopIs(phase), frames' = Popped,
             UNCHANGED <<busy_actors, current_actor>>
      PROVE  Stack'
  <2>1. frames # << >> /\ Top.phase \notin Live /\ Top \in Frame
    BY <1>3, <1>7
  <2>2. StackOK(Popped, busy_actors, current_actor)
    BY <1>1, <2>1, PopTop
  <2>3. QED
    BY <1>7, <2>2 DEF Stack
<1>8. SpawnReturns \/ RestartReturns \/ Unsupervised \/ SuperviseStop
        \/ SuperviseRestartDeferred => Stack'
  BY <1>7 DEF SpawnReturns, RestartReturns, Unsupervised, SuperviseStop,
              SuperviseRestartDeferred
<1>9. PublishReply => Stack'
  <2> SUFFICES ASSUME PublishReply PROVE Stack'
    OBVIOUS
  <2>1. /\ frames # << >> /\ Top.phase \notin Live /\ Top \in Frame
        /\ UNCHANGED <<busy_actors, current_actor>>
    BY <1>3 DEF PublishReply
  <2>2. Top.actor_id \in Id
    BY <2>1 DEF Frame, FrameRecord
  <2>3. /\ StackOK(WithTop([Top EXCEPT !.phase = "supervise"]),
                   busy_actors, current_actor)
        /\ StackOK(Popped, busy_actors, current_actor)
    BY <1>2, <2>1, <2>2
  <2>4. QED
    BY <2>1, <2>3 DEF PublishReply, Stack
<1>10. SuperviseRestart => Stack'
  <2> SUFFICES ASSUME SuperviseRestart PROVE Stack'
    OBVIOUS
  <2>1. /\ frames # << >> /\ Top.phase \notin Live /\ Top \in Frame
        /\ Top.cursor \notin busy_actors /\ RestartActor(Top.cursor, Popped)
    BY <1>3 DEF SuperviseRestart, MidTurn
  <2>2. Top.cursor \in Id
    BY <2>1 DEF Frame, FrameRecord
  <2>3. StackOK(Popped, busy_actors, current_actor) /\ Popped \in Seq(Frame)
    BY <1>2, <2>1, <2>2
  <2>4. QED
    BY <1>4, <2>1, <2>2, <2>3
<1>11. Escalate => Stack'
  <2> SUFFICES ASSUME Escalate PROVE Stack'
    OBVIOUS
  <2> DEFINE supervisor == actor_instances[Top.cursor].supervisor
  <2>1. /\ frames # << >> /\ Top.phase \notin Live /\ Top \in Frame
        /\ UNCHANGED <<busy_actors, current_actor>>
    BY <1>3 DEF Escalate
  <2>2. Top.cursor \in Id
    BY <2>1 DEF Frame, FrameRecord
  <2>3. CASE supervisor = Main
    BY <1>1, <2>1, <2>3 DEF Escalate, Stack
  <2>4. CASE supervisor # Main
    <3>1. supervisor \in Id
      BY <2>2, <2>4 DEF TypeOK, Instance
    <3>2. frames' = WithTop([Top EXCEPT !.cursor = supervisor])
      BY <2>4 DEF Escalate
    <3> HIDE DEF supervisor
    <3>3. StackOK(WithTop([Top EXCEPT !.cursor = supervisor]),
                  busy_actors, current_actor)
      BY <1>2, <2>1, <3>1
    <3>4. QED
      BY <2>1, <3>2, <3>3 DEF Stack
  <2>5. QED
    BY <2>3, <2>4
<1>12. DeferredRestartLoops \/ EscalatedToUnsupervised => Stack'
  BY <1>1 DEF DeferredRestartLoops, EscalatedToUnsupervised, Fail, Stack
<1>13. QED
  BY <1>5, <1>6, <1>8, <1>9, <1>10, <1>11, <1>12 DEF Supervision

-----------------------------------------------------------------------------
(* Only spawned actors are named.                                          *)

(* The frame conditions of OnlySpawnedNamed, frame by frame.                *)
Spawned(f, n) == f.actor_id <= n /\ f.cursor <= n /\ f.outer <= n

(* A stack whose frames name spawned actors, with one frame replaced or      *)
(* pushed that does too.                                                    *)
LEMMA NamedStack ==
    ASSUME TypeOK, NEW n, \A i \in DOMAIN frames : Spawned(frames[i], n),
           NEW f \in Frame, Spawned(f, n)
    PROVE  /\ frames # << >> => \A i \in DOMAIN WithTop(f) : Spawned(WithTop(f)[i], n)
           /\ frames # << >> => \A i \in DOMAIN Popped : Spawned(Popped[i], n)
           /\ \A F \in Seq(Frame) : (\A i \in DOMAIN F : Spawned(F[i], n)) =>
                \A i \in DOMAIN Append(F, f) : Spawned(Append(F, f)[i], n)
<1>1. frames \in Seq(Frame)
  BY DEF TypeOK
<1>2. ASSUME frames # << >> PROVE \A i \in DOMAIN WithTop(f) : Spawned(WithTop(f)[i], n)
  <2>1. /\ WithTop(f) \in Seq(Frame) /\ Len(WithTop(f)) = Len(frames)
        /\ \A i \in 1..Len(frames) :
              WithTop(f)[i] = IF i = Len(frames) THEN f ELSE frames[i]
    BY <1>2, TopIsFrame
  <2>2. DOMAIN WithTop(f) = 1..Len(frames) /\ DOMAIN frames = 1..Len(frames)
    BY <1>1, <2>1, LenProperties
  <2>3. QED
    BY <2>1, <2>2
<1>3. ASSUME frames # << >> PROVE \A i \in DOMAIN Popped : Spawned(Popped[i], n)
  <2>1. /\ Popped \in Seq(Frame) /\ Len(Popped) = Len(frames) - 1
        /\ Len(frames) \in Nat
        /\ \A i \in 1..(Len(frames) - 1) : Popped[i] = frames[i]
    BY <1>3, TopIsFrame
  <2>2. DOMAIN Popped = 1..(Len(frames) - 1) /\ DOMAIN frames = 1..Len(frames)
    BY <1>1, <2>1, LenProperties
  <2>3. QED
    BY <2>1, <2>2
<1>4. ASSUME NEW F \in Seq(Frame), \A i \in DOMAIN F : Spawned(F[i], n)
      PROVE  \A i \in DOMAIN Append(F, f) : Spawned(Append(F, f)[i], n)
  <2>1. /\ Append(F, f) \in Seq(Frame) /\ Len(Append(F, f)) = Len(F) + 1
        /\ \A i \in 1..Len(F) : Append(F, f)[i] = F[i]
        /\ Append(F, f)[Len(F) + 1] = f
    BY AppendProperties
  <2>2. /\ DOMAIN Append(F, f) = 1..(Len(F) + 1) /\ DOMAIN F = 1..Len(F)
        /\ Len(F) \in Nat
    BY <2>1, LenProperties
  <2>3. QED
    BY <1>4, <2>1, <2>2
<1>5. QED
  BY <1>2, <1>3, <1>4

(* A turn of a spawned actor, pushed on a stack that names spawned actors.  *)
LEMMA NamedBeginTurn ==
    ASSUME TypeOK, NEW n \in Nat, NEW id \in Id, NEW kind \in {"init", "turn", "restart"},
           NEW slot \in Slot \cup {NoSlot}, NEW instances \in [Id -> Instance],
           NEW below \in Seq(Frame), BeginTurn(id, kind, slot, instances, below),
           id <= n, current_actor <= n,
           \A i \in DOMAIN below : Spawned(below[i], n),
           \A i \in Id : instances[i].supervisor <= n,
           \A i \in DOMAIN frames : Spawned(frames[i], n)
    PROVE  /\ \A i \in DOMAIN frames' : Spawned(frames'[i], n)
           /\ \A i \in Id : actor_instances'[i].supervisor <= n
           /\ current_actor' <= n
<1> DEFINE f == [NewFrame(id, kind, slot) EXCEPT !.env = instances[id].state,
                                                 !.outer = current_actor]
<1>1. instances[id].state \in Nat /\ current_actor \in Id \cup {Main}
      /\ id # Main /\ kind # "main"
  BY DEF Instance, TypeOK, Id, Main
<1>2. f \in Frame
  BY <1>1, NewFrameType
<1>3. Spawned(f, n)
  BY DEF NewFrame, Spawned
<1>4. frames' = Append(below, f) /\ current_actor' = id
  BY DEF BeginTurn
<1>5. \A i \in Id : actor_instances'[i].supervisor <= n
  <2>1. \A i \in Id : actor_instances'[i].supervisor = instances[i].supervisor
    BY DEF BeginTurn, Instance
  <2>2. QED
    BY <2>1
<1> HIDE DEF f
<1>6. \A i \in DOMAIN frames' : Spawned(frames'[i], n)
  BY <1>2, <1>3, <1>4, NamedStack
<1>7. QED
  BY <1>4, <1>5, <1>6

(* What OnlySpawnedNamed says of the running frame.                         *)
LEMMA NamedTop ==
    ASSUME TypeOK, OnlySpawnedNamed
    PROVE  /\ \A i \in DOMAIN frames : Spawned(frames[i], spawned)
           /\ frames # << >> => Spawned(Top, spawned) /\ Top \in Frame
           /\ spawned \in Nat
<1>1. \A i \in DOMAIN frames : Spawned(frames[i], spawned)
  BY DEF OnlySpawnedNamed, Spawned
<1>2. ASSUME frames # << >> PROVE Spawned(Top, spawned) /\ Top \in Frame
  <2>1. /\ Len(frames) \in Nat \ {0} /\ Top = frames[Len(frames)] /\ Top \in Frame
    BY <1>2, TopIsFrame
  <2>2. Len(frames) \in DOMAIN frames
    BY <2>1, LenProperties DEF TypeOK
  <2>3. QED
    BY <1>1, <2>1, <2>2
<1>3. spawned \in Nat
  BY BoundsAssumption DEF TypeOK
<1>4. QED
  BY <1>1, <1>2, <1>3

(* Replacing the top frame.                                                 *)
LEMMA NamedWithTop ==
    ASSUME TypeOK, OnlySpawnedNamed, frames # << >>, NEW f \in Frame,
           Spawned(f, spawned), frames' = WithTop(f) \/ frames' = Popped
    PROVE  \A i \in DOMAIN frames' : Spawned(frames'[i], spawned)
BY NamedTop, NamedStack

(* The parts put together.                                                  *)
LEMMA NamedParts ==
    ASSUME TypeOK, OnlySpawnedNamed, UNCHANGED spawned,
           \A i \in DOMAIN frames' : Spawned(frames'[i], spawned),
           \A m \in actor_mailbox' : m.actor_id <= spawned,
           \A id \in Id : actor_instances'[id].supervisor <= spawned,
           handles' \subseteq 1..spawned, current_actor' <= spawned
    PROVE  OnlySpawnedNamed'
BY DEF OnlySpawnedNamed, Spawned

(* The operations of a body.                                                *)
LEMMA NamedBody == TypeOK /\ OnlySpawnedNamed /\ Body => OnlySpawnedNamed'
<1> SUFFICES ASSUME TypeOK, OnlySpawnedNamed, Body PROVE OnlySpawnedNamed'
  OBVIOUS
<1> USE DEF instanceVars, mailVars, slotVars, turnVars
<1>1. ASSUME NEW policy \in Policies, Spawn(policy) PROVE OnlySpawnedNamed'
  <2> DEFINE id == spawned + 1
             new == [supervisor |-> current_actor, policy |-> policy,
                     stopped |-> FALSE, state |-> 1]
             instances == [actor_instances EXCEPT ![id] = new]
  <2>1. id \in Id /\ id \in Nat /\ spawned \in Nat
    BY <1>1, BoundsAssumption DEF Spawn, TypeOK, Id
  <2>2. new \in Instance
    BY PoliciesAssumption DEF Instance, TypeOK
  <2>3. instances \in [Id -> Instance] /\ frames \in Seq(Frame)
    BY <2>1, <2>2 DEF TypeOK
  <2>4. BeginTurn(id, "init", NoSlot, instances, frames) /\ spawned' = id
    BY <1>1 DEF Spawn
  <2>5. current_actor <= id
    BY <2>1 DEF OnlySpawnedNamed, TypeOK, Id, Main
  <2>6. \A i \in DOMAIN frames : Spawned(frames[i], id)
    <3>1. ASSUME NEW i \in DOMAIN frames PROVE Spawned(frames[i], id)
      <4>1. frames[i] \in Frame
        BY <2>3, LenProperties, ElementOfSeq
      <4>2. /\ frames[i].actor_id \in Int /\ frames[i].cursor \in Int
            /\ frames[i].outer \in Int
        BY <4>1 DEF Frame, FrameRecord, Id, Main
      <4>3. QED
        BY <2>1, <4>2 DEF OnlySpawnedNamed, Spawned
    <3>2. QED
      BY <3>1
  <2>7. \A i \in Id : instances[i].supervisor <= id
    <3>1. \A i \in Id : actor_instances[i].supervisor <= spawned
                        /\ actor_instances[i].supervisor \in Int
      BY DEF OnlySpawnedNamed, TypeOK, Instance, Id, Main
    <3>2. \A i \in Id : instances[i].supervisor =
               IF i = id THEN current_actor ELSE actor_instances[i].supervisor
      BY <2>1 DEF TypeOK
    <3> HIDE DEF instances
    <3>3. QED
      BY <2>1, <2>5, <3>1, <3>2
  <2> HIDE DEF id, instances
  <2>8. /\ \A i \in DOMAIN frames' : Spawned(frames'[i], id)
        /\ \A i \in Id : actor_instances'[i].supervisor <= id
        /\ current_actor' <= id
    <3>1. id <= id /\ "init" \in {"init", "turn", "restart"}
          /\ NoSlot \in Slot \cup {NoSlot}
      BY <2>1
    <3>2. QED
      BY <2>1, <2>3, <2>4, <2>5, <2>6, <2>7, <3>1, NamedBeginTurn
  <2>9. (\A m \in actor_mailbox' : m.actor_id <= id) /\ handles' \subseteq 1..id
    <3>1. UNCHANGED <<actor_mailbox, handles>>
      BY <1>1 DEF Spawn
    <3>2. \A m \in actor_mailbox : m.actor_id \in Int
      BY DEF TypeOK, Message, Id
    <3>3. QED
      BY <2>1, <3>1, <3>2 DEF OnlySpawnedNamed, id
  <2>10. QED
    BY <2>4, <2>8, <2>9 DEF OnlySpawnedNamed, Spawned
<1>2. ASSUME UNCHANGED <<frames, actor_instances, spawned, handles, current_actor>>,
             \A m \in actor_mailbox' : m \in actor_mailbox \/ m.actor_id \in handles
      PROVE  OnlySpawnedNamed'
  <2>1. \A id \in handles : id <= spawned
    BY DEF OnlySpawnedNamed, TypeOK
  <2>2. QED
    BY <1>2, <2>1 DEF OnlySpawnedNamed
<1>3. ASSUME NEW id \in Known, Tell(id) \/ Ask(id) PROVE OnlySpawnedNamed'
  <2>1. id \in handles
    BY DEF Known
  <2>2. \A m \in actor_mailbox' : m \in actor_mailbox \/ m.actor_id \in handles
    <3>1. ASSUME NEW slot, Enqueue(id, slot)
          PROVE  \A m \in actor_mailbox' : m \in actor_mailbox \/ m.actor_id \in handles
      BY <2>1, <3>1 DEF Enqueue
    <3>2. QED
      BY <1>3, <3>1 DEF Tell, Ask
  <2>3. QED
    BY <1>2, <1>3, <2>2 DEF Tell, Ask
<1>4. ASSUME NEW ss \in Futures, NEW phase \in {"await", "select"}, Wait(phase, ss)
      PROVE  OnlySpawnedNamed'
  <2> DEFINE f == [Top EXCEPT !.phase = phase, !.awaiting = ss]
  <2>1. frames # << >> /\ Top \in Frame /\ Spawned(Top, spawned)
    BY <1>4, NamedTop DEF Wait, TopIs
  <2>2. f \in Frame
    BY <1>4, <2>1, FuturesType DEF Frame, FrameRecord, Live
  <2>3. Spawned(f, spawned)
    BY <2>1 DEF Spawned, Frame, FrameRecord
  <2>4. frames' = WithTop(f)
    BY <1>4 DEF Wait
  <2> HIDE DEF f
  <2>5. \A i \in DOMAIN frames' : Spawned(frames'[i], spawned)
    BY <2>1, <2>2, <2>3, <2>4, NamedWithTop
  <2>6. QED
    BY <1>4, <2>5, NamedParts DEF Wait, OnlySpawnedNamed
<1>5. ASSUME NEW code, Fail(code) PROVE OnlySpawnedNamed'
  BY <1>2, <1>5 DEF Fail
<1>6. SelectNothing \/ EndTurnOnTakenState => OnlySpawnedNamed'
  BY <1>5 DEF SelectNothing, EndTurnOnTakenState
<1>7. ASSUME NEW reply \in {"ok", "err"}, EndTurn(reply) PROVE OnlySpawnedNamed'
  <2> DEFINE f == [Top EXCEPT !.phase = "ended", !.reply = reply]
  <2>1. frames # << >> /\ Top \in Frame /\ Spawned(Top, spawned) /\ Top.kind # "main"
    BY <1>7, NamedTop DEF EndTurn, TopIs
  <2>2. f \in Frame
    BY <2>1 DEF Frame, FrameRecord
  <2>3. Spawned(f, spawned)
    BY <2>1 DEF Spawned, Frame, FrameRecord
  <2>4. /\ frames' = WithTop(f) /\ current_actor' = Top.outer
        /\ UNCHANGED <<spawned, handles, actor_mailbox>>
        /\ actor_instances' = [actor_instances EXCEPT ![Top.actor_id].state = Top.env]
    BY <1>7 DEF EndTurn
  <2> HIDE DEF f
  <2>5. \A i \in DOMAIN frames' : Spawned(frames'[i], spawned)
    BY <2>1, <2>2, <2>3, <2>4, NamedWithTop
  <2>6. \A id \in Id : actor_instances'[id].supervisor <= spawned
    <3>1. \A id \in Id : actor_instances'[id].supervisor = actor_instances[id].supervisor
      BY <2>4 DEF TypeOK, Instance
    <3>2. QED
      BY <3>1 DEF OnlySpawnedNamed
  <2>7. QED
    BY <2>1, <2>4, <2>5, <2>6, NamedParts DEF OnlySpawnedNamed, Spawned
<1>8. EndMain => OnlySpawnedNamed'
  <2>1. DOMAIN << >> = {}
    OBVIOUS
  <2>2. QED
    BY <2>1 DEF EndMain, OnlySpawnedNamed
<1>9. ASSUME NEW k \in 0..Len(frames), Throw(k) PROVE OnlySpawnedNamed'
  <2>1. CASE k = 0
    BY <1>2, <1>9, <2>1 DEF Throw
  <2>2. CASE k # 0
    <3> DEFINE n == Len(frames)
               f == [frames[k] EXCEPT !.phase = "body", !.awaiting = << >>]
               B == SubSeq(frames, 1, k - 1)
    <3>1. /\ n \in Nat /\ k \in 1..(n - 1) /\ k \in 1..n /\ k + 1 \in 1..n
          /\ frames \in Seq(Frame) /\ DOMAIN frames = 1..n
      BY <1>9, <2>2, LenProperties DEF Throw, TypeOK
    <3>2. frames[k] \in Frame /\ \A i \in 1..(k - 1) : frames[i] \in Frame
      BY <3>1, ElementOfSeq
    <3>3. f \in Frame
      <4>1. << >> \in Seq(Slot)
        BY EmptySeq
      <4>2. QED
        BY <3>2, <4>1 DEF Frame, FrameRecord, Live
    <3>4. Spawned(f, spawned)
      BY <3>1, <3>2, NamedTop DEF Spawned, Frame, FrameRecord
    <3>5. 1 \in Int /\ k - 1 \in Int /\ k - 1 >= 0 /\ k - 1 - 1 + 1 = k - 1
      BY <3>1
    <3>6. /\ B \in Seq(Frame) /\ Len(B) = IF 1 <= k - 1 THEN k - 1 - 1 + 1 ELSE 0
          /\ \A i \in 1..(k - 1 - 1 + 1) : B[i] = frames[1 + i - 1]
      BY <3>2, <3>5, SubSeqProperties
    <3>7. B \in Seq(Frame) /\ Len(B) = k - 1 /\ \A i \in 1..(k - 1) : B[i] = frames[i]
      BY <3>5, <3>6
    <3>8. frames' = Append(B, f) /\ current_actor' = frames[k + 1].outer
          /\ UNCHANGED <<actor_instances, spawned, handles, actor_mailbox>>
      BY <1>9, <2>2 DEF Throw
    <3> HIDE DEF f, B
    <3>9. \A i \in DOMAIN B : Spawned(B[i], spawned)
      <4>1. DOMAIN B = 1..(k - 1) /\ \A i \in 1..(k - 1) : i \in 1..n
        BY <3>1, <3>7, LenProperties
      <4>2. QED
        BY <3>1, <3>7, <4>1, NamedTop
    <3>10. \A i \in DOMAIN frames' : Spawned(frames'[i], spawned)
      BY <3>3, <3>4, <3>7, <3>8, <3>9, NamedStack, NamedTop
    <3>11. current_actor' <= spawned
      BY <3>1, <3>8 DEF OnlySpawnedNamed
    <3>12. QED
      BY <3>8, <3>10, <3>11, NamedParts DEF OnlySpawnedNamed
  <2>3. QED
    BY <2>1, <2>2
<1>10. QED
  BY <1>1, <1>3, <1>4, <1>6, <1>7, <1>8, <1>9 DEF Body, Await, Select

(* The pump: a turn is started only for the addressee of a queued message.  *)
LEMMA NamedPump == TypeOK /\ OnlySpawnedNamed /\ Pump => OnlySpawnedNamed'
<1> SUFFICES ASSUME TypeOK, OnlySpawnedNamed, Pump PROVE OnlySpawnedNamed'
  OBVIOUS
<1> USE DEF instanceVars, mailVars, slotVars, turnVars
<1>1. ASSUME NEW f \in Frame, NEW s, TakeReply(s, f), frames # << >>,
             f.actor_id = Top.actor_id, f.cursor = Top.cursor, f.outer = Top.outer
      PROVE  OnlySpawnedNamed'
  <2>1. Spawned(f, spawned)
    BY <1>1, NamedTop DEF Spawned
  <2>2. \A i \in DOMAIN frames' : Spawned(frames'[i], spawned)
    BY <1>1, <2>1, NamedWithTop DEF TakeReply
  <2>3. QED
    BY <1>1, <2>2, NamedParts DEF TakeReply, OnlySpawnedNamed
<1>2. AwaitTakes => OnlySpawnedNamed'
  <2> SUFFICES ASSUME AwaitTakes PROVE OnlySpawnedNamed'
    OBVIOUS
  <2> DEFINE rest == Tail(Top.awaiting)
             f == [Top EXCEPT !.phase = IF rest = << >> THEN "body" ELSE "await",
                              !.awaiting = rest]
  <2>1. frames # << >> /\ Top \in Frame /\ Top.phase = "await"
    BY TopIsFrame DEF AwaitTakes, TopIs
  <2>2. /\ f \in Frame
        /\ f.actor_id = Top.actor_id /\ f.cursor = Top.cursor /\ f.outer = Top.outer
    BY <2>1, AwaitedFrame
  <2>3. TakeReply(Awaited, f)
    BY DEF AwaitTakes
  <2> HIDE DEF f
  <2>4. QED
    BY <1>1, <2>1, <2>2, <2>3
<1>3. SelectTakes => OnlySpawnedNamed'
  <2> SUFFICES ASSUME SelectTakes PROVE OnlySpawnedNamed'
    OBVIOUS
  <2> DEFINE f == [Top EXCEPT !.phase = "body", !.awaiting = << >>]
  <2>1. frames # << >> /\ Top \in Frame /\ Top.phase = "select"
    BY TopIsFrame DEF SelectTakes, TopIs
  <2>2. << >> \in Seq(Slot)
    BY EmptySeq
  <2>3. f \in Frame
    BY <2>1, <2>2 DEF Frame, FrameRecord, Live
  <2>4. /\ f.actor_id = Top.actor_id /\ f.cursor = Top.cursor /\ f.outer = Top.outer
    BY <2>1 DEF Frame, FrameRecord
  <2>5. PICK s : TakeReply(s, f)
    BY DEF SelectTakes
  <2> HIDE DEF f
  <2>6. QED
    BY <1>1, <2>1, <2>3, <2>4, <2>5
<1>4. ASSUME NEW m \in actor_mailbox, Dispatch(m) PROVE OnlySpawnedNamed'
  <2>1. m.actor_id \in Id /\ m.reply_slot \in Slot \cup {NoSlot}
    BY DEF TypeOK, Message
  <2>2. /\ BeginTurn(m.actor_id, "turn", m.reply_slot, actor_instances, frames)
        /\ actor_mailbox' \subseteq actor_mailbox /\ UNCHANGED <<spawned, handles>>
    BY <1>4 DEF Dispatch
  <2>3. actor_instances \in [Id -> Instance] /\ frames \in Seq(Frame)
    BY DEF TypeOK
  <2>4. /\ m.actor_id <= spawned /\ current_actor <= spawned
        /\ \A i \in Id : actor_instances[i].supervisor <= spawned
    BY DEF OnlySpawnedNamed
  <2>5. /\ \A i \in DOMAIN frames' : Spawned(frames'[i], spawned)
        /\ \A i \in Id : actor_instances'[i].supervisor <= spawned
        /\ current_actor' <= spawned
    BY <2>1, <2>2, <2>3, <2>4, NamedTop, NamedBeginTurn
  <2>6. QED
    BY <2>2, <2>5, NamedParts DEF OnlySpawnedNamed
<1>5. ASSUME NEW code, Fail(code) PROVE OnlySpawnedNamed'
  BY <1>5 DEF Fail, OnlySpawnedNamed
<1>6. AwaitUnavailable \/ SelectUnavailable \/ Stall \/ DrainEnds => OnlySpawnedNamed'
  BY <1>5 DEF AwaitUnavailable, SelectUnavailable, Stall, DrainEnds
<1>7. QED
  BY <1>2, <1>3, <1>4, <1>6 DEF Pump

(* Stopping an actor renames nobody.                                        *)
LEMMA NamedStop ==
    ASSUME TypeOK, OnlySpawnedNamed, NEW id \in Id,
           StopActor(id) \/ UNCHANGED <<actor_instances, actor_mailbox>>
    PROVE  /\ \A m \in actor_mailbox' : m.actor_id <= spawned
           /\ \A i \in Id : actor_instances'[i].supervisor <= spawned
<1>1. actor_mailbox' \subseteq actor_mailbox
  BY DEF StopActor
<1>2. \A i \in Id : actor_instances'[i].supervisor = actor_instances[i].supervisor
  <2>1. CASE actor_instances' = [actor_instances EXCEPT ![id].stopped = TRUE]
    BY <2>1 DEF TypeOK, Instance
  <2>2. CASE UNCHANGED actor_instances
    BY <2>2
  <2>3. QED
    BY <2>1, <2>2 DEF StopActor
<1>3. QED
  BY <1>1, <1>2 DEF OnlySpawnedNamed

(* Supervision: a cursor moves to a supervisor, which is spawned.           *)
LEMMA NamedSupervision == TypeOK /\ OnlySpawnedNamed /\ Supervision => OnlySpawnedNamed'
<1> SUFFICES ASSUME TypeOK, OnlySpawnedNamed, Supervision PROVE OnlySpawnedNamed'
  OBVIOUS
<1> USE DEF instanceVars, mailVars, slotVars, turnVars
<1> DEFINE Framed(f) == f \in Frame /\ Spawned(f, spawned)
<1>1. ASSUME NEW phase \in {"ended", "reply", "supervise"}, TopIs(phase)
      PROVE  /\ frames # << >> /\ Top.phase = phase /\ Framed(Top)
             /\ Framed([Top EXCEPT !.phase = "reply"])
             /\ Framed([Top EXCEPT !.phase = "supervise"])
             /\ Top.actor_id \in Id /\ Top.cursor \in Id
             /\ Popped \in Seq(Frame)
             /\ WithTop([Top EXCEPT !.phase = "reply"]) \in Seq(Frame)
  <2>1. frames # << >> /\ Top.phase = phase /\ Framed(Top) /\ Top.phase \notin Live
    BY <1>1, NamedTop DEF TopIs, Live
  <2>2. /\ [Top EXCEPT !.phase = "reply"] \in Frame
        /\ [Top EXCEPT !.phase = "supervise"] \in Frame
        /\ Top.actor_id \in Id /\ Top.cursor \in Id
    BY <2>1 DEF Frame, FrameRecord
  <2>3. /\ Spawned([Top EXCEPT !.phase = "reply"], spawned)
        /\ Spawned([Top EXCEPT !.phase = "supervise"], spawned)
    BY <2>1 DEF Frame, FrameRecord, Spawned
  <2>4. QED
    BY <2>1, <2>2, <2>3, TopIsFrame
<1>2. ASSUME frames # << >>, NEW f, Framed(f), frames' = WithTop(f) \/ frames' = Popped,
             \A m \in actor_mailbox' : m.actor_id <= spawned,
             \A id \in Id : actor_instances'[id].supervisor <= spawned,
             handles' \subseteq 1..spawned, UNCHANGED <<spawned, current_actor>>
      PROVE  OnlySpawnedNamed'
  <2>1. \A i \in DOMAIN frames' : Spawned(frames'[i], spawned)
    BY <1>2, NamedWithTop
  <2>2. QED
    BY <1>2, <2>1, NamedParts DEF OnlySpawnedNamed
<1>3. /\ \A m \in actor_mailbox : m.actor_id <= spawned
      /\ \A id \in Id : actor_instances[id].supervisor <= spawned
      /\ handles \subseteq 1..spawned
  BY DEF OnlySpawnedNamed
<1>4. ASSUME NEW id \in Id, id <= spawned, NEW below \in Seq(Frame),
             \A i \in DOMAIN below : Spawned(below[i], spawned),
             RestartActor(id, below), UNCHANGED <<spawned, handles, actor_mailbox>>
      PROVE  OnlySpawnedNamed'
  <2> DEFINE instances == [actor_instances EXCEPT ![id].state = incarnation[id] + 1]
  <2>1. instances \in [Id -> Instance]
    <3>1. incarnation[id] + 1 \in Nat /\ actor_instances \in [Id -> Instance]
      BY DEF TypeOK
    <3>2. QED
      BY <3>1, StateType
  <2>2. BeginTurn(id, "restart", NoSlot, instances, below)
    BY <1>4 DEF RestartActor
  <2>3. \A i \in Id : instances[i].supervisor <= spawned
    <3>1. \A i \in Id : instances[i].supervisor = actor_instances[i].supervisor
      BY DEF TypeOK, Instance
    <3>2. QED
      BY <1>3, <3>1
  <2>4. current_actor <= spawned
    BY DEF OnlySpawnedNamed
  <2> HIDE DEF instances
  <2>5. /\ \A i \in DOMAIN frames' : Spawned(frames'[i], spawned)
        /\ \A i \in Id : actor_instances'[i].supervisor <= spawned
        /\ current_actor' <= spawned
    BY <1>4, <2>1, <2>2, <2>3, <2>4, NamedTop, NamedBeginTurn
  <2>6. QED
    BY <1>3, <1>4, <2>5, NamedParts
<1>5. NoDeferred => OnlySpawnedNamed'
  <2> SUFFICES ASSUME NoDeferred PROVE OnlySpawnedNamed'
    OBVIOUS
  <2>1. TopIs("ended") /\ frames' = WithTop([Top EXCEPT !.phase = "reply"])
        /\ UNCHANGED <<spawned, current_actor, handles, actor_mailbox, actor_instances>>
    BY DEF NoDeferred
  <2>2. QED
    BY <1>1, <1>2, <1>3, <2>1
<1>6. DeferredStop => OnlySpawnedNamed'
  <2> SUFFICES ASSUME DeferredStop PROVE OnlySpawnedNamed'
    OBVIOUS
  <2>1. TopIs("ended") /\ frames' = WithTop([Top EXCEPT !.phase = "reply"])
        /\ UNCHANGED <<spawned, current_actor, handles>> /\ StopActor(Top.actor_id)
    BY DEF DeferredStop
  <2>2. /\ \A m \in actor_mailbox' : m.actor_id <= spawned
        /\ \A i \in Id : actor_instances'[i].supervisor <= spawned
    BY <1>1, <2>1, NamedStop
  <2>3. QED
    BY <1>1, <1>2, <1>3, <2>1, <2>2
<1>7. DeferredRestart => OnlySpawnedNamed'
  <2> SUFFICES ASSUME DeferredRestart PROVE OnlySpawnedNamed'
    OBVIOUS
  <2> DEFINE below == WithTop([Top EXCEPT !.phase = "reply"])
  <2>1. TopIs("ended") /\ RestartActor(Top.actor_id, below)
        /\ UNCHANGED <<spawned, handles, actor_mailbox>>
    BY DEF DeferredRestart
  <2>2. /\ frames # << >> /\ Framed(Top) /\ Framed([Top EXCEPT !.phase = "reply"])
        /\ Top.actor_id \in Id /\ below \in Seq(Frame)
    BY <1>1, <2>1
  <2>3. \A i \in DOMAIN below : Spawned(below[i], spawned)
    BY <2>2, NamedTop, NamedStack
  <2>4. Top.actor_id <= spawned
    BY <2>2 DEF Spawned
  <2> HIDE DEF below
  <2>5. QED
    BY <1>4, <2>1, <2>2, <2>3, <2>4
<1>8. DeferredRestartLoops \/ EscalatedToUnsupervised => OnlySpawnedNamed'
  BY DEF DeferredRestartLoops, EscalatedToUnsupervised, Fail, OnlySpawnedNamed
<1>9. SpawnReturns => OnlySpawnedNamed'
  <2> SUFFICES ASSUME SpawnReturns PROVE OnlySpawnedNamed'
    OBVIOUS
  <2>1. TopIs("reply") /\ frames' = Popped /\ handles' = handles \cup {Top.actor_id}
        /\ UNCHANGED <<spawned, current_actor, actor_mailbox, actor_instances>>
    BY DEF SpawnReturns
  <2>2. Top.actor_id \in 1..spawned
    BY <1>1, <2>1, NamedTop DEF Spawned, Id
  <2>3. QED
    BY <1>1, <1>2, <1>3, <2>1, <2>2
<1>10. ASSUME NEW phase \in {"reply", "supervise"}, TopIs(phase), frames' = Popped,
              UNCHANGED <<spawned, current_actor, handles, actor_mailbox, actor_instances>>
       PROVE  OnlySpawnedNamed'
  BY <1>1, <1>2, <1>3, <1>10
<1>11. RestartReturns \/ Unsupervised \/ SuperviseRestartDeferred => OnlySpawnedNamed'
  BY <1>10 DEF RestartReturns, Unsupervised, SuperviseRestartDeferred
<1>12. PublishReply => OnlySpawnedNamed'
  <2> SUFFICES ASSUME PublishReply PROVE OnlySpawnedNamed'
    OBVIOUS
  <2>1. TopIs("reply") /\ UNCHANGED <<spawned, current_actor, handles, actor_mailbox,
                                      actor_instances>>
        /\ (frames' = Popped \/ frames' = WithTop([Top EXCEPT !.phase = "supervise"]))
    BY DEF PublishReply
  <2>2. QED
    BY <1>1, <1>2, <1>3, <2>1
<1>13. ASSUME NEW id \in Id, StopOrDefer(id)
       PROVE  /\ \A m \in actor_mailbox' : m.actor_id <= spawned
              /\ \A i \in Id : actor_instances'[i].supervisor <= spawned
  BY <1>13, NamedStop DEF StopOrDefer
<1>14. SuperviseStop => OnlySpawnedNamed'
  <2> SUFFICES ASSUME SuperviseStop PROVE OnlySpawnedNamed'
    OBVIOUS
  <2>1. TopIs("supervise") /\ StopOrDefer(Top.cursor) /\ frames' = Popped
        /\ UNCHANGED <<spawned, current_actor, handles>>
    BY DEF SuperviseStop
  <2>2. /\ \A m \in actor_mailbox' : m.actor_id <= spawned
        /\ \A i \in Id : actor_instances'[i].supervisor <= spawned
    BY <1>1, <1>13, <2>1
  <2>3. QED
    BY <1>1, <1>2, <1>3, <2>1, <2>2
<1>15. SuperviseRestart => OnlySpawnedNamed'
  <2> SUFFICES ASSUME SuperviseRestart PROVE OnlySpawnedNamed'
    OBVIOUS
  <2>1. TopIs("supervise") /\ RestartActor(Top.cursor, Popped)
        /\ UNCHANGED <<spawned, handles, actor_mailbox>>
    BY DEF SuperviseRestart
  <2>2. frames # << >> /\ Framed(Top) /\ Top.cursor \in Id /\ Popped \in Seq(Frame)
    BY <1>1, <2>1
  <2>3. \A i \in DOMAIN Popped : Spawned(Popped[i], spawned)
    BY <2>2, NamedTop, NamedStack
  <2>4. Top.cursor <= spawned
    BY <2>2 DEF Spawned
  <2>5. QED
    BY <1>4, <2>1, <2>2, <2>3, <2>4
<1>16. Escalate => OnlySpawnedNamed'
  <2> SUFFICES ASSUME Escalate PROVE OnlySpawnedNamed'
    OBVIOUS
  <2> DEFINE supervisor == actor_instances[Top.cursor].supervisor
  <2>1. TopIs("supervise") /\ StopOrDefer(Top.cursor)
        /\ UNCHANGED <<spawned, current_actor, handles>>
    BY DEF Escalate
  <2>2. /\ \A m \in actor_mailbox' : m.actor_id <= spawned
        /\ \A i \in Id : actor_instances'[i].supervisor <= spawned
    BY <1>1, <1>13, <2>1
  <2>3. CASE supervisor = Main
    <3>1. UNCHANGED frames
      BY <2>3 DEF Escalate
    <3>2. \A i \in DOMAIN frames' : Spawned(frames'[i], spawned)
      BY <3>1, NamedTop
    <3>3. QED
      BY <1>3, <2>1, <2>2, <3>2, NamedParts DEF OnlySpawnedNamed
  <2>4. CASE supervisor # Main
    <3>1. Framed(Top) /\ frames # << >> /\ Top.cursor \in Id
          /\ Top.phase = "supervise"
      BY <1>1, <2>1
    <3>2. supervisor \in Id \cup {Main} /\ supervisor <= spawned
      BY <1>3, <3>1 DEF TypeOK, Instance
    <3>3. [Top EXCEPT !.cursor = supervisor] \in Frame
      BY <2>4, <3>1, <3>2 DEF Frame, FrameRecord, Live
    <3>4. Spawned([Top EXCEPT !.cursor = supervisor], spawned)
      BY <3>1, <3>2 DEF Spawned, Frame, FrameRecord
    <3>5. frames' = WithTop([Top EXCEPT !.cursor = supervisor])
      BY <2>4 DEF Escalate
    <3>6. QED
      BY <1>2, <1>3, <2>1, <2>2, <3>1, <3>3, <3>4, <3>5
  <2>5. QED
    BY <2>3, <2>4
<1>17. QED
  BY <1>5, <1>6, <1>7, <1>8, <1>9, <1>11, <1>12, <1>14, <1>15, <1>16 DEF Supervision

-----------------------------------------------------------------------------
(* The theorems.                                                           *)

(* Initially only main's frame is on the stack.                             *)
LEMMA StackInit == Init => StackInvariant
<1> SUFFICES ASSUME Init PROVE StackInvariant
  OBVIOUS
<1>1. /\ Len(frames) = 1 /\ DOMAIN frames = {1}
      /\ frames[1] = NewFrame(Main, "main", NoSlot)
  BY DEF Init
<1>2. /\ frames[1].actor_id = Main /\ frames[1].cursor = Main /\ frames[1].outer = Main
      /\ frames[1].phase = "body"
  BY <1>1 DEF NewFrame
<1>3. StackOK(frames, busy_actors, current_actor)
  <2>1. IsCurrent(frames, 1, current_actor)
    BY <1>2 DEF IsCurrent, Init, Live
  <2>2. IsCurrent(frames, 1 - 1, frames[1].outer)
    BY <1>2 DEF IsCurrent
  <2>3. QED
    BY <1>1, <1>2, <2>1, <2>2 DEF StackOK, Init, Live
<1>4. OnlySpawnedNamed
  BY <1>1, <1>2 DEF OnlySpawnedNamed, Init, Main
<1>5. QED
  BY <1>3, <1>4 DEF StackInvariant

(* The inductive invariant of the stack: what run_actor_turn pushes, ends,   *)
(* pops and unwinds keeps busy_actors and current_actor in step with it.     *)
THEOREM StackCorrect == Spec => []StackInvariant
<1>1. Init => StackInvariant
  BY StackInit
<1>2. TypeOK /\ StackInvariant /\ [Next]_vars => StackInvariant'
  <2> SUFFICES ASSUME TypeOK, StackInvariant, [Next]_vars PROVE StackInvariant'
    OBVIOUS
  <2>1. OnlySpawnedNamed
    BY DEF StackInvariant
  <2>2. CASE Body
    BY <2>1, <2>2, StackBody, NamedBody DEF StackInvariant, Stack
  <2>3. CASE Pump
    BY <2>1, <2>3, StackPump, NamedPump DEF StackInvariant, Stack
  <2>4. CASE Supervision
    BY <2>1, <2>4, StackSupervision, NamedSupervision DEF StackInvariant, Stack
  <2>5. CASE UNCHANGED vars
    BY <2>5 DEF StackInvariant, OnlySpawnedNamed, vars, instanceVars, mailVars,
                slotVars, turnVars
  <2>6. QED
    BY <2>2, <2>3, <2>4, <2>5 DEF Next, Ended
<1>3. QED
  BY <1>1, <1>2, TypeCorrect, PTL DEF Spec

(* No actor has two bodies on the stack, busy_actors is the set of actors    *)
(* that have one, and current_actor is the innermost of them, whatever the    *)
(* program does, however deep turns nest.                                   *)
THEOREM SerialTurnsCorrect == Spec => []SerialTurns
<1>1. TypeOK /\ StackInvariant => SerialTurns
  <2> SUFFICES ASSUME TypeOK, StackInvariant PROVE SerialTurns
    OBVIOUS
  <2>1. StackOK(frames, busy_actors, current_actor) /\ DOMAIN frames = 1..Len(frames)
        /\ Len(frames) \in Nat
    BY LenProperties DEF StackInvariant, TypeOK
  <2>2. \A i, j \in LiveFrames : frames[i].actor_id = frames[j].actor_id => i = j
    <3>1. \A i, j \in LiveFrames : i < j => frames[i].actor_id # frames[j].actor_id
      BY <2>1 DEF StackOK, LiveFrames
    <3>2. \A i, j \in LiveFrames : i < j \/ j < i \/ i = j
      BY <2>1 DEF LiveFrames
    <3>3. QED
      BY <3>1, <3>2
  <2>3. busy_actors = {frames[i].actor_id : i \in LiveFrames} \ {Main}
    BY <2>1 DEF StackOK, LiveFrames
  <2>4. ASSUME NEW i \in LiveFrames, \A j \in LiveFrames : j <= i
        PROVE  current_actor = frames[i].actor_id
    <3>1. IsCurrent(frames, Len(frames), current_actor)
      BY <2>1 DEF StackOK
    <3>2. i \in 1..Len(frames) /\ frames[i].phase \in Live
      BY <2>1 DEF LiveFrames
    <3>3. PICK k \in 1..Len(frames) :
             /\ frames[k].phase \in Live /\ frames[k].actor_id = current_actor
             /\ \A j \in (k + 1)..Len(frames) : frames[j].phase \notin Live
      BY <3>1, <3>2 DEF IsCurrent
    <3>4. k \in LiveFrames
      BY <2>1, <3>3 DEF LiveFrames
    <3>5. k <= i /\ ~ (k < i)
      BY <2>1, <2>4, <3>2, <3>3, <3>4
    <3>6. QED
      BY <2>1, <3>2, <3>3, <3>5
  <2>5. QED
    BY <2>2, <2>3, <2>4 DEF SerialTurns
<1>2. QED
  BY <1>1, TypeCorrect, StackCorrect, PTL

-----------------------------------------------------------------------------
(* A stopped actor is silent for ever.                                     *)

Silent == StoppedIsSilent /\ PoliciesAgree

(* A step that stops nobody, and whose only new turn and new messages are of *)
(* an actor x that is not stopped (x = Main: there are none).               *)
LEMMA NobodyStopped ==
    ASSUME TypeOK, Silent, UNCHANGED spawned, NEW x \in Id \cup {Main},
           x \in Id => ~ actor_instances[x].stopped,
           \A id \in Id : /\ actor_instances'[id].stopped = actor_instances[id].stopped
                          /\ actor_instances'[id].policy = actor_instances[id].policy
                          /\ pending_supervision'[id] \in {pending_supervision[id], "none"},
           busy_actors' \subseteq busy_actors \cup {x},
           \A m \in actor_mailbox' : m \in actor_mailbox \/ m.actor_id = x
    PROVE  Silent'
<1>1. ASSUME NEW id \in Id, actor_instances'[id].stopped
      PROVE  /\ id \notin busy_actors'
             /\ \A m \in actor_mailbox' : m.actor_id # id
             /\ actor_instances'[id].policy \in {"Stop", "Escalate"}
  <2>1. actor_instances[id].stopped /\ id # x
    BY <1>1
  <2>2. /\ id \notin busy_actors
        /\ \A m \in actor_mailbox : m.actor_id # id
        /\ actor_instances[id].policy \in {"Stop", "Escalate"}
    BY <2>1 DEF Silent, StoppedIsSilent
  <2>3. QED
    BY <2>1, <2>2
<1>2. StoppedIsSilent'
  BY <1>1 DEF StoppedIsSilent
<1>3. PoliciesAgree'
  <2>1. ASSUME NEW id \in Id
        PROVE  /\ pending_supervision'[id] = "Stop" =>
                    actor_instances'[id].policy \in {"Stop", "Escalate"}
               /\ pending_supervision'[id] = "Restart" =>
                    actor_instances'[id].policy = "Restart"
               /\ pending_supervision'[id] # "none" => id <= spawned'
    <3>1. /\ pending_supervision[id] = "Stop" =>
                    actor_instances[id].policy \in {"Stop", "Escalate"}
          /\ pending_supervision[id] = "Restart" =>
                    actor_instances[id].policy = "Restart"
          /\ pending_supervision[id] # "none" => id <= spawned
      BY DEF Silent, PoliciesAgree
    <3>2. QED
      BY <3>1
  <2>2. QED
    BY <2>1 DEF PoliciesAgree
<1>4. QED
  BY <1>2, <1>3 DEF Silent

(* Stopping an actor that is not mid-turn and whose policy stops.           *)
LEMMA StopKeepsSilent ==
    ASSUME TypeOK, Silent, NEW id \in Id, StopActor(id), id \notin busy_actors,
           actor_instances[id].policy \in {"Stop", "Escalate"},
           UNCHANGED <<spawned, busy_actors>>,
           \A i \in Id : pending_supervision'[i] \in {pending_supervision[i], "none"}
    PROVE  Silent'
<1>1. CASE actor_instances[id].stopped
  <2>1. UNCHANGED <<actor_instances, actor_mailbox>>
    BY <1>1 DEF StopActor
  <2>2. Main \in Id \cup {Main} /\ Main \notin Id
    BY DEF Id, Main
  <2>3. QED
    BY <2>1, <2>2, NobodyStopped
<1>2. CASE ~ actor_instances[id].stopped
  <2>1. /\ actor_instances' = [actor_instances EXCEPT ![id].stopped = TRUE]
        /\ actor_mailbox' = actor_mailbox \ QueuedFor(id)
    BY <1>2 DEF StopActor
  <2>2. \A i \in Id : /\ actor_instances'[i].policy = actor_instances[i].policy
                      /\ i # id => actor_instances'[i].stopped = actor_instances[i].stopped
    <3>1. ASSUME NEW i \in Id
          PROVE  actor_instances'[i] = IF i = id THEN [actor_instances[i] EXCEPT !.stopped = TRUE]
                                       ELSE actor_instances[i]
      BY <2>1 DEF TypeOK
    <3>2. \A i \in Id : actor_instances[i] \in Instance
      BY DEF TypeOK
    <3>3. QED
      BY <3>1, <3>2 DEF Instance
  <2>3. \A m \in actor_mailbox' : m \in actor_mailbox /\ m.actor_id # id
    BY <2>1 DEF QueuedFor
  <2>4. ASSUME NEW i \in Id, actor_instances'[i].stopped
        PROVE  /\ i \notin busy_actors'
               /\ \A m \in actor_mailbox' : m.actor_id # i
               /\ actor_instances'[i].policy \in {"Stop", "Escalate"}
    <3>1. CASE i = id
      BY <2>2, <2>3, <3>1
    <3>2. CASE i # id
      BY <2>2, <2>3, <2>4, <3>2 DEF Silent, StoppedIsSilent
    <3>3. QED
      BY <3>1, <3>2
  <2>5. StoppedIsSilent'
    BY <2>4 DEF StoppedIsSilent
  <2>6. ASSUME NEW i \in Id
        PROVE  /\ pending_supervision'[i] = "Stop" =>
                    actor_instances'[i].policy \in {"Stop", "Escalate"}
               /\ pending_supervision'[i] = "Restart" =>
                    actor_instances'[i].policy = "Restart"
               /\ pending_supervision'[i] # "none" => i <= spawned'
    <3>1. /\ pending_supervision[i] = "Stop" =>
                    actor_instances[i].policy \in {"Stop", "Escalate"}
          /\ pending_supervision[i] = "Restart" =>
                    actor_instances[i].policy = "Restart"
          /\ pending_supervision[i] # "none" => i <= spawned
      BY DEF Silent, PoliciesAgree
    <3>2. QED
      BY <2>2, <3>1
  <2>7. PoliciesAgree'
    BY <2>6 DEF PoliciesAgree
  <2>8. QED
    BY <2>5, <2>7 DEF Silent
<1>3. QED
  BY <1>1, <1>2

(* Deferring the action the actor's own policy resolves to.                 *)
LEMMA DeferKeepsSilent ==
    ASSUME TypeOK, Silent, NEW id \in Id, NEW action \in {"Stop", "Restart"},
           Defer(id, action), id <= spawned,
           action = "Stop" => actor_instances[id].policy \in {"Stop", "Escalate"},
           action = "Restart" => actor_instances[id].policy = "Restart",
           UNCHANGED <<spawned, busy_actors, actor_instances, actor_mailbox>>
    PROVE  Silent'
<1>1. StoppedIsSilent'
  BY DEF Silent, StoppedIsSilent
<1>2. ASSUME NEW i \in Id
      PROVE  /\ pending_supervision'[i] = "Stop" =>
                    actor_instances'[i].policy \in {"Stop", "Escalate"}
             /\ pending_supervision'[i] = "Restart" =>
                    actor_instances'[i].policy = "Restart"
             /\ pending_supervision'[i] # "none" => i <= spawned'
  <2>1. /\ pending_supervision[i] = "Stop" =>
                    actor_instances[i].policy \in {"Stop", "Escalate"}
        /\ pending_supervision[i] = "Restart" =>
                    actor_instances[i].policy = "Restart"
        /\ pending_supervision[i] # "none" => i <= spawned
    BY DEF Silent, PoliciesAgree
  <2>2. \/ pending_supervision'[i] = pending_supervision[i]
        \/ i = id /\ pending_supervision'[i] = action
    BY DEF Defer, TypeOK
  <2>3. QED
    BY <2>1, <2>2
<1>3. PoliciesAgree'
  BY <1>2 DEF PoliciesAgree
<1>4. QED
  BY <1>1, <1>3 DEF Silent

(* A turn begins only for an actor that is not stopped.                     *)
LEMMA BeginTurnKeepsSilent ==
    ASSUME TypeOK, Silent, NEW id \in Id, ~ actor_instances[id].stopped,
           NEW kind, NEW slot, NEW below, NEW instances \in [Id -> Instance],
           \A i \in Id : /\ instances[i].stopped = actor_instances[i].stopped
                         /\ instances[i].policy = actor_instances[i].policy,
           BeginTurn(id, kind, slot, instances, below),
           UNCHANGED spawned, actor_mailbox' \subseteq actor_mailbox,
           \A i \in Id : pending_supervision'[i] \in {pending_supervision[i], "none"}
    PROVE  Silent'
<1>1. \A i \in Id : /\ actor_instances'[i].stopped = instances[i].stopped
                    /\ actor_instances'[i].policy = instances[i].policy
  BY DEF BeginTurn, Instance
<1>2. busy_actors' = busy_actors \cup {id}
  BY DEF BeginTurn
<1>3. QED
  BY <1>1, <1>2, NobodyStopped

(* Everything a step may change without touching what Silent speaks of.     *)
LEMMA NothingToSilence ==
    ASSUME TypeOK, Silent,
           UNCHANGED <<spawned, actor_instances, actor_mailbox, pending_supervision>>,
           busy_actors' \subseteq busy_actors
    PROVE  Silent'
<1>1. Main \in Id \cup {Main} /\ Main \notin Id
  BY DEF Id, Main
<1>2. QED
  BY <1>1, NobodyStopped

(* The operations of a body.                                                *)
LEMMA SilentBody == TypeOK /\ StackInvariant /\ Silent /\ Body => Silent'
<1> SUFFICES ASSUME TypeOK, StackInvariant, Silent, Body PROVE Silent'
  OBVIOUS
<1> USE DEF instanceVars, mailVars, slotVars, turnVars
<1>1. ASSUME NEW policy \in Policies, Spawn(policy) PROVE Silent'
  <2> DEFINE id == spawned + 1
             new == [supervisor |-> current_actor, policy |-> policy,
                     stopped |-> FALSE, state |-> 1]
             instances == [actor_instances EXCEPT ![id] = new]
  <2>1. id \in Id /\ spawned \in Nat
    BY <1>1, BoundsAssumption DEF Spawn, TypeOK, Id
  <2>2. new \in Instance
    BY PoliciesAssumption DEF Instance, TypeOK
  <2>3. instances \in [Id -> Instance]
    BY <2>1, <2>2 DEF TypeOK
  <2>4. /\ busy_actors' = busy_actors \cup {id} /\ spawned' = id
        /\ actor_instances' = [instances EXCEPT ![id].state = Taken]
        /\ UNCHANGED <<actor_mailbox, pending_supervision>>
    BY <1>1 DEF Spawn, BeginTurn
  <2>5. ASSUME NEW i \in Id
        PROVE  /\ i # id => /\ actor_instances'[i].stopped = actor_instances[i].stopped
                            /\ actor_instances'[i].policy = actor_instances[i].policy
               /\ i = id => ~ actor_instances'[i].stopped
    <3>1. instances[i] = IF i = id THEN new ELSE actor_instances[i]
      BY DEF TypeOK
    <3>2. /\ actor_instances'[i].stopped = instances[i].stopped
          /\ actor_instances'[i].policy = instances[i].policy
      <4> HIDE DEF instances
      <4>1. QED
        BY <2>3, <2>4 DEF Instance
    <3>3. new.stopped = FALSE
      OBVIOUS
    <3> HIDE DEF instances, new
    <3>4. CASE i = id
      BY <3>1, <3>2, <3>3, <3>4, Zenon
    <3>5. CASE i # id
      BY <3>1, <3>2, <3>5, Zenon
    <3>6. QED
      BY <3>4, <3>5
  <2> HIDE DEF instances, new
  <2>6. ASSUME NEW i \in Id, actor_instances'[i].stopped
        PROVE  /\ i \notin busy_actors'
               /\ \A m \in actor_mailbox' : m.actor_id # i
               /\ actor_instances'[i].policy \in {"Stop", "Escalate"}
    BY <2>4, <2>5, <2>6 DEF Silent, StoppedIsSilent
  <2>7. StoppedIsSilent'
    BY <2>6 DEF StoppedIsSilent
  <2>8. ASSUME NEW i \in Id
        PROVE  /\ pending_supervision'[i] = "Stop" =>
                    actor_instances'[i].policy \in {"Stop", "Escalate"}
               /\ pending_supervision'[i] = "Restart" =>
                    actor_instances'[i].policy = "Restart"
               /\ pending_supervision'[i] # "none" => i <= spawned'
    <3>1. /\ pending_supervision[i] = "Stop" =>
                    actor_instances[i].policy \in {"Stop", "Escalate"}
          /\ pending_supervision[i] = "Restart" =>
                    actor_instances[i].policy = "Restart"
          /\ pending_supervision[i] # "none" => i <= spawned
      BY DEF Silent, PoliciesAgree
    <3>2. i <= spawned => i # id /\ i <= id
      <4>1. i \in Int
        BY DEF Id
      <4>2. QED
        BY <2>1, <4>1
    <3>3. QED
      BY <2>4, <2>5, <3>1, <3>2
  <2>9. PoliciesAgree'
    BY <2>8 DEF PoliciesAgree
  <2>10. QED
    BY <2>7, <2>9 DEF Silent
<1>2. ASSUME NEW id \in Known, Tell(id) \/ Ask(id) PROVE Silent'
  <2>1. id \in Id
    BY DEF Known, TypeOK
  <2>2. UNCHANGED <<spawned, actor_instances, pending_supervision, busy_actors>>
    BY <1>2 DEF Tell, Ask
  <2>3. CASE actor_instances[id].stopped
    BY <1>2, <2>2, <2>3, NothingToSilence DEF Tell, Ask
  <2>4. CASE ~ actor_instances[id].stopped
    <3>1. \A m \in actor_mailbox' : m \in actor_mailbox \/ m.actor_id = id
      <4>1. ASSUME NEW slot, Enqueue(id, slot)
            PROVE  \A m \in actor_mailbox' : m \in actor_mailbox \/ m.actor_id = id
        BY <4>1 DEF Enqueue
      <4>2. QED
        BY <1>2, <2>4, <4>1 DEF Tell, Ask
    <3>2. QED
      BY <2>1, <2>2, <2>4, <3>1, NobodyStopped
  <2>5. QED
    BY <2>3, <2>4
<1>3. ASSUME NEW ss \in Futures, NEW phase, Wait(phase, ss) PROVE Silent'
  BY <1>3, NothingToSilence DEF Wait
<1>4. ASSUME NEW code, Fail(code) PROVE Silent'
  BY <1>4, NothingToSilence DEF Fail
<1>5. SelectNothing \/ EndTurnOnTakenState => Silent'
  BY <1>4 DEF SelectNothing, EndTurnOnTakenState
<1>6. ASSUME NEW reply \in {"ok", "err"}, EndTurn(reply) PROVE Silent'
  <2>1. /\ actor_instances' = [actor_instances EXCEPT ![Top.actor_id].state = Top.env]
        /\ busy_actors' \subseteq busy_actors
        /\ UNCHANGED <<spawned, actor_mailbox, pending_supervision>>
    BY <1>6 DEF EndTurn
  <2>2. \A i \in Id : /\ actor_instances'[i].stopped = actor_instances[i].stopped
                      /\ actor_instances'[i].policy = actor_instances[i].policy
    BY <2>1 DEF TypeOK, Instance
  <2>3. Main \in Id \cup {Main} /\ Main \notin Id
    BY DEF Id, Main
  <2>4. QED
    BY <2>1, <2>2, <2>3, NobodyStopped
<1>7. EndMain => Silent'
  BY NothingToSilence DEF EndMain
<1>8. ASSUME NEW k \in 0..Len(frames), Throw(k) PROVE Silent'
  <2>1. busy_actors' \subseteq busy_actors
    BY <1>8 DEF Throw
  <2>2. QED
    BY <1>8, <2>1, NothingToSilence DEF Throw
<1>9. QED
  BY <1>1, <1>2, <1>3, <1>5, <1>6, <1>7, <1>8 DEF Body, Await, Select

(* The pump.                                                               *)
LEMMA SilentPump == TypeOK /\ Silent /\ Pump => Silent'
<1> SUFFICES ASSUME TypeOK, Silent, Pump PROVE Silent'
  OBVIOUS
<1> USE DEF instanceVars, mailVars, slotVars, turnVars
<1>1. AwaitTakes \/ SelectTakes => Silent'
  BY NothingToSilence DEF AwaitTakes, SelectTakes, TakeReply
<1>2. ASSUME NEW m \in actor_mailbox, Dispatch(m) PROVE Silent'
  <2>1. m.actor_id \in Id /\ ~ actor_instances[m.actor_id].stopped
    BY <1>2 DEF Dispatch, IsFirst, Deliverable, TypeOK, Message
  <2>2. /\ BeginTurn(m.actor_id, "turn", m.reply_slot, actor_instances, frames)
        /\ actor_mailbox' \subseteq actor_mailbox
        /\ UNCHANGED <<spawned, pending_supervision>>
    BY <1>2 DEF Dispatch
  <2>3. actor_instances \in [Id -> Instance]
    BY DEF TypeOK
  <2>4. QED
    BY <2>1, <2>2, <2>3, BeginTurnKeepsSilent
<1>3. ASSUME NEW code, Fail(code) PROVE Silent'
  BY <1>3, NothingToSilence DEF Fail
<1>4. AwaitUnavailable \/ SelectUnavailable \/ Stall \/ DrainEnds => Silent'
  BY <1>3 DEF AwaitUnavailable, SelectUnavailable, Stall, DrainEnds
<1>5. QED
  BY <1>1, <1>2, <1>4 DEF Pump

(* Supervision: who is stopped is not mid-turn and has a policy that stops;  *)
(* who is restarted is not stopped, its policy being Restart.               *)
LEMMA SilentSupervision == TypeOK /\ StackInvariant /\ Silent /\ Supervision => Silent'
<1> SUFFICES ASSUME TypeOK, StackInvariant, Silent, Supervision PROVE Silent'
  OBVIOUS
<1> USE DEF instanceVars, mailVars, slotVars, turnVars
<1>1. ASSUME NEW phase \in {"ended", "reply", "supervise"}, TopIs(phase)
      PROVE  /\ Top.actor_id \in Id /\ Top.cursor \in Id /\ Top.cursor <= spawned
             /\ Top.actor_id \notin busy_actors
  <2>1. frames # << >> /\ Top.phase \notin Live /\ Top \in Frame
    BY <1>1, TopIsFrame DEF TopIs, Live
  <2>2. Top.actor_id \in Id /\ Top.cursor \in Id
    BY <2>1 DEF Frame, FrameRecord
  <2>3. Top.cursor <= spawned
    BY <2>1, NamedTop DEF StackInvariant, Spawned
  <2>4. Top.actor_id \notin busy_actors
    BY <2>1, PopTop DEF StackInvariant, Stack
  <2>5. QED
    BY <2>2, <2>3, <2>4
<1>2. NoDeferred => Silent'
  BY NothingToSilence DEF NoDeferred
<1>3. ASSUME NEW id \in Id, ClearPending(id)
      PROVE  \A i \in Id : pending_supervision'[i] \in {pending_supervision[i], "none"}
  BY <1>3 DEF ClearPending, TypeOK
<1>4. ASSUME NEW id \in Id, NEW below, RestartActor(id, below),
             actor_instances[id].policy = "Restart",
             UNCHANGED <<spawned, actor_mailbox>>,
             \A i \in Id : pending_supervision'[i] \in {pending_supervision[i], "none"}
      PROVE  Silent'
  <2> DEFINE instances == [actor_instances EXCEPT ![id].state = incarnation[id] + 1]
  <2>1. ~ actor_instances[id].stopped
    BY <1>4 DEF Silent, StoppedIsSilent
  <2>2. instances \in [Id -> Instance]
    <3>1. incarnation[id] + 1 \in Nat /\ actor_instances \in [Id -> Instance]
      BY DEF TypeOK
    <3>2. QED
      BY <3>1, StateType
  <2>3. \A i \in Id : /\ instances[i].stopped = actor_instances[i].stopped
                      /\ instances[i].policy = actor_instances[i].policy
    BY DEF TypeOK, Instance
  <2>4. BeginTurn(id, "restart", NoSlot, instances, below)
    BY <1>4 DEF RestartActor
  <2> HIDE DEF instances
  <2>5. QED
    BY <1>4, <2>1, <2>2, <2>3, <2>4, BeginTurnKeepsSilent
<1>5. DeferredStop => Silent'
  <2> SUFFICES ASSUME DeferredStop PROVE Silent'
    OBVIOUS
  <2>1. /\ Top.actor_id \in Id /\ Top.actor_id \notin busy_actors
        /\ StopActor(Top.actor_id) /\ ClearPending(Top.actor_id)
        /\ UNCHANGED <<spawned, busy_actors>>
    BY <1>1 DEF DeferredStop
  <2>2. actor_instances[Top.actor_id].policy \in {"Stop", "Escalate"}
    BY <2>1 DEF DeferredStop, Silent, PoliciesAgree
  <2>3. QED
    BY <1>3, <2>1, <2>2, StopKeepsSilent
<1>6. DeferredRestart => Silent'
  <2> SUFFICES ASSUME DeferredRestart PROVE Silent'
    OBVIOUS
  <2>1. /\ Top.actor_id \in Id /\ ClearPending(Top.actor_id)
        /\ UNCHANGED <<spawned, actor_mailbox>>
        /\ RestartActor(Top.actor_id, WithTop([Top EXCEPT !.phase = "reply"]))
    BY <1>1 DEF DeferredRestart
  <2>2. actor_instances[Top.actor_id].policy = "Restart"
    BY <2>1 DEF DeferredRestart, Silent, PoliciesAgree
  <2>3. QED
    BY <1>3, <1>4, <2>1, <2>2
<1>7. SpawnReturns \/ RestartReturns \/ PublishReply \/ Unsupervised => Silent'
  BY NothingToSilence DEF SpawnReturns, RestartReturns, PublishReply, Unsupervised
<1>8. DeferredRestartLoops \/ EscalatedToUnsupervised => Silent'
  BY NothingToSilence DEF DeferredRestartLoops, EscalatedToUnsupervised, Fail
<1>9. ASSUME NEW id \in Id, id <= spawned, StopOrDefer(id),
             actor_instances[id].policy \in {"Stop", "Escalate"},
             UNCHANGED <<spawned, busy_actors>>
      PROVE  Silent'
  <2>1. CASE /\ Defer(id, "Stop")
             /\ UNCHANGED <<actor_instances, actor_mailbox, actor_reply_slots>>
    BY <1>9, <2>1, DeferKeepsSilent
  <2>2. CASE ~ MidTurn(id) /\ StopActor(id) /\ UNCHANGED pending_supervision
    BY <1>9, <2>2, StopKeepsSilent DEF MidTurn
  <2>3. QED
    BY <1>9, <2>1, <2>2 DEF StopOrDefer
<1>10. SuperviseStop => Silent'
  <2> SUFFICES ASSUME SuperviseStop PROVE Silent'
    OBVIOUS
  <2>1. /\ StopOrDefer(Top.cursor) /\ actor_instances[Top.cursor].policy = "Stop"
        /\ UNCHANGED <<spawned, busy_actors>>
        /\ Top.cursor \in Id /\ Top.cursor <= spawned
    BY <1>1 DEF SuperviseStop, PolicyAt
  <2>2. QED
    BY <1>9, <2>1
<1>11. Escalate => Silent'
  <2> SUFFICES ASSUME Escalate PROVE Silent'
    OBVIOUS
  <2>1. /\ StopOrDefer(Top.cursor) /\ actor_instances[Top.cursor].policy = "Escalate"
        /\ UNCHANGED <<spawned, busy_actors>>
        /\ Top.cursor \in Id /\ Top.cursor <= spawned
    BY <1>1 DEF Escalate, PolicyAt
  <2>2. QED
    BY <1>9, <2>1
<1>12. SuperviseRestart => Silent'
  <2> SUFFICES ASSUME SuperviseRestart PROVE Silent'
    OBVIOUS
  <2>1. /\ RestartActor(Top.cursor, Popped)
        /\ actor_instances[Top.cursor].policy = "Restart"
        /\ UNCHANGED <<spawned, actor_mailbox, pending_supervision>>
        /\ Top.cursor \in Id
    BY <1>1 DEF SuperviseRestart, PolicyAt
  <2>2. QED
    BY <1>4, <2>1
<1>13. SuperviseRestartDeferred => Silent'
  <2> SUFFICES ASSUME SuperviseRestartDeferred PROVE Silent'
    OBVIOUS
  <2>1. /\ Defer(Top.cursor, "Restart")
        /\ actor_instances[Top.cursor].policy = "Restart"
        /\ UNCHANGED <<spawned, busy_actors, actor_instances, actor_mailbox>>
        /\ Top.cursor \in Id /\ Top.cursor <= spawned
    BY <1>1 DEF SuperviseRestartDeferred, PolicyAt
  <2>2. QED
    BY <2>1, DeferKeepsSilent
<1>14. QED
  BY <1>2, <1>5, <1>6, <1>7, <1>8, <1>10, <1>11, <1>12, <1>13 DEF Supervision

-----------------------------------------------------------------------------

(* A stopped actor never runs another turn, never has another message        *)
(* queued, and was stopped by a policy that stops; and a deferred action is   *)
(* always the one the actor's policy resolves to.                           *)
THEOREM SilentCorrect == Spec => [](StoppedIsSilent /\ PoliciesAgree)
<1>1. Init => Silent
  BY DEF Init, Silent, StoppedIsSilent, PoliciesAgree
<1>2. TypeOK /\ StackInvariant /\ Silent /\ [Next]_vars => Silent'
  <2> SUFFICES ASSUME TypeOK, StackInvariant, Silent, [Next]_vars PROVE Silent'
    OBVIOUS
  <2>1. CASE Body
    BY <2>1, SilentBody
  <2>2. CASE Pump
    BY <2>2, SilentPump
  <2>3. CASE Supervision
    BY <2>3, SilentSupervision
  <2>4. CASE UNCHANGED vars
    BY <2>4, NothingToSilence DEF vars, instanceVars, mailVars, slotVars, turnVars
  <2>5. QED
    BY <2>1, <2>2, <2>3, <2>4 DEF Next, Ended
<1>3. QED
  BY <1>1, <1>2, TypeCorrect, StackCorrect, PTL DEF Spec, Silent

=============================================================================
