-------------------------- MODULE ActorsTurnProofs --------------------------
(* The stack's discipline, and what rests on it: a deferred action waits for *)
(* a turn that will apply it, and no restart is overwritten by a turn it     *)
(* overtook.  For every bound, set of policies and Knows.                   *)
EXTENDS ActorsStackProofs

-----------------------------------------------------------------------------
(* What the ways a stack changes do to its discipline.                     *)

(* What it takes for the turns on a stack to be orderly.                    *)
LEMMA DisciplineIntro ==
    ASSUME NEW F, NEW requests, NEW reinit,
           \A i \in DOMAIN F : Beneath(F, i) /\ Orderly(F[i], requests),
           \A i, j \in DOMAIN F :
               F[i].kind = "restart" /\ F[j].kind = "restart"
                 /\ F[i].actor_id = F[j].actor_id => i = j,
           reinit = {F[i].actor_id : i \in {j \in DOMAIN F : F[j].kind = "restart"}}
    PROVE  DisciplineOn(F, requests, reinit)
  BY DEF DisciplineOn

(* The top frame moves on within its turn.                                  *)
LEMMA DisciplineRetop ==
    ASSUME NEW F \in Seq(Frame), NEW G \in Seq(Frame), NEW n \in Nat \ {0},
           n = Len(F), Len(G) = n, NEW requests, NEW reinit,
           DisciplineOn(F, requests, reinit), \A i \in 1..(n - 1) : G[i] = F[i],
           G[n].actor_id = F[n].actor_id, G[n].kind = F[n].kind,
           Orderly(G[n], requests)
    PROVE  DisciplineOn(G, requests, reinit)
<1>1. DOMAIN F = 1..n /\ DOMAIN G = 1..n /\ n \in 1..n
  BY LenProperties
<1>2. \A i \in 1..n : i # n => i \in 1..(n - 1) /\ G[i] = F[i] /\ i + 1 \in 1..n
  OBVIOUS
<1>3. \A i \in 1..n : G[i].actor_id = F[i].actor_id /\ G[i].kind = F[i].kind
  BY <1>2
<1>4. ASSUME NEW i \in 1..n PROVE Beneath(G, i) /\ Orderly(G[i], requests)
  <2>1. CASE i = n
    BY <2>1 DEF Beneath
  <2>2. CASE i # n
    <3>1. Beneath(F, i) /\ Orderly(F[i], requests)
      BY <1>1 DEF DisciplineOn
    <3>2. G[i] = F[i] /\ G[i + 1].kind = F[i + 1].kind
          /\ G[i + 1].actor_id = F[i + 1].actor_id
      BY <1>2, <1>3, <2>2
    <3>3. QED
      BY <3>1, <3>2 DEF Beneath
  <2>3. QED
    BY <2>1, <2>2
<1>5. QED
  BY <1>1, <1>3, <1>4 DEF DisciplineOn

(* The top frame leaves.                                                    *)
LEMMA DisciplinePop ==
    ASSUME NEW F \in Seq(Frame), NEW G \in Seq(Frame), NEW n \in Nat \ {0},
           n = Len(F), Len(G) = n - 1, NEW requests, NEW reinit,
           DisciplineOn(F, requests, reinit), \A i \in 1..(n - 1) : G[i] = F[i]
    PROVE  DisciplineOn(G, requests, IF F[n].kind = "restart"
                                     THEN reinit \ {F[n].actor_id} ELSE reinit)
<1>1. DOMAIN F = 1..n /\ DOMAIN G = 1..(n - 1) /\ n \in 1..n
  BY LenProperties
<1>2. \A i \in 1..(n - 1) : i \in 1..n /\ i # n
  OBVIOUS
<1>3. \A i \in 1..n : i # n => i \in 1..(n - 1)
  OBVIOUS
<1>4. ASSUME NEW i \in 1..(n - 1) PROVE Beneath(G, i) /\ Orderly(G[i], requests)
  <2>1. Beneath(F, i) /\ Orderly(F[i], requests) /\ G[i] = F[i]
    BY <1>1, <1>2 DEF DisciplineOn
  <2>2. i < n - 1 => i < n /\ G[i + 1] = F[i + 1]
    OBVIOUS
  <2>3. QED
    BY <2>1, <2>2 DEF Beneath
<1>5. \A i, j \in 1..n : F[i].kind = "restart" /\ F[j].kind = "restart"
                           /\ F[i].actor_id = F[j].actor_id => i = j
  BY <1>1 DEF DisciplineOn
<1>6. (IF F[n].kind = "restart" THEN reinit \ {F[n].actor_id} ELSE reinit)
      = {G[i].actor_id : i \in {j \in DOMAIN G : G[j].kind = "restart"}}
  <2> DEFINE top == F[n].actor_id
             lower == {F[i].actor_id : i \in {j \in 1..(n - 1) : F[j].kind = "restart"}}
  <2>1. reinit = {F[i].actor_id : i \in {j \in 1..n : F[j].kind = "restart"}}
    BY <1>1 DEF DisciplineOn
  <2>2. {G[i].actor_id : i \in {j \in DOMAIN G : G[j].kind = "restart"}} = lower
    BY <1>1
  <2>3. ASSUME NEW a \in reinit, a # top \/ F[n].kind # "restart"
        PROVE  a \in lower
    <3>1. PICK i \in 1..n : F[i].kind = "restart" /\ F[i].actor_id = a
      BY <2>1
    <3>2. i \in 1..(n - 1)
      BY <1>3, <2>3, <3>1
    <3>3. QED
      BY <3>1, <3>2
  <2>4. ASSUME NEW a \in lower
        PROVE  a \in reinit /\ (F[n].kind = "restart" => a # top)
    <3>1. PICK i \in 1..(n - 1) : F[i].kind = "restart" /\ F[i].actor_id = a
      OBVIOUS
    <3>2. i \in 1..n /\ i # n
      BY <1>2
    <3>3. QED
      BY <1>1, <1>5, <2>1, <3>1, <3>2
  <2> HIDE DEF lower, top
  <2>5. (IF F[n].kind = "restart" THEN reinit \ {top} ELSE reinit) = lower
    BY <2>3, <2>4
  <2>6. QED
    BY <2>2, <2>5 DEF top
<1>7. QED
  BY <1>1, <1>2, <1>4, <1>5, <1>6 DEF DisciplineOn

(* G is F with one more frame.                                             *)
Pushed(F, G) ==
    /\ F \in Seq(Frame) /\ G \in Seq(Frame)
    /\ Len(G) = Len(F) + 1
    /\ \A i \in 1..Len(F) : G[i] = F[i]

(* A turn begins above user code, or above the turn whose deferred restart   *)
(* it is.                                                                  *)
LEMMA DisciplinePush ==
    ASSUME NEW F, NEW G, Pushed(F, G), NEW n, n = Len(F), NEW requests, NEW reinit,
           DisciplineOn(F, requests, reinit), Orderly(G[n + 1], requests),
           G[n + 1].kind = "restart" => G[n + 1].actor_id \notin reinit,
           n # 0 => \/ F[n].phase \in Live
                    \/ /\ F[n].phase = "reply" /\ F[n].kind # "restart"
                       /\ G[n + 1].kind = "restart"
                       /\ G[n + 1].actor_id = F[n].actor_id
    PROVE  DisciplineOn(G, requests, IF G[n + 1].kind = "restart"
                                     THEN reinit \cup {G[n + 1].actor_id} ELSE reinit)
<1>1. /\ DOMAIN F = 1..n /\ DOMAIN G = 1..(n + 1) /\ n + 1 \in 1..(n + 1) /\ n \in Nat
      /\ \A i \in 1..n : G[i] = F[i]
  BY LenProperties DEF Pushed
<1>2. \A i \in 1..n : i \in 1..(n + 1) /\ i # n + 1
  OBVIOUS
<1>3. \A i \in 1..(n + 1) : i # n + 1 => i \in 1..n
  OBVIOUS
<1>4. ASSUME NEW i \in 1..(n + 1) PROVE Beneath(G, i) /\ Orderly(G[i], requests)
  <2>1. CASE i = n + 1
    BY <1>1, <2>1, SMT DEF Beneath
  <2>2. CASE i = n
    <3>1. G[i] = F[n] /\ Orderly(F[n], requests)
      BY <1>1, <2>2 DEF DisciplineOn
    <3>2. QED
      BY <2>2, <3>1 DEF Beneath
  <2>3. CASE i \in 1..(n - 1)
    <3>1. Beneath(F, i) /\ Orderly(F[i], requests) /\ G[i] = F[i] /\ G[i + 1] = F[i + 1]
      BY <1>1, <2>3 DEF DisciplineOn
    <3>2. i < n
      BY <2>3
    <3>3. QED
      BY <3>1, <3>2 DEF Beneath
  <2>4. QED
    BY <2>1, <2>2, <2>3
<1>5. reinit = {F[i].actor_id : i \in {j \in 1..n : F[j].kind = "restart"}}
  BY <1>1 DEF DisciplineOn
<1>6. \A i, j \in 1..n : F[i].kind = "restart" /\ F[j].kind = "restart"
                           /\ F[i].actor_id = F[j].actor_id => i = j
  BY <1>1 DEF DisciplineOn
<1>7. ASSUME NEW i \in 1..(n + 1), NEW j \in 1..(n + 1), G[i].kind = "restart",
             G[j].kind = "restart", G[i].actor_id = G[j].actor_id
      PROVE  i = j
  <2>1. ASSUME NEW a \in 1..n, F[a].kind = "restart", G[n + 1].kind = "restart"
        PROVE  F[a].actor_id # G[n + 1].actor_id
    BY <1>5, <2>1
  <2>2. CASE i \in 1..n /\ j \in 1..n
    BY <1>1, <1>6, <1>7, <2>2
  <2>3. CASE i = n + 1 \/ j = n + 1
    BY <1>1, <1>3, <1>7, <2>1, <2>3
  <2>4. QED
    BY <1>3, <2>2, <2>3
<1>8. (IF G[n + 1].kind = "restart" THEN reinit \cup {G[n + 1].actor_id} ELSE reinit)
      = {G[i].actor_id : i \in {j \in DOMAIN G : G[j].kind = "restart"}}
  BY <1>1, <1>2, <1>3, <1>5
<1>9. QED
  BY <1>1, <1>4, <1>7, <1>8 DEF DisciplineOn

(* An error is caught in the body of frame k.                               *)
LEMMA DisciplineUnwind ==
    ASSUME NEW F \in Seq(Frame), NEW G \in Seq(Frame), NEW n \in Nat,
           n = Len(F), NEW k \in 1..(n - 1), Len(G) = k, NEW requests, NEW reinit,
           DisciplineOn(F, requests, reinit), \A i \in 1..(k - 1) : G[i] = F[i],
           G[k].actor_id = F[k].actor_id, G[k].kind = F[k].kind,
           Orderly(G[k], requests)
    PROVE  DisciplineOn(G, requests, reinit \
             {F[i].actor_id : i \in {j \in (k + 1)..n : F[j].kind = "restart"}})
<1>1. DOMAIN F = 1..n /\ DOMAIN G = 1..k
  BY LenProperties
<1>2. \A i \in 1..k : G[i].actor_id = F[i].actor_id /\ G[i].kind = F[i].kind
  <2>1. \A i \in 1..k : i = k \/ i \in 1..(k - 1)
    OBVIOUS
  <2>2. QED
    BY <2>1
<1>3. ASSUME NEW i \in 1..k PROVE Beneath(G, i) /\ Orderly(G[i], requests)
  <2>1. CASE i = k
    BY <2>1 DEF Beneath
  <2>2. CASE i # k
    <3>1. i \in 1..n /\ i < n /\ i \in 1..(k - 1) /\ i + 1 \in 1..k
      BY <2>2
    <3>2. Beneath(F, i) /\ Orderly(F[i], requests)
      BY <1>1, <3>1 DEF DisciplineOn
    <3>3. G[i] = F[i] /\ G[i + 1].kind = F[i + 1].kind
          /\ G[i + 1].actor_id = F[i + 1].actor_id
      BY <1>2, <3>1
    <3>4. QED
      BY <3>1, <3>2, <3>3 DEF Beneath
  <2>3. QED
    BY <2>1, <2>2
<1>4. \A i, j \in 1..n : F[i].kind = "restart" /\ F[j].kind = "restart"
                           /\ F[i].actor_id = F[j].actor_id => i = j
  BY <1>1 DEF DisciplineOn
<1>5. \A i \in 1..k : i \in 1..n /\ i \notin (k + 1)..n
  OBVIOUS
<1>6. \A i \in 1..n : i \in 1..k \/ i \in (k + 1)..n
  OBVIOUS
<1>7. reinit \ {F[i].actor_id : i \in {j \in (k + 1)..n : F[j].kind = "restart"}}
      = {G[i].actor_id : i \in {j \in DOMAIN G : G[j].kind = "restart"}}
  <2>1. reinit = {F[i].actor_id : i \in {j \in 1..n : F[j].kind = "restart"}}
    BY <1>1 DEF DisciplineOn
  <2>2. {G[i].actor_id : i \in {j \in DOMAIN G : G[j].kind = "restart"}}
        = {F[i].actor_id : i \in {j \in 1..k : F[j].kind = "restart"}}
    <3>1. {j \in DOMAIN G : G[j].kind = "restart"} = {j \in 1..k : F[j].kind = "restart"}
      BY <1>1, <1>2
    <3>2. \A i \in {j \in 1..k : F[j].kind = "restart"} : G[i].actor_id = F[i].actor_id
      BY <1>2
    <3>3. QED
      BY <3>1, <3>2
  <2>3. \A i \in (k + 1)..n : i \in 1..n
    OBVIOUS
  <2>4. QED
    BY <1>4, <1>5, <1>6, <2>1, <2>2, <2>3
<1>8. \A i, j \in DOMAIN G : G[i].kind = "restart" /\ G[j].kind = "restart"
                               /\ G[i].actor_id = G[j].actor_id => i = j
  BY <1>1, <1>2, <1>4, <1>5
<1>9. \A i \in DOMAIN G : Beneath(G, i) /\ Orderly(G[i], requests)
  BY <1>1, <1>3
<1>10. QED
  BY <1>7, <1>8, <1>9, DisciplineIntro, Zenon

(* More requests may be waited for.                                         *)
LEMMA DisciplineMore ==
    ASSUME TypeOK, NEW requests \in Nat, DisciplineOn(frames, asked, restarting),
           asked <= requests
    PROVE  DisciplineOn(frames, requests, restarting)
<1>1. ASSUME NEW i \in DOMAIN frames PROVE Orderly(frames[i], requests)
  <2>1. Orderly(frames[i], asked)
    BY DEF DisciplineOn
  <2>2. frames[i].awaiting \in Seq(Slot)
    <3>1. frames[i] \in Frame
      BY LenProperties, ElementOfSeq DEF TypeOK
    <3>2. QED
      BY <3>1 DEF Frame, FrameRecord
  <2>3. ASSUME NEW j \in DOMAIN frames[i].awaiting PROVE frames[i].awaiting[j] \in Nat
    <3>1. frames[i].awaiting[j] \in Slot
      BY <2>2, LenProperties, ElementOfSeq
    <3>2. QED
      BY <3>1 DEF Slot
  <2>4. asked \in Nat
    BY DEF TypeOK
  <2>5. QED
    BY <2>1, <2>3, <2>4 DEF Orderly
<1>2. QED
  BY <1>1 DEF DisciplineOn

-----------------------------------------------------------------------------
(* The stack after a step, frame by frame.                                 *)

(* A turn that begins, well typed.                                          *)
TurnBegins(id, kind, slot, instances, below) ==
    /\ id \in Id /\ kind \in {"init", "turn", "restart"}
    /\ slot \in Slot \cup {NoSlot}
    /\ instances \in [Id -> Instance]
    /\ below \in Seq(Frame)
    /\ BeginTurn(id, kind, slot, instances, below)

(* run_actor_turn's entry.                                                  *)
LEMMA PushShape ==
    ASSUME TypeOK, NEW id, NEW kind, NEW slot, NEW instances, NEW below,
           TurnBegins(id, kind, slot, instances, below)
    PROVE  /\ frames' \in Seq(Frame) /\ Len(frames') = Len(below) + 1
           /\ Len(below) \in Nat
           /\ \A i \in 1..Len(below) : frames'[i] = below[i]
           /\ frames'[Len(below) + 1].actor_id = id
           /\ frames'[Len(below) + 1].kind = kind
           /\ frames'[Len(below) + 1].slot = slot
           /\ frames'[Len(below) + 1].env = instances[id].state
           /\ frames'[Len(below) + 1].outer = current_actor
           /\ frames'[Len(below) + 1].phase = "body"
           /\ frames'[Len(below) + 1].awaiting = << >>
           /\ frames'[Len(below) + 1].cursor = id
<1> DEFINE f == [NewFrame(id, kind, slot) EXCEPT !.env = instances[id].state,
                                                 !.outer = current_actor]
<1> USE DEF TurnBegins
<1>1. instances[id].state \in Nat /\ current_actor \in Id \cup {Main}
      /\ id # Main /\ kind # "main"
  BY DEF Instance, TypeOK, Id, Main
<1>2. f \in Frame
  BY <1>1, NewFrameType
<1>3. /\ f.actor_id = id /\ f.kind = kind /\ f.slot = slot
      /\ f.env = instances[id].state /\ f.outer = current_actor
      /\ f.phase = "body" /\ f.awaiting = << >> /\ f.cursor = id
  BY DEF NewFrame
<1>4. frames' = Append(below, f)
  BY DEF BeginTurn
<1> HIDE DEF f
<1>5. /\ frames' \in Seq(Frame) /\ Len(frames') = Len(below) + 1
      /\ Len(below) \in Nat
      /\ \A i \in 1..Len(below) : frames'[i] = below[i]
      /\ frames'[Len(below) + 1] = f
  BY <1>2, <1>4, AppendProperties, LenProperties
<1>6. QED
  BY <1>3, <1>5

(* An error caught in the body of frame k.                                  *)
LEMMA ThrowShape ==
    ASSUME TypeOK, NEW k \in 1..(Len(frames) - 1), Throw(k)
    PROVE  /\ frames' \in Seq(Frame) /\ Len(frames') = k /\ frames \in Seq(Frame)
           /\ Len(frames) \in Nat
           /\ \A i \in 1..(k - 1) : frames'[i] = frames[i]
           /\ \A i \in 1..k : /\ frames'[i].actor_id = frames[i].actor_id
                              /\ frames'[i].kind = frames[i].kind
                              /\ frames'[i].slot = frames[i].slot
                              /\ frames'[i].cursor = frames[i].cursor
           /\ frames'[k].phase = "body" /\ frames'[k].awaiting = << >>
           /\ frames[k].phase \in Live
<1> DEFINE n == Len(frames)
           f == [frames[k] EXCEPT !.phase = "body", !.awaiting = << >>]
           B == SubSeq(frames, 1, k - 1)
<1>1. /\ n \in Nat /\ k \in 1..n /\ k # 0
      /\ frames \in Seq(Frame) /\ DOMAIN frames = 1..n
  BY LenProperties DEF TypeOK
<1>2. frames[k] \in Frame /\ \A i \in 1..(k - 1) : frames[i] \in Frame
  BY <1>1, ElementOfSeq
<1>3. << >> \in Seq(Slot)
  BY EmptySeq
<1>4. f \in Frame
  BY <1>2, <1>3 DEF Frame, FrameRecord, Live
<1>5. /\ f.actor_id = frames[k].actor_id /\ f.kind = frames[k].kind
      /\ f.slot = frames[k].slot /\ f.cursor = frames[k].cursor
      /\ f.phase = "body" /\ f.awaiting = << >>
  BY <1>2 DEF Frame, FrameRecord
<1>6. 1 \in Int /\ k - 1 \in Int /\ k - 1 >= 0 /\ k - 1 - 1 + 1 = k - 1
  BY <1>1
<1>7. /\ B \in Seq(Frame) /\ Len(B) = IF 1 <= k - 1 THEN k - 1 - 1 + 1 ELSE 0
      /\ \A i \in 1..(k - 1 - 1 + 1) : B[i] = frames[1 + i - 1]
  BY <1>2, <1>6, SubSeqProperties
<1>8. B \in Seq(Frame) /\ Len(B) = k - 1 /\ \A i \in 1..(k - 1) : B[i] = frames[i]
  BY <1>6, <1>7
<1>9. frames' = Append(B, f) /\ frames[k].phase \in Live
  BY <1>1 DEF Throw
<1> HIDE DEF f, B
<1>10. /\ frames' \in Seq(Frame) /\ Len(frames') = k /\ frames'[k] = f
       /\ \A i \in 1..(k - 1) : frames'[i] = B[i]
  BY <1>4, <1>8, <1>9, AppendProperties
<1>11. \A i \in 1..k : i # k => i \in 1..(k - 1)
  OBVIOUS
<1>12. QED
  BY <1>1, <1>5, <1>8, <1>9, <1>10, <1>11

(* main's frame is alone when it is on top.                                 *)
LEMMA MainIsAlone ==
    ASSUME TypeOK, StackInvariant, frames # << >>, Top.kind = "main"
    PROVE  Len(frames) = 1 /\ DOMAIN frames = {1} /\ Top = frames[1]
<1>1. Len(frames) \in Nat \ {0} /\ Top = frames[Len(frames)]
      /\ DOMAIN frames = 1..Len(frames)
  BY TopIsFrame, LenProperties DEF TypeOK
<1>2. Len(frames) = 1
  BY <1>1 DEF StackInvariant, StackOK
<1>3. QED
  BY <1>1, <1>2

-----------------------------------------------------------------------------
(* The actions keep the discipline.                                        *)

(* A step that only moves the top frame on.                                 *)
LEMMA DisciplineTop ==
    ASSUME TypeOK, StackDiscipline, frames # << >>, NEW f \in Frame,
           f.actor_id = Top.actor_id, f.kind = Top.kind, Orderly(f, asked),
           UNCHANGED <<asked, restarting>>,
           frames' = WithTop(f)
    PROVE  StackDiscipline'
<1> DEFINE n == Len(frames)
<1>1. /\ frames \in Seq(Frame) /\ WithTop(f) \in Seq(Frame) /\ n \in Nat \ {0}
      /\ Len(WithTop(f)) = n /\ Top = frames[n]
      /\ \A i \in 1..n : WithTop(f)[i] = IF i = n THEN f ELSE frames[i]
  BY TopIsFrame DEF TypeOK
<1>2. WithTop(f)[n] = f /\ \A i \in 1..(n - 1) : WithTop(f)[i] = frames[i]
  BY <1>1
<1> HIDE DEF n
<1>3. DisciplineOn(WithTop(f), asked, restarting)
  BY <1>1, <1>2, DisciplineRetop DEF StackDiscipline, n
<1>4. QED
  BY <1>3 DEF StackDiscipline

(* A step that pops a turn other than a restart.                            *)
LEMMA DisciplinePopped ==
    ASSUME TypeOK, StackDiscipline, frames # << >>
    PROVE  DisciplineOn(Popped, asked, IF Top.kind = "restart"
                                THEN restarting \ {Top.actor_id} ELSE restarting)
<1>1. /\ frames \in Seq(Frame) /\ Popped \in Seq(Frame) /\ Len(frames) \in Nat \ {0}
      /\ Top = frames[Len(frames)] /\ Len(Popped) = Len(frames) - 1
      /\ \A i \in 1..(Len(frames) - 1) : Popped[i] = frames[i]
  BY TopIsFrame DEF TypeOK
<1>2. QED
  BY <1>1, DisciplinePop DEF StackDiscipline

(* The top frame obeys the discipline.                                      *)
LEMMA TopOrderly ==
    ASSUME TypeOK, StackDiscipline, frames # << >>
    PROVE  /\ Orderly(Top, asked)
           /\ Top.kind = "restart" => Top.actor_id \in restarting
<1>1. Len(frames) \in DOMAIN frames /\ Top = frames[Len(frames)]
  BY TopIsFrame, LenProperties DEF TypeOK
<1>2. QED
  BY <1>1 DEF StackDiscipline, DisciplineOn

(* A step that begins a turn.                                               *)
LEMMA DisciplineTurn ==
    ASSUME TypeOK, NEW id, NEW kind, NEW slot, NEW instances, NEW below,
           TurnBegins(id, kind, slot, instances, below),
           DisciplineOn(below, asked, restarting), UNCHANGED asked,
           kind # "turn" => slot = NoSlot,
           kind = "restart" => id \notin restarting,
           restarting' = IF kind = "restart" THEN restarting \cup {id} ELSE restarting,
           Len(below) # 0 =>
             \/ below[Len(below)].phase \in Live
             \/ /\ below[Len(below)].phase = "reply" /\ kind = "restart"
                /\ below[Len(below)].kind # "restart"
                /\ id = below[Len(below)].actor_id
    PROVE  StackDiscipline'
<1> DEFINE n == Len(below)  f == frames'[n + 1]
<1>1. /\ frames' \in Seq(Frame) /\ Len(frames') = n + 1 /\ n \in Nat
      /\ \A i \in 1..n : frames'[i] = below[i]
      /\ f.actor_id = id /\ f.kind = kind /\ f.slot = slot
      /\ f.phase = "body" /\ f.awaiting = << >> /\ f.cursor = id
  <2> HIDE DEF n, f
  <2>1. /\ frames' \in Seq(Frame) /\ Len(frames') = Len(below) + 1
        /\ Len(below) \in Nat
        /\ \A i \in 1..Len(below) : frames'[i] = below[i]
        /\ frames'[Len(below) + 1].actor_id = id
        /\ frames'[Len(below) + 1].kind = kind
        /\ frames'[Len(below) + 1].slot = slot
        /\ frames'[Len(below) + 1].phase = "body"
        /\ frames'[Len(below) + 1].awaiting = << >>
        /\ frames'[Len(below) + 1].cursor = id
    BY PushShape
  <2>2. QED
    BY <2>1 DEF n, f
<1>2. Orderly(f, asked)
  <2>1. DOMAIN << >> = {}
    OBVIOUS
  <2> HIDE DEF f
  <2>2. QED
    BY <1>1, <2>1 DEF Orderly
<1>3. DisciplineOn(frames', asked, IF f.kind = "restart"
                          THEN restarting \cup {f.actor_id} ELSE restarting)
  <2>1. n = Len(below)
    OBVIOUS
  <2>2. Pushed(below, frames')
    BY <1>1 DEF Pushed, TurnBegins
  <2> HIDE DEF n
  <2>3. /\ frames'[n + 1].kind = "restart" => frames'[n + 1].actor_id \notin restarting
        /\ n # 0 => \/ below[n].phase \in Live
                    \/ /\ below[n].phase = "reply" /\ below[n].kind # "restart"
                       /\ frames'[n + 1].kind = "restart"
                       /\ frames'[n + 1].actor_id = below[n].actor_id
    BY <1>1, <2>1
  <2>4. QED
    BY <1>2, <2>1, <2>2, <2>3, DisciplinePush
<1> HIDE DEF f
<1>4. QED
  BY <1>1, <1>3 DEF StackDiscipline

(* The operations of a body.                                                *)
LEMMA DisciplineBody ==
    TypeOK /\ StackInvariant /\ StackDiscipline /\ Body => StackDiscipline'
<1> SUFFICES ASSUME TypeOK, StackInvariant, StackDiscipline, Body
             PROVE  StackDiscipline'
  OBVIOUS
<1> USE DEF instanceVars, mailVars, slotVars, turnVars
<1>1. frames \in Seq(Frame) /\ DisciplineOn(frames, asked, restarting)
  BY DEF TypeOK, StackDiscipline
<1>2. ASSUME UNCHANGED <<frames, asked, restarting>> PROVE StackDiscipline'
  BY <1>2 DEF StackDiscipline
<1>3. ASSUME NEW policy \in Policies, Spawn(policy) PROVE StackDiscipline'
  <2> DEFINE id == spawned + 1
             new == [supervisor |-> current_actor, policy |-> policy,
                     stopped |-> FALSE, state |-> 1]
             instances == [actor_instances EXCEPT ![id] = new]
  <2>1. id \in Id
    BY <1>3, BoundsAssumption DEF Spawn, TypeOK, Id
  <2>2. new \in Instance
    BY PoliciesAssumption DEF Instance, TypeOK
  <2>3. instances \in [Id -> Instance]
    BY <2>1, <2>2 DEF TypeOK
  <2>4. TurnBegins(id, "init", NoSlot, instances, frames)
        /\ UNCHANGED <<asked, restarting>>
    BY <1>1, <1>3, <2>1, <2>3 DEF Spawn, TurnBegins
  <2>5. /\ Len(frames) \in Nat \ {0} /\ frames[Len(frames)] = Top
        /\ Top.phase \in Live
    BY <1>3, TopIsFrame DEF Spawn, TopIs, Live
  <2> HIDE DEF id, new, instances
  <2>6. QED
    BY <1>1, <2>1, <2>3, <2>4, <2>5, DisciplineTurn
<1>4. ASSUME NEW id \in Known, Tell(id) PROVE StackDiscipline'
  BY <1>2, <1>4 DEF Tell
<1>5. ASSUME NEW id \in Known, Ask(id) PROVE StackDiscipline'
  <2>1. asked' = asked + 1 /\ UNCHANGED <<frames, restarting>> /\ asked \in Nat
    BY <1>5 DEF Ask, TypeOK
  <2>2. QED
    BY <1>1, <2>1, DisciplineMore DEF StackDiscipline
<1>6. ASSUME NEW ss \in Futures, NEW phase \in {"await", "select"}, Wait(phase, ss)
      PROVE  StackDiscipline'
  <2> DEFINE f == [Top EXCEPT !.phase = phase, !.awaiting = ss]
  <2>1. frames # << >> /\ Top \in Frame /\ Top.phase = "body"
    BY <1>6, TopIsFrame DEF Wait, TopIs
  <2>2. f \in Frame /\ ss # << >>
    BY <1>6, <2>1, FuturesType DEF Frame, FrameRecord, Live
  <2>3. \A j \in DOMAIN ss : ss[j] <= asked
    <3> DEFINE held == {s \in 1..asked : <<current_actor, target[s]>> \in Knows}
    <3>1. PICK n \in 1..MaxWait : ss \in [1..n -> held]
      BY DEF Futures
    <3>2. \A s \in held : s <= asked
      BY DEF TypeOK
    <3> HIDE DEF held
    <3>3. QED
      BY <3>1, <3>2
  <2>4. /\ f.actor_id = Top.actor_id /\ f.kind = Top.kind /\ f.slot = Top.slot
        /\ f.cursor = Top.cursor /\ f.phase = phase /\ f.awaiting = ss
    BY <2>1 DEF Frame, FrameRecord
  <2>5. frames' = WithTop(f) /\ UNCHANGED <<asked, restarting>>
    BY <1>6 DEF Wait
  <2> HIDE DEF f
  <2>6. Orderly(f, asked)
    BY <2>1, <2>2, <2>3, <2>4, TopOrderly DEF Orderly
  <2>7. QED
    BY <2>1, <2>2, <2>4, <2>5, <2>6, DisciplineTop
<1>7. ASSUME NEW code, Fail(code) PROVE StackDiscipline'
  BY <1>2, <1>7 DEF Fail
<1>8. SelectNothing \/ EndTurnOnTakenState => StackDiscipline'
  BY <1>7 DEF SelectNothing, EndTurnOnTakenState
<1>9. ASSUME NEW reply \in {"ok", "err"}, EndTurn(reply) PROVE StackDiscipline'
  <2> DEFINE f == [Top EXCEPT !.phase = "ended", !.reply = reply]
  <2>1. frames # << >> /\ Top \in Frame /\ Top.kind # "main" /\ Top.phase = "body"
    BY <1>9, TopIsFrame DEF EndTurn, TopIs
  <2>2. f \in Frame
    BY <2>1 DEF Frame, FrameRecord
  <2>3. /\ f.actor_id = Top.actor_id /\ f.kind = Top.kind /\ f.slot = Top.slot
        /\ f.cursor = Top.cursor /\ f.phase = "ended" /\ f.awaiting = Top.awaiting
    BY <2>1 DEF Frame, FrameRecord
  <2>4. frames' = WithTop(f) /\ UNCHANGED <<asked, restarting>>
    BY <1>9 DEF EndTurn
  <2> HIDE DEF f
  <2>5. Orderly(f, asked)
    BY <2>1, <2>3, TopOrderly DEF Orderly
  <2>6. QED
    BY <2>1, <2>2, <2>3, <2>4, <2>5, DisciplineTop
<1>10. EndMain => StackDiscipline'
  <2> SUFFICES ASSUME EndMain PROVE StackDiscipline'
    OBVIOUS
  <2>1. frames # << >> /\ Top.kind = "main" /\ frames' = << >>
        /\ UNCHANGED <<asked, restarting>>
    BY DEF EndMain, TopIs
  <2>2. DOMAIN frames = {1} /\ frames[1].kind = "main"
    BY <2>1, MainIsAlone
  <2>3. restarting = {}
    BY <1>1, <2>2 DEF DisciplineOn
  <2>4. DOMAIN << >> = {}
    OBVIOUS
  <2>5. QED
    BY <2>1, <2>3, <2>4 DEF StackDiscipline, DisciplineOn
<1>11. ASSUME NEW k \in 0..Len(frames), Throw(k) PROVE StackDiscipline'
  <2>1. CASE k = 0
    BY <1>2, <1>11, <2>1 DEF Throw
  <2>2. CASE k # 0
    <3>1. k \in 1..(Len(frames) - 1)
      BY <1>1, <1>11, <2>2, LenProperties DEF Throw
    <3>2. restarting' = restarting \ UnwoundRestarts(k) /\ UNCHANGED asked
      BY <1>11, <2>2 DEF Throw
    <3>3. Orderly(frames'[k], asked)
      <4>1. k \in DOMAIN frames
        BY <1>1, <3>1, LenProperties
      <4>2. Orderly(frames[k], asked) /\ frames[k].phase \in Live
        BY <1>1, <1>11, <3>1, <4>1, ThrowShape DEF DisciplineOn
      <4>3. /\ frames'[k].actor_id = frames[k].actor_id
            /\ frames'[k].kind = frames[k].kind
            /\ frames'[k].slot = frames[k].slot
            /\ frames'[k].cursor = frames[k].cursor
            /\ frames'[k].phase = "body" /\ frames'[k].awaiting = << >>
        <5>1. k \in 1..k
          BY <3>1
        <5>2. QED
          BY <1>11, <3>1, <5>1, ThrowShape
      <4>4. DOMAIN << >> = {}
        OBVIOUS
      <4>5. QED
        BY <4>2, <4>3, <4>4 DEF Orderly, Live
    <3>4. k \in 1..k
      BY <3>1
    <3>5. DisciplineOn(frames', asked, restarting \ UnwoundRestarts(k))
      BY <1>1, <1>11, <3>1, <3>3, <3>4, ThrowShape, DisciplineUnwind
         DEF UnwoundRestarts
    <3>6. QED
      BY <3>2, <3>5 DEF StackDiscipline
  <2>3. QED
    BY <2>1, <2>2
<1>12. QED
  BY <1>3, <1>4, <1>5, <1>6, <1>8, <1>9, <1>10, <1>11 DEF Body, Await, Select

(* The pump: a turn begins above the innermost waiter, or on the drain's     *)
(* empty stack.                                                            *)
LEMMA DisciplinePump == TypeOK /\ StackDiscipline /\ Pump => StackDiscipline'
<1> SUFFICES ASSUME TypeOK, StackDiscipline, Pump PROVE StackDiscipline'
  OBVIOUS
<1> USE DEF instanceVars, mailVars, slotVars, turnVars
<1>1. frames \in Seq(Frame) /\ DisciplineOn(frames, asked, restarting)
  BY DEF TypeOK, StackDiscipline
<1>2. AwaitTakes => StackDiscipline'
  <2> SUFFICES ASSUME AwaitTakes PROVE StackDiscipline'
    OBVIOUS
  <2> DEFINE rest == Tail(Top.awaiting)
             f == [Top EXCEPT !.phase = IF rest = << >> THEN "body" ELSE "await",
                              !.awaiting = rest]
  <2>1. frames # << >> /\ Top \in Frame /\ Top.phase = "await"
    BY TopIsFrame DEF AwaitTakes, TopIs
  <2>2. Top.awaiting \in Seq(Slot) /\ Top.awaiting # << >>
    BY <2>1 DEF Frame, FrameRecord
  <2>3. /\ rest \in Seq(Slot) /\ Len(Top.awaiting) \in Nat
        /\ \A j \in DOMAIN rest : /\ j + 1 \in DOMAIN Top.awaiting
                                 /\ rest[j] = Top.awaiting[j + 1]
    BY <2>2, HeadTailProperties, LenProperties
  <2>4. f \in Frame
    BY <2>1, AwaitedFrame
  <2>5. /\ f.actor_id = Top.actor_id /\ f.kind = Top.kind /\ f.slot = Top.slot
        /\ f.cursor = Top.cursor /\ f.phase \in {"body", "await"} /\ f.awaiting = rest
    BY <2>1, AwaitedFrame
  <2>6. frames' = WithTop(f) /\ UNCHANGED <<asked, restarting>>
    BY DEF AwaitTakes, TakeReply
  <2> HIDE DEF f, rest
  <2>7. Orderly(f, asked)
    BY <2>1, <2>3, <2>5, TopOrderly DEF Orderly
  <2>8. QED
    BY <2>1, <2>4, <2>5, <2>6, <2>7, DisciplineTop
<1>3. SelectTakes => StackDiscipline'
  <2> SUFFICES ASSUME SelectTakes PROVE StackDiscipline'
    OBVIOUS
  <2> DEFINE f == [Top EXCEPT !.phase = "body", !.awaiting = << >>]
  <2>1. frames # << >> /\ Top \in Frame /\ Top.phase = "select"
    BY TopIsFrame DEF SelectTakes, TopIs
  <2>2. << >> \in Seq(Slot) /\ DOMAIN << >> = {}
    BY EmptySeq
  <2>3. f \in Frame
    BY <2>1, <2>2 DEF Frame, FrameRecord, Live
  <2>4. /\ f.actor_id = Top.actor_id /\ f.kind = Top.kind /\ f.slot = Top.slot
        /\ f.cursor = Top.cursor /\ f.phase = "body" /\ f.awaiting = << >>
    BY <2>1 DEF Frame, FrameRecord
  <2>5. frames' = WithTop(f) /\ UNCHANGED <<asked, restarting>>
    BY DEF SelectTakes, TakeReply
  <2> HIDE DEF f
  <2>6. Orderly(f, asked)
    BY <2>1, <2>2, <2>4, TopOrderly DEF Orderly
  <2>7. QED
    BY <2>1, <2>3, <2>4, <2>5, <2>6, DisciplineTop
<1>4. ASSUME NEW m \in actor_mailbox, Dispatch(m) PROVE StackDiscipline'
  <2>1. m.actor_id \in Id /\ m.reply_slot \in Slot \cup {NoSlot}
    BY DEF TypeOK, Message
  <2>2. /\ TurnBegins(m.actor_id, "turn", m.reply_slot, actor_instances, frames)
        /\ UNCHANGED <<asked, restarting>>
    <3>1. actor_instances \in [Id -> Instance]
      BY DEF TypeOK
    <3>2. QED
      BY <1>1, <1>4, <2>1, <3>1 DEF Dispatch, TurnBegins
  <2>3. Len(frames) # 0 => frames[Len(frames)].phase \in Live
    <3>1. CASE frames = << >>
      BY <3>1
    <3>2. CASE frames # << >>
      BY <1>4, <3>2, TopIsFrame DEF Dispatch, Pumping, TopIs, Live
    <3>3. QED
      BY <3>1, <3>2
  <2>4. QED
    BY <1>1, <2>1, <2>2, <2>3, DisciplineTurn
<1>5. ASSUME NEW code, Fail(code) PROVE StackDiscipline'
  BY <1>5 DEF Fail, StackDiscipline
<1>6. AwaitUnavailable \/ SelectUnavailable \/ Stall \/ DrainEnds => StackDiscipline'
  BY <1>5 DEF AwaitUnavailable, SelectUnavailable, Stall, DrainEnds
<1>7. QED
  BY <1>2, <1>3, <1>4, <1>6 DEF Pump

(* Supervision: a deferred restart begins above the turn it waited for, any  *)
(* other in place of the failed turn, which is supervised above a waiter.    *)
LEMMA DisciplineSupervision ==
    TypeOK /\ StackDiscipline /\ Supervision => StackDiscipline'
<1> SUFFICES ASSUME TypeOK, StackDiscipline, Supervision PROVE StackDiscipline'
  OBVIOUS
<1> USE DEF instanceVars, mailVars, slotVars, turnVars
<1>1. frames \in Seq(Frame) /\ DisciplineOn(frames, asked, restarting)
  BY DEF TypeOK, StackDiscipline
<1>2. ASSUME UNCHANGED <<frames, asked, restarting>> PROVE StackDiscipline'
  BY <1>2 DEF StackDiscipline
<1>3. ASSUME NEW phase \in {"ended", "reply", "supervise"}, TopIs(phase)
      PROVE  /\ frames # << >> /\ Top \in Frame /\ Top.phase = phase
             /\ Top.actor_id \in Id /\ Top.cursor \in Id
             /\ phase = "supervise" => Top.kind = "turn"
  <2>1. frames # << >> /\ Top \in Frame /\ Top.phase = phase /\ Orderly(Top, asked)
    BY <1>3, TopIsFrame, TopOrderly DEF TopIs
  <2>2. QED
    BY <2>1 DEF Frame, FrameRecord, Orderly, Live
<1>4. ASSUME frames # << >>, Top.phase # "supervise", Top \in Frame,
             NEW phase \in {"reply", "supervise"},
             phase = "supervise" => Top.kind = "turn", Top.phase \notin Live
      PROVE  LET f == [Top EXCEPT !.phase = phase]
             IN  /\ f \in Frame /\ f.actor_id = Top.actor_id /\ f.kind = Top.kind
                 /\ f.phase = phase /\ Orderly(f, asked)
  <2> DEFINE f == [Top EXCEPT !.phase = phase]
  <2>1. f \in Frame
    BY <1>4 DEF Frame, FrameRecord
  <2>2. /\ f.actor_id = Top.actor_id /\ f.kind = Top.kind /\ f.slot = Top.slot
        /\ f.cursor = Top.cursor /\ f.phase = phase /\ f.awaiting = Top.awaiting
    BY <1>4 DEF Frame, FrameRecord
  <2> HIDE DEF f
  <2>3. Orderly(f, asked)
    BY <1>4, <2>2, TopOrderly DEF Orderly
  <2>4. QED
    BY <2>1, <2>2, <2>3 DEF f
<1>5. NoDeferred \/ DeferredStop => StackDiscipline'
  <2> SUFFICES ASSUME NoDeferred \/ DeferredStop PROVE StackDiscipline'
    OBVIOUS
  <2> DEFINE f == [Top EXCEPT !.phase = "reply"]
  <2>1. TopIs("ended") /\ frames' = WithTop(f) /\ UNCHANGED <<asked, restarting>>
    BY DEF NoDeferred, DeferredStop
  <2>2. /\ f \in Frame /\ f.actor_id = Top.actor_id /\ f.kind = Top.kind
        /\ Orderly(f, asked) /\ frames # << >>
    BY <1>3, <1>4, <2>1 DEF Live
  <2> HIDE DEF f
  <2>3. QED
    BY <2>1, <2>2, DisciplineTop
<1>6. DeferredRestart => StackDiscipline'
  <2> SUFFICES ASSUME DeferredRestart PROVE StackDiscipline'
    OBVIOUS
  <2> DEFINE f == [Top EXCEPT !.phase = "reply"]
             id == Top.actor_id
             instances == [actor_instances EXCEPT ![id].state = incarnation[id] + 1]
             below == WithTop(f)
  <2>1. /\ TopIs("ended") /\ RestartActor(id, below) /\ UNCHANGED asked
    BY DEF DeferredRestart
  <2>2. /\ f \in Frame /\ f.actor_id = id /\ f.kind = Top.kind /\ f.phase = "reply"
        /\ Orderly(f, asked) /\ frames # << >> /\ id \in Id
    BY <1>3, <1>4, <2>1 DEF Live
  <2>3. instances \in [Id -> Instance]
    <3>1. incarnation[id] + 1 \in Nat /\ actor_instances \in [Id -> Instance]
      BY <2>2 DEF TypeOK
    <3>2. QED
      BY <3>1, StateType
  <2>4. /\ BeginTurn(id, "restart", NoSlot, instances, below)
        /\ id \notin restarting /\ restarting' = restarting \cup {id}
    BY <2>1 DEF RestartActor
  <2>5. Top.kind # "restart"
    BY <2>2, <2>4, TopOrderly
  <2> HIDE DEF f, instances
  <2>6. /\ below \in Seq(Frame) /\ Len(below) = Len(frames) /\ Len(frames) \in Nat \ {0}
        /\ below[Len(below)] = f /\ Top = frames[Len(frames)]
        /\ \A i \in 1..(Len(frames) - 1) : below[i] = frames[i]
    BY <2>2, TopIsFrame
  <2>7. DisciplineOn(below, asked, restarting)
    <3> HIDE DEF below
    <3>1. QED
      BY <1>1, <2>2, <2>6, DisciplineRetop
  <2> HIDE DEF below
  <2>8. TurnBegins(id, "restart", NoSlot, instances, below)
    BY <2>2, <2>3, <2>4, <2>6 DEF TurnBegins
  <2>9. QED
    BY <2>1, <2>2, <2>4, <2>5, <2>6, <2>7, <2>8, DisciplineTurn
<1>7. DeferredRestartLoops \/ EscalatedToUnsupervised => StackDiscipline'
  BY <1>2 DEF DeferredRestartLoops, EscalatedToUnsupervised, Fail
<1>8. ASSUME frames # << >>, frames' = Popped, UNCHANGED asked,
             restarting' = IF Top.kind = "restart"
                           THEN restarting \ {Top.actor_id} ELSE restarting
      PROVE  StackDiscipline'
  BY <1>8, DisciplinePopped DEF StackDiscipline
<1>9. SpawnReturns \/ RestartReturns => StackDiscipline'
  BY <1>8 DEF SpawnReturns, RestartReturns, TopIs
<1>10. PublishReply => StackDiscipline'
  <2> SUFFICES ASSUME PublishReply PROVE StackDiscipline'
    OBVIOUS
  <2>1. TopIs("reply") /\ Top.kind = "turn" /\ UNCHANGED <<asked, restarting>>
    BY DEF PublishReply
  <2>2. frames # << >> /\ Top \in Frame /\ Top.phase = "reply"
    BY <1>3, <2>1
  <2>3. CASE Top.reply = "err"
    <3> DEFINE f == [Top EXCEPT !.phase = "supervise"]
    <3>1. /\ f \in Frame /\ f.actor_id = Top.actor_id /\ f.kind = Top.kind
          /\ Orderly(f, asked)
      BY <1>4, <2>1, <2>2 DEF Live
    <3>2. frames' = WithTop(f)
      BY <2>3 DEF PublishReply
    <3> HIDE DEF f
    <3>3. QED
      BY <2>1, <2>2, <3>1, <3>2, DisciplineTop
  <2>4. CASE Top.reply # "err"
    BY <1>8, <2>1, <2>2, <2>4 DEF PublishReply
  <2>5. QED
    BY <2>3, <2>4
<1>11. Unsupervised \/ SuperviseStop \/ SuperviseRestartDeferred => StackDiscipline'
  <2> SUFFICES ASSUME Unsupervised \/ SuperviseStop \/ SuperviseRestartDeferred
               PROVE  StackDiscipline'
    OBVIOUS
  <2>1. TopIs("supervise") /\ frames' = Popped /\ UNCHANGED <<asked, restarting>>
    BY DEF Unsupervised, SuperviseStop, SuperviseRestartDeferred
  <2>2. frames # << >> /\ Top.kind = "turn"
    BY <1>3, <2>1
  <2>3. QED
    BY <1>8, <2>1, <2>2
<1>12. SuperviseRestart => StackDiscipline'
  <2> SUFFICES ASSUME SuperviseRestart PROVE StackDiscipline'
    OBVIOUS
  <2> DEFINE id == Top.cursor
             instances == [actor_instances EXCEPT ![id].state = incarnation[id] + 1]
  <2>1. TopIs("supervise") /\ RestartActor(id, Popped) /\ UNCHANGED asked
    BY DEF SuperviseRestart
  <2>2. id \in Id /\ frames # << >> /\ Top.kind = "turn"
    BY <1>3, <2>1
  <2>3. instances \in [Id -> Instance]
    <3>1. incarnation[id] + 1 \in Nat /\ actor_instances \in [Id -> Instance]
      BY <2>2 DEF TypeOK
    <3>2. QED
      BY <3>1, StateType
  <2>4. /\ BeginTurn(id, "restart", NoSlot, instances, Popped)
        /\ id \notin restarting /\ restarting' = restarting \cup {id}
    BY <2>1 DEF RestartActor
  <2> HIDE DEF instances
  <2>5. /\ Popped \in Seq(Frame) /\ Len(Popped) = Len(frames) - 1
        /\ Len(frames) \in Nat \ {0} /\ Top = frames[Len(frames)]
        /\ \A i \in 1..(Len(frames) - 1) : Popped[i] = frames[i]
    BY <2>2, TopIsFrame
  <2>6. DisciplineOn(Popped, asked, restarting)
    BY <2>2, DisciplinePopped
  <2>7. Len(Popped) # 0 => Popped[Len(Popped)].phase \in Live
    <3> DEFINE n == Len(frames) - 1
    <3>1. SUFFICES ASSUME n # 0 PROVE frames[n].phase \in Live
      BY <2>5
    <3>2. n \in DOMAIN frames /\ n < Len(frames) /\ n + 1 = Len(frames)
      BY <1>1, <2>5, <3>1, LenProperties
    <3>3. Beneath(frames, n)
      BY <1>1, <3>2 DEF DisciplineOn
    <3> HIDE DEF n
    <3>4. QED
      BY <2>2, <2>5, <3>2, <3>3 DEF Beneath
  <2>8. TurnBegins(id, "restart", NoSlot, instances, Popped)
    BY <2>2, <2>3, <2>4, <2>5 DEF TurnBegins
  <2>9. QED
    BY <2>1, <2>2, <2>4, <2>5, <2>6, <2>7, <2>8, DisciplineTurn
<1>13. Escalate => StackDiscipline'
  <2> SUFFICES ASSUME Escalate PROVE StackDiscipline'
    OBVIOUS
  <2> DEFINE supervisor == actor_instances[Top.cursor].supervisor
             f == [Top EXCEPT !.cursor = supervisor]
  <2>1. TopIs("supervise") /\ UNCHANGED <<asked, restarting>>
        /\ (supervisor = Main => UNCHANGED frames)
        /\ (supervisor # Main => frames' = WithTop(f))
    BY DEF Escalate
  <2>2. /\ frames # << >> /\ Top \in Frame /\ Top.phase = "supervise"
        /\ Top.cursor \in Id /\ Top.kind = "turn"
    BY <1>3, <2>1
  <2>3. CASE supervisor # Main
    <3>1. supervisor \in Id
      BY <2>2, <2>3 DEF TypeOK, Instance
    <3>2. f \in Frame
      BY <2>2, <3>1 DEF Frame, FrameRecord, Live, Id, Main
    <3>3. /\ f.actor_id = Top.actor_id /\ f.kind = Top.kind /\ f.slot = Top.slot
          /\ f.phase = "supervise" /\ f.awaiting = Top.awaiting
      BY <2>2 DEF Frame, FrameRecord
    <3> HIDE DEF f
    <3>4. Orderly(f, asked)
      BY <2>2, <3>3, TopOrderly DEF Orderly
    <3>5. QED
      BY <2>1, <2>2, <2>3, <3>2, <3>3, <3>4, DisciplineTop
  <2>4. QED
    BY <1>2, <2>1, <2>3
<1>14. QED
  BY <1>5, <1>6, <1>7, <1>9, <1>10, <1>11, <1>12, <1>13 DEF Supervision

(* The discipline of the scheduler's stack, however turns nest, fail, unwind *)
(* and restart: a finished turn stays on it only below its own deferred       *)
(* restart, and nobody's init is re-run twice at once.                      *)
THEOREM DisciplineCorrect == Spec => []StackDiscipline
<1>1. Init => StackDiscipline
  <2> SUFFICES ASSUME Init PROVE StackDiscipline
    OBVIOUS
  <2>1. /\ Len(frames) = 1 /\ DOMAIN frames = {1} /\ DOMAIN << >> = {}
        /\ frames[1] = NewFrame(Main, "main", NoSlot) /\ restarting = {}
    BY DEF Init
  <2>2. QED
    BY <2>1 DEF StackDiscipline, DisciplineOn, Beneath, Orderly, NewFrame
<1>2. TypeOK /\ StackInvariant /\ StackDiscipline /\ [Next]_vars => StackDiscipline'
  <2> SUFFICES ASSUME TypeOK, StackInvariant, StackDiscipline, [Next]_vars
               PROVE  StackDiscipline'
    OBVIOUS
  <2>1. CASE Body
    BY <2>1, DisciplineBody
  <2>2. CASE Pump
    BY <2>2, DisciplinePump
  <2>3. CASE Supervision
    BY <2>3, DisciplineSupervision
  <2>4. CASE UNCHANGED vars
    BY <2>4 DEF StackDiscipline, vars, slotVars, turnVars
  <2>5. QED
    BY <2>1, <2>2, <2>3, <2>4 DEF Next, Ended
<1>3. QED
  BY <1>1, <1>2, TypeCorrect, StackCorrect, PTL DEF Spec

-----------------------------------------------------------------------------
(* Deferred actions.                                                       *)

(* A deferred action waits for a turn on the stack, or for the one that has  *)
(* just ended.                                                             *)
JustEnded(id) == frames # << >> /\ Top.phase = "ended" /\ Top.actor_id = id
ActionsAreDue ==
    throws = 0 => \A id \in Id : pending_supervision[id] # "none" =>
                     id \in busy_actors \/ JustEnded(id)

(* A step that defers only for a busy actor, and ends no turn without either *)
(* leaving it on top or settling its action.                                *)
LEMMA DueKept ==
    ASSUME ActionsAreDue, throws' = 0 => throws = 0,
           \A id \in Id : pending_supervision'[id] # "none" =>
               \/ id \in busy_actors'
               \/ /\ pending_supervision[id] # "none"
                  /\ id \in busy_actors => JustEnded(id)'
                  /\ JustEnded(id) => JustEnded(id)'
    PROVE  ActionsAreDue'
BY DEF ActionsAreDue

(* The operations of a body.                                                *)
LEMMA DueBody == TypeOK /\ ActionsAreDue /\ Body => ActionsAreDue'
<1> SUFFICES ASSUME TypeOK, ActionsAreDue, Body PROVE ActionsAreDue'
  OBVIOUS
<1> USE DEF instanceVars, mailVars, slotVars, turnVars
<1>1. ASSUME TopIs("body"), busy_actors \subseteq busy_actors',
             UNCHANGED <<pending_supervision, throws>>
      PROVE  ActionsAreDue'
  <2>1. \A id : ~ JustEnded(id)
    BY <1>1 DEF JustEnded, TopIs
  <2>2. QED
    BY <1>1, <2>1, DueKept
<1>2. ASSUME NEW policy \in Policies, Spawn(policy) PROVE ActionsAreDue'
  BY <1>1, <1>2 DEF Spawn, BeginTurn
<1>3. ASSUME NEW id \in Known, Tell(id) \/ Ask(id) PROVE ActionsAreDue'
  BY <1>1, <1>3 DEF Tell, Ask
<1>4. ASSUME NEW ss \in Futures, NEW phase, Wait(phase, ss) PROVE ActionsAreDue'
  BY <1>1, <1>4 DEF Wait
<1>5. SelectNothing \/ EndTurnOnTakenState \/ EndMain => ActionsAreDue'
  BY <1>1 DEF SelectNothing, EndTurnOnTakenState, EndMain, Fail
<1>6. ASSUME NEW reply \in {"ok", "err"}, EndTurn(reply) PROVE ActionsAreDue'
  <2> DEFINE f == [Top EXCEPT !.phase = "ended", !.reply = reply]
  <2>1. frames # << >> /\ Top \in Frame /\ Top.kind # "main" /\ Top.phase = "body"
    BY <1>6, TopIsFrame DEF EndTurn, TopIs
  <2>2. f \in Frame /\ f.phase = "ended" /\ f.actor_id = Top.actor_id
    BY <2>1 DEF Frame, FrameRecord
  <2>3. frames' = WithTop(f) /\ busy_actors' = busy_actors \ {Top.actor_id}
        /\ UNCHANGED <<pending_supervision, throws>>
    BY <1>6 DEF EndTurn
  <2> HIDE DEF f
  <2>4. frames' # << >> /\ Top' = f
    <3>1. /\ frames' \in Seq(Frame) /\ Len(frames') = Len(frames)
          /\ Len(frames) \in Nat \ {0} /\ frames'[Len(frames)] = f
      BY <2>1, <2>2, <2>3, TopIsFrame
    <3>2. frames' # << >>
      BY <3>1
    <3>3. QED
      BY <3>1, <3>2, StackOps DEF Top
  <2>5. ASSUME NEW id, id = Top.actor_id PROVE JustEnded(id)'
    BY <2>2, <2>4, <2>5 DEF JustEnded
  <2>6. \A id : ~ JustEnded(id)
    BY <2>1 DEF JustEnded
  <2>7. ASSUME NEW id \in Id, throws = 0, pending_supervision[id] # "none"
        PROVE  id \in busy_actors' \/ JustEnded(id)'
    <3>1. id \in busy_actors
      BY <2>6, <2>7 DEF ActionsAreDue
    <3>2. CASE id = Top.actor_id
      BY <2>5, <3>2
    <3>3. QED
      BY <2>3, <3>1, <3>2
  <2>8. QED
    BY <2>3, <2>7 DEF ActionsAreDue
<1>7. ASSUME NEW k \in 0..Len(frames), Throw(k) PROVE ActionsAreDue'
  BY <1>7 DEF Throw, TypeOK, ActionsAreDue
<1>8. QED
  BY <1>2, <1>3, <1>4, <1>5, <1>6, <1>7 DEF Body, Await, Select

(* The pump.                                                               *)
LEMMA DuePump == TypeOK /\ ActionsAreDue /\ Pump => ActionsAreDue'
<1> SUFFICES ASSUME TypeOK, ActionsAreDue, Pump PROVE ActionsAreDue'
  OBVIOUS
<1> USE DEF instanceVars, mailVars, slotVars, turnVars
<1>1. Pumping \/ TopIs("await") \/ TopIs("select")
  BY DEF Pump, AwaitTakes, AwaitUnavailable, SelectTakes, SelectUnavailable,
         Dispatch, Stall, DrainEnds
<1>2. \A id : ~ JustEnded(id)
  BY <1>1 DEF Pumping, TopIs, JustEnded
<1>3. busy_actors \subseteq busy_actors' /\ UNCHANGED <<pending_supervision, throws>>
  <2>1. ASSUME NEW m \in actor_mailbox, Dispatch(m)
        PROVE  busy_actors \subseteq busy_actors'
               /\ UNCHANGED <<pending_supervision, throws>>
    BY <2>1 DEF Dispatch, BeginTurn
  <2>2. QED
    BY <2>1 DEF Pump, AwaitTakes, AwaitUnavailable, SelectTakes, SelectUnavailable,
                Stall, DrainEnds, TakeReply, Fail
<1>4. QED
  BY <1>2, <1>3, DueKept

(* Supervision: the end of a turn settles its actor's action, and only the   *)
(* action of a busy actor is deferred.                                      *)
LEMMA DueSupervision == TypeOK /\ ActionsAreDue /\ Supervision => ActionsAreDue'
<1> SUFFICES ASSUME TypeOK, ActionsAreDue, Supervision PROVE ActionsAreDue'
  OBVIOUS
<1> USE DEF instanceVars, mailVars, slotVars, turnVars
<1>1. ASSUME TopIs("ended"), pending_supervision'[Top.actor_id] = "none",
             busy_actors \subseteq busy_actors', UNCHANGED throws,
             \A id \in Id : pending_supervision'[id] \in {pending_supervision[id], "none"}
      PROVE  ActionsAreDue'
  <2>1. \A id : JustEnded(id) => id = Top.actor_id
    BY DEF JustEnded
  <2>2. QED
    BY <1>1, <2>1 DEF ActionsAreDue
<1>2. ASSUME TopIs("ended")
      PROVE  /\ Top.actor_id \in Id
             /\ ClearPending(Top.actor_id) =>
                  /\ pending_supervision'[Top.actor_id] = "none"
                  /\ \A id \in Id : pending_supervision'[id]
                                      \in {pending_supervision[id], "none"}
  <2>1. Top \in Frame /\ Top.phase = "ended"
    BY <1>2, TopIsFrame DEF TopIs
  <2>2. Top.actor_id \in Id
    BY <2>1 DEF Frame, FrameRecord, Live
  <2>3. QED
    BY <2>2 DEF ClearPending, TypeOK
<1>3. NoDeferred => ActionsAreDue'
  BY <1>1 DEF NoDeferred
<1>4. DeferredStop => ActionsAreDue'
  BY <1>1, <1>2 DEF DeferredStop
<1>5. DeferredRestart => ActionsAreDue'
  BY <1>1, <1>2 DEF DeferredRestart, RestartActor, BeginTurn
<1>6. DeferredRestartLoops \/ EscalatedToUnsupervised => ActionsAreDue'
  BY DEF DeferredRestartLoops, EscalatedToUnsupervised, Fail, ActionsAreDue, JustEnded, Top
<1>7. ASSUME TopIs("reply") \/ TopIs("supervise"), busy_actors \subseteq busy_actors',
             UNCHANGED throws,
             \A id \in Id : pending_supervision'[id] # "none" =>
                 pending_supervision[id] # "none" \/ id \in busy_actors
      PROVE  ActionsAreDue'
  <2>1. \A id : ~ JustEnded(id)
    BY <1>7 DEF JustEnded, TopIs
  <2>2. QED
    BY <1>7, <2>1 DEF ActionsAreDue
<1>8. SpawnReturns \/ RestartReturns \/ PublishReply \/ Unsupervised => ActionsAreDue'
  BY <1>7 DEF SpawnReturns, RestartReturns, PublishReply, Unsupervised
<1>9. ASSUME NEW id, NEW action, Defer(id, action), NEW i \in Id,
             pending_supervision'[i] # "none"
      PROVE  pending_supervision[i] # "none" \/ i \in busy_actors
  BY <1>9 DEF Defer, MidTurn, TypeOK
<1>10. SuperviseRestartDeferred => ActionsAreDue'
  BY <1>7, <1>9 DEF SuperviseRestartDeferred
<1>11. ASSUME NEW id, StopOrDefer(id), NEW i \in Id, pending_supervision'[i] # "none"
       PROVE  pending_supervision[i] # "none" \/ i \in busy_actors
  BY <1>9, <1>11 DEF StopOrDefer
<1>12. SuperviseStop \/ Escalate => ActionsAreDue'
  BY <1>7, <1>11 DEF SuperviseStop, Escalate
<1>13. SuperviseRestart => ActionsAreDue'
  BY <1>7 DEF SuperviseRestart, RestartActor, BeginTurn
<1>14. QED
  BY <1>3, <1>4, <1>5, <1>6, <1>8, <1>10, <1>12, <1>13 DEF Supervision

(* Until an error is thrown, a deferred action waits for a turn on the stack. *)
LEMMA DueCorrect == Spec => []ActionsAreDue
<1>1. Init => ActionsAreDue
  BY DEF Init, ActionsAreDue
<1>2. TypeOK /\ ActionsAreDue /\ [Next]_vars => ActionsAreDue'
  <2> SUFFICES ASSUME TypeOK, ActionsAreDue, [Next]_vars PROVE ActionsAreDue'
    OBVIOUS
  <2>1. CASE Body
    BY <2>1, DueBody
  <2>2. CASE Pump
    BY <2>2, DuePump
  <2>3. CASE Supervision
    BY <2>3, DueSupervision
  <2>4. CASE UNCHANGED vars
    BY <2>4 DEF ActionsAreDue, JustEnded, Top, vars, turnVars
  <2>5. QED
    BY <2>1, <2>2, <2>3, <2>4 DEF Next, Ended
<1>3. QED
  BY <1>1, <1>2, TypeCorrect, PTL DEF Spec

(* An action is deferred only while a turn that will apply it is on the       *)
(* stack, or has just ended, and is the one the actor's policy resolves to:   *)
(* a failure is never filed where nobody will look for it.                  *)
THEOREM DeferredActionsCorrect == Spec => []DeferredActionsAgree
<1>1. TypeOK /\ ActionsAreDue /\ PoliciesAgree => DeferredActionsAgree
  <2> SUFFICES ASSUME TypeOK, ActionsAreDue, PoliciesAgree, NEW id \in Id,
                      pending_supervision[id] # "none"
               PROVE  /\ actor_instances[id].policy =
                           IF pending_supervision[id] = "Restart" THEN "Restart"
                           ELSE actor_instances[id].policy
                      /\ pending_supervision[id] = "Stop" =>
                           actor_instances[id].policy \in {"Stop", "Escalate"}
                      /\ throws = 0 =>
                           \/ id \in busy_actors
                           \/ \E i \in DOMAIN frames : /\ frames[i].phase = "ended"
                                                       /\ frames[i].actor_id = id
    BY DEF DeferredActionsAgree
  <2>1. JustEnded(id) => \E i \in DOMAIN frames : /\ frames[i].phase = "ended"
                                                 /\ frames[i].actor_id = id
    <3> SUFFICES ASSUME JustEnded(id)
                 PROVE  \E i \in DOMAIN frames : /\ frames[i].phase = "ended"
                                                /\ frames[i].actor_id = id
      OBVIOUS
    <3>1. Len(frames) \in DOMAIN frames /\ Top = frames[Len(frames)]
      BY TopIsFrame, LenProperties DEF JustEnded, TypeOK
    <3>2. QED
      BY <3>1 DEF JustEnded
  <2>2. QED
    BY <2>1 DEF ActionsAreDue, PoliciesAgree
<1>2. QED
  BY <1>1, TypeCorrect, DueCorrect, SilentCorrect, PTL

-----------------------------------------------------------------------------
(* No turn outlives a restart of its actor.                                *)

(* A live frame's actor is busy, or main.                                   *)
LEMMA LiveIsBusy ==
    ASSUME NEW F, NEW busy, NEW current, StackOK(F, busy, current),
           NEW i \in DOMAIN F, F[i].phase \in Live
    PROVE  F[i].actor_id \in busy \cup {Main}
BY DEF StackOK

(* A step in which no turn begins or ends and no state moves.               *)
LEMMA FreshKept ==
    ASSUME NoStaleState, UNCHANGED <<spawned, incarnation, busy_actors>>,
           throws' = 0 => throws = 0,
           \A id \in 1..spawned : actor_instances'[id].state = actor_instances[id].state,
           \A i \in DOMAIN frames' : frames'[i].phase \in Live =>
               /\ i \in DOMAIN frames /\ frames[i].phase \in Live
               /\ frames'[i].kind = frames[i].kind /\ frames'[i].env = frames[i].env
               /\ frames'[i].actor_id = frames[i].actor_id
    PROVE  NoStaleState'
BY DEF NoStaleState, LiveFrames

(* A step that moves the top frame on, or pops it, without ending a turn.    *)
LEMMA FreshTop ==
    ASSUME TypeOK, NoStaleState, frames # << >>, NEW f \in Frame,
           UNCHANGED <<spawned, incarnation, busy_actors, throws>>,
           \A id \in 1..spawned : actor_instances'[id].state = actor_instances[id].state,
           f.phase \in Live => Top.phase \in Live,
           f.kind = Top.kind, f.env = Top.env, f.actor_id = Top.actor_id,
           frames' = WithTop(f) \/ frames' = Popped
    PROVE  NoStaleState'
<1>1. /\ DOMAIN frames = 1..Len(frames) /\ Len(frames) \in Nat \ {0}
      /\ Top = frames[Len(frames)]
  BY TopIsFrame, LenProperties DEF TypeOK
<1>2. CASE frames' = WithTop(f)
  <2>1. /\ DOMAIN frames' = 1..Len(frames)
        /\ \A i \in 1..Len(frames) : frames'[i] = IF i = Len(frames) THEN f ELSE frames[i]
    BY <1>2, TopIsFrame, LenProperties
  <2>2. QED
    BY <1>1, <2>1, FreshKept
<1>3. CASE frames' = Popped
  <2>1. /\ DOMAIN frames' = 1..(Len(frames) - 1)
        /\ \A i \in 1..(Len(frames) - 1) : frames'[i] = frames[i]
    BY <1>3, TopIsFrame, LenProperties
  <2>2. QED
    BY <1>1, <2>1, FreshKept
<1>4. QED
  BY <1>2, <1>3

(* A turn begins on the state of the actor's latest incarnation.            *)
LEMMA FreshTurn ==
    ASSUME TypeOK, NoStaleState, NEW id, NEW kind, NEW slot, NEW instances, NEW below,
           TurnBegins(id, kind, slot, instances, below), UNCHANGED throws,
           StackOK(below, busy_actors, current_actor), id \notin busy_actors,
           \A i \in 1..Len(below) : below[i].phase \in Live =>
               i \in DOMAIN frames /\ below[i] = frames[i],
           \A i \in 1..spawned' : i # id => i \in 1..spawned,
           throws = 0 => incarnation'[id] = instances[id].state,
           \A i \in 1..spawned : i # id => /\ incarnation'[i] = incarnation[i]
                                          /\ instances[i].state = actor_instances[i].state,
           \A i \in 1..Len(below) : below[i].phase \in Live => below[i].actor_id <= spawned
    PROVE  NoStaleState'
<1> SUFFICES ASSUME throws = 0 PROVE NoStaleState'
  BY DEF NoStaleState
<1>1. id \in Id /\ instances \in [Id -> Instance] /\ below \in Seq(Frame)
      /\ BeginTurn(id, kind, slot, instances, below)
  BY DEF TurnBegins
<1> DEFINE n == Len(below)
<1>2. /\ n \in Nat /\ DOMAIN frames' = 1..(n + 1)
      /\ \A i \in 1..n : frames'[i] = below[i]
      /\ frames'[n + 1].actor_id = id /\ frames'[n + 1].env = instances[id].state
  <2>1. /\ frames' \in Seq(Frame) /\ Len(frames') = Len(below) + 1
        /\ Len(below) \in Nat
        /\ \A i \in 1..Len(below) : frames'[i] = below[i]
        /\ frames'[Len(below) + 1].actor_id = id
        /\ frames'[Len(below) + 1].env = instances[id].state
    BY PushShape
  <2>2. QED
    BY <2>1, LenProperties
<1> HIDE DEF n
<1>3. \A i \in 1..n : i \in DOMAIN below
  BY <1>1, LenProperties DEF n
<1>4. /\ busy_actors' = busy_actors \cup {id}
      /\ actor_instances' = [instances EXCEPT ![id].state = Taken]
  BY <1>1 DEF BeginTurn
<1>5. ASSUME NEW i \in (1..spawned') \ busy_actors'
      PROVE  actor_instances'[i].state = incarnation'[i]
  <2>1. i \notin busy_actors /\ i # id
    BY <1>4, <1>5
  <2>2. i \in 1..spawned /\ i \in Id
    <3>1. spawned \in 0..MaxActors
      BY DEF TypeOK
    <3>2. i \in 1..spawned
      BY <1>5, <2>1
    <3>3. QED
      BY BoundsAssumption, <3>1, <3>2 DEF Id
  <2>3. actor_instances'[i].state = instances[i].state
    BY <1>1, <1>4, <2>1, <2>2
  <2>4. QED
    BY <2>1, <2>2, <2>3 DEF NoStaleState
<1>6. ASSUME NEW i \in LiveFrames', frames'[i].kind # "main"
      PROVE  frames'[i].env = incarnation'[frames'[i].actor_id]
  <2>1. i \in 1..(n + 1) /\ frames'[i].phase \in Live
    BY <1>2, <1>6 DEF LiveFrames
  <2>2. CASE i = n + 1
    BY <1>2, <2>2
  <2>3. CASE i # n + 1
    <3>1. i \in 1..n
      BY <1>2, <2>1, <2>3
    <3>2. /\ frames'[i] = below[i] /\ below[i] = frames[i] /\ i \in LiveFrames
          /\ below[i].actor_id \in busy_actors \cup {Main}
          /\ below[i].actor_id <= spawned
      BY <1>2, <1>3, <2>1, <3>1, LiveIsBusy DEF LiveFrames, n
    <3>3. below[i] \in Frame
      BY <1>1, <1>3, <3>1, LenProperties, ElementOfSeq DEF n
    <3>4. below[i].actor_id \in 1..spawned
      BY <1>6, <3>2, <3>3 DEF Frame, FrameRecord, Id, Main
    <3>5. below[i].actor_id # id
      BY <3>2, <3>4 DEF Main
    <3>6. frames[i].env = incarnation[frames[i].actor_id]
      BY <1>6, <3>2 DEF NoStaleState
    <3>7. QED
      BY <3>2, <3>4, <3>5, <3>6
  <2>4. QED
    BY <2>2, <2>3
<1>7. QED
  BY <1>5, <1>6 DEF NoStaleState

(* A restart hands the actor's next turn a state that is new.               *)
LEMMA FreshRestart ==
    ASSUME TypeOK, NoStaleState, NEW id \in Id, NEW below \in Seq(Frame),
           RestartActor(id, below), UNCHANGED <<throws, spawned>>,
           StackOK(below, busy_actors, current_actor), id \notin busy_actors,
           id <= spawned,
           \A i \in 1..Len(below) : below[i].phase \in Live =>
               /\ i \in DOMAIN frames /\ below[i] = frames[i]
               /\ below[i].actor_id <= spawned
    PROVE  NoStaleState'
<1> DEFINE instances == [actor_instances EXCEPT ![id].state = incarnation[id] + 1]
<1>1. incarnation[id] + 1 \in Nat /\ actor_instances \in [Id -> Instance]
      /\ incarnation \in [Id -> Nat] /\ spawned \in 0..MaxActors
  BY DEF TypeOK
<1>2. instances \in [Id -> Instance]
  BY <1>1, StateType
<1>3. BeginTurn(id, "restart", NoSlot, instances, below)
      /\ incarnation' = [incarnation EXCEPT ![id] = @ + 1]
  BY DEF RestartActor
<1>4. instances[id].state = incarnation[id] + 1 /\ incarnation'[id] = incarnation[id] + 1
  BY <1>1, <1>3 DEF Instance
<1>5. \A i \in 1..spawned : i # id => /\ incarnation'[i] = incarnation[i]
                                     /\ instances[i].state = actor_instances[i].state
  BY <1>1, <1>3 DEF Id
<1>6. \A i \in 1..spawned' : i # id => i \in 1..spawned
  OBVIOUS
<1> HIDE DEF instances
<1>7. TurnBegins(id, "restart", NoSlot, instances, below)
  BY <1>2, <1>3 DEF TurnBegins
<1>8. QED
  BY <1>4, <1>5, <1>6, <1>7, FreshTurn

(* The operations of a body.                                                *)
LEMMA FreshBody == TypeOK /\ StackInvariant /\ NoStaleState /\ Body => NoStaleState'
<1> SUFFICES ASSUME TypeOK, StackInvariant, NoStaleState, Body PROVE NoStaleState'
  OBVIOUS
<1> USE DEF instanceVars, mailVars, slotVars, turnVars
<1>1. /\ frames \in Seq(Frame) /\ StackOK(frames, busy_actors, current_actor)
      /\ DOMAIN frames = 1..Len(frames)
  BY LenProperties DEF TypeOK, StackInvariant
<1>2. ASSUME UNCHANGED <<instanceVars, busy_actors, frames, throws>> PROVE NoStaleState'
  BY <1>2 DEF NoStaleState, LiveFrames
<1>3. ASSUME NEW policy \in Policies, Spawn(policy) PROVE NoStaleState'
  <2> DEFINE id == spawned + 1
             new == [supervisor |-> current_actor, policy |-> policy,
                     stopped |-> FALSE, state |-> 1]
             instances == [actor_instances EXCEPT ![id] = new]
  <2>1. id \in Id /\ spawned \in Nat
    BY <1>3, BoundsAssumption DEF Spawn, TypeOK, Id
  <2>2. new \in Instance
    BY PoliciesAssumption DEF Instance, TypeOK
  <2>3. instances \in [Id -> Instance]
    BY <2>1, <2>2 DEF TypeOK
  <2>4. id \notin busy_actors
    <3>1. \A i \in DOMAIN frames : frames[i].actor_id <= spawned
      BY DEF StackInvariant, OnlySpawnedNamed
    <3>2. \A a \in busy_actors : a <= spawned
      BY <1>1, <3>1 DEF StackOK
    <3>3. QED
      BY <2>1, <3>2
  <2>5. TurnBegins(id, "init", NoSlot, instances, frames)
        /\ spawned' = id /\ UNCHANGED throws
        /\ incarnation' = [incarnation EXCEPT ![id] = 1]
    BY <1>1, <1>3, <2>1, <2>3 DEF Spawn, TurnBegins
  <2>6. incarnation'[id] = instances[id].state
    BY <2>1, <2>5 DEF TypeOK
  <2>7. \A i \in 1..spawned : /\ incarnation'[i] = incarnation[i]
                             /\ instances[i].state = actor_instances[i].state
    <3>1. \A i \in 1..spawned : i \in Id /\ i # id
      BY <2>1, BoundsAssumption DEF TypeOK, Id
    <3>2. incarnation \in [Id -> Nat] /\ actor_instances \in [Id -> Instance]
      BY DEF TypeOK
    <3>3. QED
      BY <2>5, <3>1, <3>2
  <2>8. \A i \in 1..spawned' : i # id => i \in 1..spawned
    BY <2>1, <2>5
  <2>9. \A i \in 1..Len(frames) : frames[i].actor_id <= spawned
    BY <1>1 DEF StackInvariant, OnlySpawnedNamed
  <2> HIDE DEF id, instances
  <2>10. QED
    BY <1>1, <2>4, <2>5, <2>6, <2>7, <2>8, <2>9, FreshTurn
<1>4. ASSUME NEW id \in Known, Tell(id) \/ Ask(id) PROVE NoStaleState'
  BY <1>2, <1>4 DEF Tell, Ask
<1>5. ASSUME NEW ss \in Futures, NEW phase \in {"await", "select"}, Wait(phase, ss)
      PROVE  NoStaleState'
  <2> DEFINE f == [Top EXCEPT !.phase = phase, !.awaiting = ss]
  <2>1. frames # << >> /\ Top \in Frame /\ Top.phase = "body"
    BY <1>5, TopIsFrame DEF Wait, TopIs
  <2>2. f \in Frame
    BY <1>5, <2>1, FuturesType DEF Frame, FrameRecord, Live
  <2>3. f.actor_id = Top.actor_id /\ f.kind = Top.kind /\ f.env = Top.env
        /\ Top.phase \in Live
    BY <2>1 DEF Frame, FrameRecord, Live
  <2>4. frames' = WithTop(f) /\ UNCHANGED <<instanceVars, busy_actors, throws>>
    BY <1>5 DEF Wait
  <2> HIDE DEF f
  <2>5. QED
    BY <2>1, <2>2, <2>3, <2>4, FreshTop
<1>6. SelectNothing \/ EndTurnOnTakenState => NoStaleState'
  BY <1>2 DEF SelectNothing, EndTurnOnTakenState, Fail
<1>7. ASSUME NEW reply \in {"ok", "err"}, EndTurn(reply) PROVE NoStaleState'
  <2> SUFFICES ASSUME throws = 0 PROVE NoStaleState'
    BY <1>7 DEF EndTurn, NoStaleState
  <2> DEFINE f == [Top EXCEPT !.phase = "ended", !.reply = reply]
             n == Len(frames)
  <2>1. /\ frames # << >> /\ Top \in Frame /\ Top.kind # "main" /\ Top.phase = "body"
        /\ n \in Nat \ {0} /\ Top = frames[n]
    BY <1>7, TopIsFrame DEF EndTurn, TopIs
  <2>2. f \in Frame /\ f.phase = "ended" /\ Top.actor_id \in Id
    BY <2>1 DEF Frame, FrameRecord
  <2>3. /\ frames' = WithTop(f) /\ busy_actors' = busy_actors \ {Top.actor_id}
        /\ actor_instances' = [actor_instances EXCEPT ![Top.actor_id].state = Top.env]
        /\ UNCHANGED <<spawned, incarnation, throws>>
    BY <1>7 DEF EndTurn
  <2> HIDE DEF f
  <2>4. /\ DOMAIN frames' = 1..n
        /\ \A i \in 1..n : frames'[i] = IF i = n THEN f ELSE frames[i]
    BY <2>1, <2>2, <2>3, TopIsFrame, LenProperties
  <2> HIDE DEF n
  <2>5. n \in LiveFrames
    BY <1>1, <2>1 DEF LiveFrames, Live, n
  <2>6. Top.env = incarnation[Top.actor_id]
    BY <2>1, <2>5 DEF NoStaleState
  <2>7. ASSUME NEW i \in (1..spawned) \ busy_actors'
        PROVE  actor_instances'[i].state = incarnation[i]
    <3>1. actor_instances \in [Id -> Instance] /\ spawned \in 0..MaxActors
      BY DEF TypeOK
    <3>2. i \in Id
      BY BoundsAssumption, <3>1 DEF Id
    <3>3. CASE i = Top.actor_id
      BY <2>3, <2>6, <3>1, <3>2, <3>3 DEF Instance
    <3>4. CASE i # Top.actor_id
      <4>1. actor_instances'[i] = actor_instances[i] /\ i \notin busy_actors
        BY <2>3, <2>7, <3>1, <3>2, <3>4
      <4>2. QED
        BY <2>7, <4>1 DEF NoStaleState
    <3>5. QED
      BY <3>3, <3>4
  <2>8. ASSUME NEW i \in LiveFrames', frames'[i].kind # "main"
        PROVE  frames'[i].env = incarnation[frames'[i].actor_id]
    <3>1. i \in 1..n /\ frames'[i].phase \in Live
      BY <2>4, <2>8 DEF LiveFrames
    <3>2. i # n
      BY <2>2, <2>4, <3>1 DEF Live
    <3>3. frames'[i] = frames[i] /\ i \in LiveFrames
      BY <1>1, <2>4, <3>1, <3>2 DEF LiveFrames, n
    <3>4. QED
      BY <2>8, <3>3 DEF NoStaleState
  <2>9. QED
    BY <2>3, <2>7, <2>8 DEF NoStaleState
<1>8. EndMain => NoStaleState'
  <2> SUFFICES ASSUME EndMain PROVE NoStaleState'
    OBVIOUS
  <2>1. frames' = << >> /\ UNCHANGED <<instanceVars, busy_actors, throws>>
    BY DEF EndMain
  <2>2. DOMAIN << >> = {}
    OBVIOUS
  <2>3. QED
    BY <2>1, <2>2 DEF NoStaleState, LiveFrames
<1>9. ASSUME NEW k \in 0..Len(frames), Throw(k) PROVE NoStaleState'
  BY <1>9 DEF Throw, TypeOK, NoStaleState
<1>10. QED
  BY <1>3, <1>4, <1>5, <1>6, <1>7, <1>8, <1>9 DEF Body, Await, Select

(* The pump.                                                               *)
LEMMA FreshPump == TypeOK /\ StackInvariant /\ NoStaleState /\ Pump => NoStaleState'
<1> SUFFICES ASSUME TypeOK, StackInvariant, NoStaleState, Pump PROVE NoStaleState'
  OBVIOUS
<1> USE DEF instanceVars, mailVars, slotVars, turnVars
<1>1. /\ frames \in Seq(Frame) /\ StackOK(frames, busy_actors, current_actor)
      /\ DOMAIN frames = 1..Len(frames)
  BY LenProperties DEF TypeOK, StackInvariant
<1>2. ASSUME NEW s, NEW f \in Frame, TakeReply(s, f), frames # << >>,
             Top.phase \in Live, f.actor_id = Top.actor_id, f.kind = Top.kind,
             f.env = Top.env
      PROVE  NoStaleState'
  BY <1>2, FreshTop DEF TakeReply
<1>3. AwaitTakes => NoStaleState'
  <2> SUFFICES ASSUME AwaitTakes PROVE NoStaleState'
    OBVIOUS
  <2> DEFINE rest == Tail(Top.awaiting)
             f == [Top EXCEPT !.phase = IF rest = << >> THEN "body" ELSE "await",
                              !.awaiting = rest]
  <2>1. frames # << >> /\ Top \in Frame /\ Top.phase = "await"
    BY TopIsFrame DEF AwaitTakes, TopIs
  <2>2. /\ f \in Frame /\ f.actor_id = Top.actor_id /\ f.kind = Top.kind
        /\ f.env = Top.env
    BY <2>1, AwaitedFrame
  <2>3. TakeReply(Awaited, f)
    BY DEF AwaitTakes
  <2> HIDE DEF f, rest
  <2>4. QED
    BY <1>2, <2>1, <2>2, <2>3 DEF Live
<1>4. SelectTakes => NoStaleState'
  <2> SUFFICES ASSUME SelectTakes PROVE NoStaleState'
    OBVIOUS
  <2> DEFINE f == [Top EXCEPT !.phase = "body", !.awaiting = << >>]
  <2>1. frames # << >> /\ Top \in Frame /\ Top.phase = "select"
    BY TopIsFrame DEF SelectTakes, TopIs
  <2>2. << >> \in Seq(Slot)
    BY EmptySeq
  <2>3. f \in Frame
    BY <2>1, <2>2 DEF Frame, FrameRecord, Live
  <2>4. f.actor_id = Top.actor_id /\ f.kind = Top.kind /\ f.env = Top.env
    BY <2>1 DEF Frame, FrameRecord
  <2>5. PICK s : TakeReply(s, f)
    BY DEF SelectTakes
  <2> HIDE DEF f
  <2>6. QED
    BY <1>2, <2>1, <2>3, <2>4, <2>5 DEF Live
<1>5. ASSUME NEW m \in actor_mailbox, Dispatch(m) PROVE NoStaleState'
  <2> DEFINE id == m.actor_id
  <2>1. /\ id \in Id /\ m.reply_slot \in Slot \cup {NoSlot} /\ id \notin busy_actors
    BY <1>5 DEF TypeOK, Message, Dispatch, IsFirst, Deliverable
  <2>2. actor_instances \in [Id -> Instance] /\ spawned \in 0..MaxActors
    BY DEF TypeOK
  <2>3. /\ TurnBegins(id, "turn", m.reply_slot, actor_instances, frames)
        /\ UNCHANGED <<spawned, incarnation, throws>>
    BY <1>1, <1>5, <2>1, <2>2 DEF Dispatch, TurnBegins
  <2>4. id \in 1..spawned /\ \A i \in 1..Len(frames) : frames[i].actor_id <= spawned
    BY <1>1, <2>1, <2>2 DEF StackInvariant, OnlySpawnedNamed, Id
  <2>5. throws = 0 => incarnation'[id] = actor_instances[id].state
    BY <2>1, <2>3, <2>4 DEF NoStaleState
  <2>6. /\ \A i \in 1..spawned' : i # id => i \in 1..spawned
        /\ \A i \in 1..spawned : incarnation'[i] = incarnation[i]
    BY <2>3
  <2> HIDE DEF id
  <2>7. QED
    BY <1>1, <2>1, <2>3, <2>4, <2>5, <2>6, FreshTurn
<1>6. AwaitUnavailable \/ SelectUnavailable \/ Stall \/ DrainEnds => NoStaleState'
  BY DEF AwaitUnavailable, SelectUnavailable, Stall, DrainEnds, Fail,
         NoStaleState, LiveFrames
<1>7. QED
  BY <1>3, <1>4, <1>5, <1>6 DEF Pump

(* Supervision: who is restarted is not mid-turn.                           *)
LEMMA FreshSupervision ==
    TypeOK /\ StackInvariant /\ NoStaleState /\ Supervision => NoStaleState'
<1> SUFFICES ASSUME TypeOK, StackInvariant, NoStaleState, Supervision
             PROVE  NoStaleState'
  OBVIOUS
<1> USE DEF instanceVars, mailVars, slotVars, turnVars
<1>1. /\ frames \in Seq(Frame) /\ StackOK(frames, busy_actors, current_actor)
      /\ DOMAIN frames = 1..Len(frames)
  BY LenProperties DEF TypeOK, StackInvariant
<1>2. ASSUME NEW phase \in {"ended", "reply", "supervise"}, TopIs(phase)
      PROVE  /\ frames # << >> /\ Top \in Frame /\ Top.phase \notin Live
             /\ Top.actor_id \in Id /\ Top.cursor \in Id
             /\ Top.actor_id <= spawned /\ Top.cursor <= spawned
             /\ Top.actor_id \notin busy_actors
             /\ StackOK(Popped, busy_actors, current_actor)
  <2>1. frames # << >> /\ Top.phase \notin Live /\ Top \in Frame
    BY <1>2, TopIsFrame DEF TopIs, Live
  <2>2. Top.actor_id \in Id /\ Top.cursor \in Id
    BY <2>1 DEF Frame, FrameRecord
  <2>3. Top.actor_id <= spawned /\ Top.cursor <= spawned
    BY <2>1, NamedTop DEF StackInvariant, Spawned
  <2>4. Top.actor_id \notin busy_actors
        /\ StackOK(Popped, busy_actors, current_actor)
    BY <2>1, PopTop DEF StackInvariant, Stack
  <2>5. QED
    BY <2>1, <2>2, <2>3, <2>4
<1>3. ASSUME NEW phase, Top \in Frame, NEW f, f = [Top EXCEPT !.phase = phase],
             phase \in {"reply", "supervise"}, Top.phase \notin Live
      PROVE  /\ f \in Frame /\ f.phase \notin Live /\ f.kind = Top.kind
             /\ f.env = Top.env /\ f.actor_id = Top.actor_id /\ f.outer = Top.outer
  BY <1>3 DEF Frame, FrameRecord, Live
<1>4. ASSUME NEW phase \in {"ended", "reply", "supervise"}, TopIs(phase),
             \/ frames' = Popped
             \/ frames' = WithTop([Top EXCEPT !.phase = "reply"])
             \/ frames' = WithTop([Top EXCEPT !.phase = "supervise"]),
             UNCHANGED <<spawned, incarnation, busy_actors, throws>>,
             \A id \in 1..spawned : actor_instances'[id].state = actor_instances[id].state
      PROVE  NoStaleState'
  <2> DEFINE f(p) == [Top EXCEPT !.phase = p]
  <2>1. ASSUME NEW p \in {"reply", "supervise"}
        PROVE  /\ f(p) \in Frame /\ f(p).phase \notin Live /\ f(p).kind = Top.kind
               /\ f(p).env = Top.env /\ f(p).actor_id = Top.actor_id
    BY <1>2, <1>3, <1>4
  <2>2. frames' = Popped \/ frames' = WithTop(f("reply")) \/ frames' = WithTop(f("supervise"))
    BY <1>4
  <2>3. frames # << >> /\ Top \in Frame /\ Top.phase \notin Live
    BY <1>2, <1>4
  <2> HIDE DEF f
  <2>4. QED
    BY <1>4, <2>1, <2>2, <2>3, FreshTop
<1>5. ASSUME NEW id \in Id,
             StopActor(id) \/ StopOrDefer(id) \/ UNCHANGED actor_instances
      PROVE  \A i \in 1..spawned : actor_instances'[i].state = actor_instances[i].state
  <2>1. \/ UNCHANGED actor_instances
        \/ actor_instances' = [actor_instances EXCEPT ![id].stopped = TRUE]
    BY <1>5 DEF StopOrDefer, StopActor
  <2>2. \A i \in 1..spawned : i \in Id
    BY BoundsAssumption DEF TypeOK, Id
  <2>3. actor_instances \in [Id -> Instance]
    BY DEF TypeOK
  <2>4. ASSUME NEW i \in 1..spawned
        PROVE  actor_instances'[i].state = actor_instances[i].state
    <3>1. i \in Id /\ actor_instances[i] \in Instance
      BY <2>2, <2>3
    <3>2. CASE UNCHANGED actor_instances
      BY <3>2
    <3>3. CASE actor_instances' = [actor_instances EXCEPT ![id].stopped = TRUE] /\ i = id
      BY <2>3, <3>1, <3>3 DEF Instance
    <3>4. CASE actor_instances' = [actor_instances EXCEPT ![id].stopped = TRUE] /\ i # id
      BY <2>3, <3>1, <3>4
    <3>5. QED
      BY <2>1, <3>2, <3>3, <3>4
  <2>5. QED
    BY <2>4
<1>6. NoDeferred \/ DeferredStop => NoStaleState'
  <2> SUFFICES ASSUME NoDeferred \/ DeferredStop PROVE NoStaleState'
    OBVIOUS
  <2>1. /\ TopIs("ended") /\ frames' = WithTop([Top EXCEPT !.phase = "reply"])
        /\ UNCHANGED <<spawned, incarnation, busy_actors, throws>>
        /\ StopActor(Top.actor_id) \/ UNCHANGED actor_instances
    BY DEF NoDeferred, DeferredStop
  <2>2. QED
    BY <1>2, <1>4, <1>5, <2>1
<1>7. ASSUME \/ TopIs("reply") /\ UNCHANGED actor_instances
             \/ TopIs("supervise") /\ UNCHANGED actor_instances
             \/ TopIs("supervise") /\ StopOrDefer(Top.cursor),
             frames' = Popped \/ frames' = WithTop([Top EXCEPT !.phase = "supervise"]),
             UNCHANGED <<spawned, incarnation, busy_actors, throws>>
      PROVE  NoStaleState'
  BY <1>2, <1>4, <1>5, <1>7
<1>8. SpawnReturns \/ RestartReturns \/ PublishReply => NoStaleState'
  BY <1>7 DEF SpawnReturns, RestartReturns, PublishReply
<1>9. Unsupervised \/ SuperviseStop \/ SuperviseRestartDeferred => NoStaleState'
  BY <1>7 DEF Unsupervised, SuperviseStop, SuperviseRestartDeferred
<1>10. DeferredRestartLoops \/ EscalatedToUnsupervised => NoStaleState'
  BY DEF DeferredRestartLoops, EscalatedToUnsupervised, Fail, NoStaleState, LiveFrames
<1>11. DeferredRestart => NoStaleState'
  <2> SUFFICES ASSUME DeferredRestart PROVE NoStaleState'
    OBVIOUS
  <2> DEFINE f == [Top EXCEPT !.phase = "reply"]  below == WithTop(f)
  <2>1. /\ TopIs("ended") /\ RestartActor(Top.actor_id, below)
        /\ UNCHANGED <<throws, spawned>>
    BY DEF DeferredRestart
  <2>2. /\ frames # << >> /\ Top \in Frame /\ Top.phase \notin Live
        /\ Top.actor_id \in Id /\ Top.actor_id <= spawned
        /\ Top.actor_id \notin busy_actors
    BY <1>2, <2>1
  <2>3. /\ f \in Frame /\ f.phase \notin Live /\ f.kind = Top.kind
        /\ f.actor_id = Top.actor_id /\ f.outer = Top.outer
    BY <1>3, <2>2
  <2> HIDE DEF f
  <2>4. StackOK(below, busy_actors, current_actor)
    BY <2>2, <2>3, RephaseTop DEF StackInvariant, Stack
  <2>5. below \in Seq(Frame) /\ Len(below) = Len(frames)
        /\ \A i \in 1..Len(frames) : below[i] = IF i = Len(frames) THEN f ELSE frames[i]
    BY <2>2, <2>3, TopIsFrame
  <2>6. \A i \in 1..Len(below) : below[i].phase \in Live =>
               /\ i \in DOMAIN frames /\ below[i] = frames[i]
               /\ below[i].actor_id <= spawned
    BY <1>1, <2>3, <2>5 DEF StackInvariant, OnlySpawnedNamed
  <2> HIDE DEF below
  <2>7. QED
    BY <2>1, <2>2, <2>4, <2>5, <2>6, FreshRestart
<1>12. SuperviseRestart => NoStaleState'
  <2> SUFFICES ASSUME SuperviseRestart PROVE NoStaleState'
    OBVIOUS
  <2>1. /\ TopIs("supervise") /\ RestartActor(Top.cursor, Popped)
        /\ Top.cursor \notin busy_actors /\ UNCHANGED <<throws, spawned>>
    BY DEF SuperviseRestart, MidTurn
  <2>2. /\ frames # << >> /\ Top.cursor \in Id /\ Top.cursor <= spawned
        /\ StackOK(Popped, busy_actors, current_actor)
    BY <1>2, <2>1
  <2>3. /\ Popped \in Seq(Frame) /\ Len(Popped) = Len(frames) - 1
        /\ Len(frames) \in Nat \ {0}
        /\ \A i \in 1..(Len(frames) - 1) : Popped[i] = frames[i]
    BY <2>2, TopIsFrame
  <2>4. \A i \in 1..Len(Popped) : /\ i \in DOMAIN frames /\ Popped[i] = frames[i]
                                 /\ Popped[i].actor_id <= spawned
    BY <1>1, <2>3 DEF StackInvariant, OnlySpawnedNamed
  <2>5. QED
    BY <2>1, <2>2, <2>3, <2>4, FreshRestart
<1>13. Escalate => NoStaleState'
  <2> SUFFICES ASSUME Escalate PROVE NoStaleState'
    OBVIOUS
  <2> DEFINE supervisor == actor_instances[Top.cursor].supervisor
             f == [Top EXCEPT !.cursor = supervisor]
  <2>1. /\ TopIs("supervise") /\ StopOrDefer(Top.cursor)
        /\ UNCHANGED <<spawned, incarnation, busy_actors, throws>>
        /\ (supervisor = Main => UNCHANGED frames)
        /\ (supervisor # Main => frames' = WithTop(f))
    BY DEF Escalate
  <2>2. /\ frames # << >> /\ Top \in Frame /\ Top.phase = "supervise"
        /\ Top.cursor \in Id /\ Top.phase \notin Live
        /\ \A i \in 1..spawned : actor_instances'[i].state = actor_instances[i].state
    BY <1>2, <1>5, <2>1 DEF TopIs
  <2>3. CASE supervisor # Main
    <3>1. supervisor \in Id
      BY <2>2, <2>3 DEF TypeOK, Instance
    <3>2. f \in Frame
      BY <2>2, <3>1 DEF Frame, FrameRecord, Live, Id, Main
    <3>3. /\ f.actor_id = Top.actor_id /\ f.kind = Top.kind /\ f.env = Top.env
          /\ f.phase \notin Live
      BY <2>2 DEF Frame, FrameRecord
    <3> HIDE DEF f
    <3>4. QED
      BY <2>1, <2>2, <2>3, <3>2, <3>3, FreshTop
  <2>4. CASE supervisor = Main
    BY <2>1, <2>2, <2>4, FreshKept
  <2>5. QED
    BY <2>3, <2>4
<1>14. QED
  BY <1>6, <1>8, <1>9, <1>10, <1>11, <1>12, <1>13 DEF Supervision

(* Until an error is thrown, an actor between turns holds the state of its    *)
(* latest incarnation, and a running turn that of the incarnation it works     *)
(* for: no restart is overwritten by a turn it overtook.                    *)
THEOREM NoStaleStateCorrect == Spec => []NoStaleState
<1>1. Init => NoStaleState
  <2> SUFFICES ASSUME Init PROVE NoStaleState
    OBVIOUS
  <2>1. /\ DOMAIN frames = {1} /\ frames[1].kind = "main" /\ spawned = 0
    BY DEF Init, NewFrame
  <2>2. QED
    BY <2>1 DEF NoStaleState, LiveFrames
<1>2. TypeOK /\ StackInvariant /\ NoStaleState /\ [Next]_vars => NoStaleState'
  <2> SUFFICES ASSUME TypeOK, StackInvariant, NoStaleState, [Next]_vars
               PROVE  NoStaleState'
    OBVIOUS
  <2>1. CASE Body
    BY <2>1, FreshBody
  <2>2. CASE Pump
    BY <2>2, FreshPump
  <2>3. CASE Supervision
    BY <2>3, FreshSupervision
  <2>4. CASE UNCHANGED vars
    BY <2>4 DEF NoStaleState, LiveFrames, vars, instanceVars, turnVars
  <2>5. QED
    BY <2>1, <2>2, <2>3, <2>4 DEF Next, Ended
<1>3. QED
  BY <1>1, <1>2, TypeCorrect, StackCorrect, PTL DEF Spec

=============================================================================
