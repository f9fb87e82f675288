--------------------------- MODULE ThreadsProofs ----------------------------
(* Proofs about the threads of a program: types; that joins cannot deadlock; *)
(* and, in the second part, what threads hand to each other: results through *)
(* join slots and parallel_map, values through channels, and what can stop   *)
(* a program.                                                               *)
EXTENDS ThreadsProperties, TLAPS, FiniteSetTheorems, SequenceTheorems

(* What a thread waits for is there to be waited for.                       *)
Sane == WaitsAreReached /\ OnlyStartedReached /\ EndingsKnown

USE ThreadBounds

LEMMA TakeOne ==
  ASSUME NEW S, NEW q \in Seq(S), NEW r \in Seq(S), q # << >>
  PROVE  Tail(q) \in Seq(S) /\ Append(r, Head(q)) \in Seq(S)
  BY SMT

LEMMA TypeStep == TypeOK /\ Sane /\ [Next]_vars => TypeOK'
<1> SUFFICES ASSUME TypeOK, Sane, [Next]_vars PROVE TypeOK'
  OBVIOUS
<1>1. ASSUME NEW t \in Thread, NEW ending \in {"ok", "throw", "fault"}, EndBody(t, ending)
     PROVE TypeOK'
  BY <1>1 DEF TypeOK, Sane, WaitsAreReached, EndingsKnown, Thread, Phase, InMap, Ending, Nobody, Main,
     vars, joinVars, chanVars, endVars,
     EndBody, At, EndAs, Goto
<1>2. ASSUME NEW t \in Thread, NEW handles \in SUBSET knows[t], Spawn(t, handles)
     PROVE TypeOK'
  <2> DEFINE u == created + 1
  <2>1. u \in Thread /\ created' = u
    BY <1>2 DEF Spawn, NextThread, TypeOK, Thread
  <2>2. /\ phase' \in [Thread -> Phase]
        /\ slots' \subseteq Thread
    BY <1>2, <2>1 DEF Spawn, NextThread, Goto, TypeOK, Phase
  <2>3. knows' \in [Thread -> SUBSET Thread]
    <3>1. handles \subseteq Thread
      BY <1>2 DEF Spawn, TypeOK
    <3>2. knows' = [knows EXCEPT ![u] = handles, ![t] = @ \cup {u}]
      BY <1>2 DEF Spawn, NextThread, StartHandles
    <3>3. \A v \in Thread : knows'[v] \subseteq Thread
      BY <3>1, <3>2, <2>1 DEF TypeOK
    <3>4. QED
      BY <3>2, <3>3, <2>1 DEF TypeOK
  <2>4. QED
    BY <1>2, <2>1, <2>2, <2>3 DEF Spawn, TypeOK, joinVars, chanVars, endVars
<1>3. ASSUME NEW t \in Thread, SpawnPanics(t)
     PROVE TypeOK'
  BY <1>3 DEF TypeOK, Sane, WaitsAreReached, EndingsKnown, Thread, Phase, InMap, Ending, Nobody, Main,
     vars, joinVars, chanVars, endVars,
     SpawnPanics, At, EndAs, Goto
<1>4. ASSUME NEW t \in Thread, NEW u \in knows[t], Join(t, u)
     PROVE TypeOK'
  BY <1>4 DEF TypeOK, Sane, WaitsAreReached, EndingsKnown, Thread, Phase, InMap, Ending, Nobody, Main,
     vars, joinVars, chanVars, endVars,
     Join, At, Goto, TakeHandle
<1>5. ASSUME NEW t \in Thread, NEW u \in knows[t], JoinAgain(t, u)
     PROVE TypeOK'
  BY <1>5 DEF TypeOK, Sane, WaitsAreReached, EndingsKnown, Thread, Phase, InMap, Ending, Nobody, Main,
     vars, joinVars, chanVars, endVars,
     JoinAgain, At
<1>6. ASSUME NEW t \in Thread, NEW handles \in SUBSET Thread, JoinReturns(t, handles)
     PROVE TypeOK'
  <2>1. operand[t] \in Thread /\ result[operand[t]] \in Ending
    BY <1>6 DEF JoinReturns, At, TypeOK, Sane, WaitsAreReached, EndingsKnown
  <2>2. joined' \in [Thread -> SUBSET Thread]
    BY <1>6, <2>1 DEF JoinReturns, TypeOK
  <2>3. knows' \in [Thread -> SUBSET Thread]
    <3>1. knows' = knows \/ knows' = [knows EXCEPT ![t] = @ \cup handles]
      BY <1>6 DEF JoinReturns
    <3>2. CASE knows' = [knows EXCEPT ![t] = knows[t] \cup handles]
      <4>1. knows[t] \cup handles \in SUBSET Thread
        BY DEF TypeOK
      <4>2. QED
        BY <3>2, <4>1 DEF TypeOK
    <3>3. QED
      BY <3>1, <3>2 DEF TypeOK
  <2>4. /\ phase' \in [Thread -> Phase]
        /\ result' \in [Thread -> Ending \cup {"none"}]
        /\ outcome' \in Ending \cup {"running"}
    BY <1>6, <2>1
    DEF JoinReturns, Raise, EndAs, Goto, TypeOK, Phase, Ending, endVars, Catchable
  <2>5. QED
    BY <1>6, <2>2, <2>3, <2>4 DEF JoinReturns, TypeOK, chanVars
<1>7. ASSUME NEW t \in Thread, NEW n \in 1..MaxMap, NEW handles \in SUBSET knows[t], Map(t, n, handles)
     PROVE TypeOK'
  BY <1>7 DEF TypeOK, Sane, WaitsAreReached, EndingsKnown, Thread, Phase, InMap, Ending, Nobody, Main,
     vars, joinVars, chanVars, endVars,
     Map, StartMap, At
<1>8. ASSUME NEW t \in Thread, NEW n \in 1..MaxMap, NEW handles \in SUBSET knows[t], MapPanics(t, n, handles)
     PROVE TypeOK'
  BY <1>8 DEF TypeOK, Sane, WaitsAreReached, EndingsKnown, Thread, Phase, InMap, Ending, Nobody, Main,
     vars, joinVars, chanVars, endVars,
     MapPanics, StartMap, At
<1>9. ASSUME NEW t \in Thread, MapJoin(t)
     PROVE TypeOK'
  <2>1. /\ phase' \in [Thread -> Phase]
        /\ operand' \in [Thread -> Thread \cup {Nobody}]
    <3>1. phase' = phase \/ phase' = [phase EXCEPT ![t] = "scope"]
      BY <1>9 DEF MapJoin, Goto
    <3>2. operand' = operand \/ \E w \in crew[t] : operand' = [operand EXCEPT ![t] = w]
      BY <1>9 DEF MapJoin
    <3>3. crew[t] \subseteq Thread
      BY DEF TypeOK
    <3>4. phase' \in [Thread -> Phase]
      <4>1. phase \in [Thread -> Phase] /\ "scope" \in Phase
        BY DEF TypeOK, Phase, InMap
      <4>2. QED
        BY <3>1, <4>1
    <3>5. \A w \in crew[t] : [operand EXCEPT ![t] = w] \in [Thread -> Thread \cup {Nobody}]
      <4>1. operand \in [Thread -> Thread \cup {Nobody}]
        BY DEF TypeOK
      <4>2. QED
        BY <3>3, <4>1
    <3>6. operand' \in [Thread -> Thread \cup {Nobody}]
      <4>1. operand \in [Thread -> Thread \cup {Nobody}]
        BY DEF TypeOK
      <4>2. QED
        BY <3>2, <3>5, <4>1
    <3>7. QED
      BY <3>4, <3>6
  <2>2. blame' \in [Thread -> Thread \cup {Nobody}]
    BY <1>9 DEF MapJoin, At, TypeOK, Sane, WaitsAreReached
  <2>3. QED
    BY <1>9, <2>1, <2>2 DEF MapJoin, TypeOK, chanVars, endVars
<1>10. ASSUME NEW t \in Thread, MapReturns(t)
     PROVE TypeOK'
  <2>1. blame[t] # Nobody => result[blame[t]] \in Ending
    BY <1>10 DEF MapReturns, At, TypeOK, Sane, EndingsKnown
  <2>2. /\ phase' \in [Thread -> Phase]
        /\ result' \in [Thread -> Ending \cup {"none"}]
        /\ outcome' \in Ending \cup {"running"}
    BY <1>10, <2>1
    DEF MapReturns, Raise, EndAs, Goto, TypeOK, Phase, Ending, endVars, Catchable
  <2>3. QED
    BY <1>10, <2>2 DEF MapReturns, TypeOK, joinVars, chanVars
<1>11. ASSUME NEW t \in Thread, MapUnwinds(t)
     PROVE TypeOK'
  <2>1. /\ phase' = [phase EXCEPT ![t] = "ended"]
        /\ result' = [result EXCEPT ![t] = "panic"]
        /\ outcome' \in {outcome, "panic"}
        /\ UNCHANGED <<joinVars, chanVars>>
    BY <1>11 DEF MapUnwinds, EndAs, Goto
  <2>2. /\ phase' \in [Thread -> Phase]
        /\ result' \in [Thread -> Ending \cup {"none"}]
        /\ outcome' \in Ending \cup {"running"}
    <3>1. "ended" \in Phase /\ "panic" \in Ending
      BY DEF Phase, Ending
    <3>2. QED
      BY <2>1, <3>1 DEF TypeOK
  <2>3. QED
    BY <2>1, <2>2 DEF TypeOK, joinVars, chanVars
<1>12. ASSUME NEW t \in Thread, NEW c \in Chan, Send(t, c)
     PROVE TypeOK'
  <2>1. sent' \in [Chan -> 0..MaxSends] /\ queue' \in [Chan -> Seq(1..MaxSends)]
    <3>1. /\ sent[c] \in 0..MaxSends /\ sent[c] < MaxSends /\ MaxSends \in Nat
          /\ queue[c] \in Seq(1..MaxSends)
      BY <1>12, ThreadBounds DEF Send, TypeOK
    <3>2. sent[c] + 1 \in 1..MaxSends
      BY <3>1
    <3>3. Append(queue[c], sent[c] + 1) \in Seq(1..MaxSends)
      BY <3>1, <3>2
    <3>4. QED
      BY <1>12, <3>2, <3>3 DEF Send, TypeOK
  <2>2. QED
    BY <1>12, <2>1 DEF Send, TypeOK, joinVars, endVars
<1>13. ASSUME NEW t \in Thread, NEW c \in Chan, Recv(t, c)
     PROVE TypeOK'
  <2>1. phase' \in [Thread -> Phase] /\ chan' \in [Thread -> Chan \cup {Nobody}]
    BY <1>13 DEF Recv, Receive, Goto, TypeOK, Phase
  <2>2. QED
    BY <1>13, <2>1 DEF Recv, Receive, TypeOK, joinVars, endVars
<1>14. ASSUME NEW t \in Thread, NEW c \in Chan, TryRecv(t, c)
     PROVE TypeOK'
  <2>1. phase' \in [Thread -> Phase] /\ chan' \in [Thread -> Chan \cup {Nobody}]
    BY <1>14 DEF TryRecv, Receive, Goto, TypeOK, Phase
  <2>2. QED
    BY <1>14, <2>1 DEF TryRecv, Receive, TypeOK, joinVars, endVars
<1>15. ASSUME NEW t \in Thread, RecvLocks(t)
     PROVE TypeOK'
  BY <1>15 DEF TypeOK, Sane, WaitsAreReached, EndingsKnown, Thread, Phase, InMap, Ending, Nobody, Main,
     vars, joinVars, chanVars, endVars,
     RecvLocks, At, Goto
<1>16. ASSUME NEW t \in Thread, RecvTakes(t)
     PROVE TypeOK'
  <2> DEFINE c == chan[t]
  <2>1. receiver' \in [Chan -> Thread \cup {Nobody}]
    BY <1>16 DEF RecvTakes, Unlocked, TypeOK
  <2>2. queue' \in [Chan -> Seq(1..MaxSends)] /\ received' \in [Chan -> Seq(1..MaxSends)]
    <3>1. CASE c \in Chan
      <4>1. queue[c] \in Seq(1..MaxSends) /\ received[c] \in Seq(1..MaxSends)
        BY <3>1 DEF TypeOK
      <4>2. queue[c] # << >> => /\ Tail(queue[c]) \in Seq(1..MaxSends)
                                /\ Append(received[c], Head(queue[c])) \in Seq(1..MaxSends)
        BY <4>1, TakeOne
      <4>3. QED
        BY <1>16, <3>1, <4>2 DEF RecvTakes, TakeValue, TypeOK
    <3>2. CASE c \notin Chan
      BY <1>16, <3>2 DEF RecvTakes, TakeValue, TypeOK
    <3>3. QED
      BY <3>1, <3>2
  <2>3. phase' \in [Thread -> Phase]
    BY <1>16 DEF RecvTakes, TakeValue, Goto, TypeOK, Phase
  <2>4. QED
    BY <1>16, <2>2, <2>3, <2>1 DEF RecvTakes, TypeOK, joinVars, endVars
<1>17. ASSUME NEW t \in Thread, TryTakes(t)
     PROVE TypeOK'
  <2> DEFINE c == chan[t]
  <2>2. queue' \in [Chan -> Seq(1..MaxSends)] /\ received' \in [Chan -> Seq(1..MaxSends)]
    <3>1. CASE c \in Chan
      <4>1. queue[c] \in Seq(1..MaxSends) /\ received[c] \in Seq(1..MaxSends)
        BY <3>1 DEF TypeOK
      <4>2. queue[c] # << >> => /\ Tail(queue[c]) \in Seq(1..MaxSends)
                                /\ Append(received[c], Head(queue[c])) \in Seq(1..MaxSends)
        BY <4>1, TakeOne
      <4>3. QED
        BY <1>17, <3>1, <4>2 DEF TryTakes, TakeValue, TypeOK
    <3>2. CASE c \notin Chan
      BY <1>17, <3>2 DEF TryTakes, TakeValue, TypeOK
    <3>3. QED
      BY <3>1, <3>2
  <2>3. phase' \in [Thread -> Phase]
    BY <1>17 DEF TryTakes, TakeValue, Goto, TypeOK, Phase
  <2>4. QED
    BY <1>17, <2>2, <2>3 DEF TryTakes, TypeOK, joinVars, endVars
<1>18. CASE UNCHANGED vars
  BY <1>18 DEF TypeOK, Sane, WaitsAreReached, EndingsKnown, Thread, Phase, InMap, Ending, Nobody, Main,
     vars, joinVars, chanVars, endVars
<1>19. QED
  BY <1>1, <1>2, <1>3, <1>4, <1>5, <1>6, <1>7, <1>8, <1>9, <1>10, <1>11, <1>12, <1>13, <1>14, <1>15, <1>16, <1>17, <1>18
     DEF Next, Body, Runtime, Ended

LEMMA SaneMap ==
  ASSUME TypeOK, Sane, NEW t \in Thread, NEW n \in 1..MaxMap,
         NEW handles \in SUBSET knows[t], NEW next \in {"map", "unwind"},
         StartMap(t, n, handles, next)
  PROVE  Sane'
<1> DEFINE W == (created + 1)..(created + n)
<1>1. /\ created \in Nat /\ n \in Nat /\ n >= 1 /\ created' = created + n
      /\ created' \in Nat /\ W \subseteq Thread /\ created + 1 \in W
      /\ phase[t] = "body" /\ t <= created /\ t \notin W
  BY DEF StartMap, At, TypeOK, Thread, Sane, OnlyStartedReached
<1>2. /\ phase' = [u \in Thread |-> IF u = t THEN next
                                    ELSE IF u \in W THEN "body" ELSE phase[u]]
      /\ knows' = [u \in Thread |-> IF u \in W THEN handles ELSE knows[u]]
      /\ crew' = [crew EXCEPT ![t] = W]
      /\ blame' = [blame EXCEPT ![t] = Nobody]
      /\ operand' = [operand EXCEPT ![t] = created + 1]
      /\ UNCHANGED result
  BY DEF StartMap, endVars
<1>3. \A u \in W : phase[u] = "none"
  BY <1>1 DEF Sane, OnlyStartedReached, Thread
<1>4. WaitsAreReached'
  BY <1>1, <1>2, <1>3 DEF TypeOK, Sane, WaitsAreReached
<1>5. OnlyStartedReached'
  <2>1. \A v \in Thread : knows'[v] \subseteq 1..created /\ crew'[v] \subseteq 1..(created + n)
    <3>1. \A v \in Thread : knows'[v] \subseteq 1..created
      BY <1>2 DEF Sane, OnlyStartedReached
    <3>2. \A v \in Thread : crew'[v] = crew[v] \/ crew'[v] = W
      BY <1>2 DEF TypeOK
    <3>3. QED
      BY <1>1, <3>1, <3>2 DEF Sane, OnlyStartedReached
  <2>2. \A v \in Thread : phase'[v] # "none" => v <= created + n
    BY <1>1, <1>2 DEF Sane, OnlyStartedReached, Thread
  <2>3. QED
    BY <1>1, <2>1, <2>2 DEF OnlyStartedReached
<1>6. EndingsKnown'
  <2>1. \A v \in Thread : phase'[v] \in {"ended", "scope"} => phase'[v] = phase[v] /\ blame'[v] = blame[v]
    BY <1>2 DEF TypeOK
  <2>2. \A v \in Thread : phase[v] = "ended" => phase'[v] = "ended"
    BY <1>1, <1>2, <1>3
  <2>3. QED
    BY <1>2, <2>1, <2>2 DEF TypeOK, Sane, EndingsKnown, Nobody
<1>7. QED
  BY <1>4, <1>5, <1>6 DEF Sane

LEMMA SaneStep == TypeOK /\ Sane /\ [Next]_vars => Sane'
<1> SUFFICES ASSUME TypeOK, Sane, [Next]_vars PROVE Sane'
  OBVIOUS
<1>1. ASSUME NEW t \in Thread, NEW ending \in {"ok", "throw", "fault"}, EndBody(t, ending)
     PROVE Sane'
  BY <1>1 DEF TypeOK, Sane, WaitsAreReached, OnlyStartedReached, EndingsKnown,
     Thread, Phase, InMap, Ending, Nobody, Main, vars, joinVars, chanVars, endVars,
     EndBody, At, EndAs, Goto
<1>2. ASSUME NEW t \in Thread, NEW handles \in SUBSET knows[t], Spawn(t, handles)
     PROVE Sane'
  <2> DEFINE u == created + 1
  <2>1. /\ u \in Thread /\ created' = u /\ created \in Nat
        /\ phase' = [phase EXCEPT ![u] = "body"]
        /\ knows' = [knows EXCEPT ![u] = handles, ![t] = @ \cup {u}]
        /\ UNCHANGED <<operand, crew, blame, result>>
    BY <1>2 DEF Spawn, NextThread, StartHandles, Goto, TypeOK, Thread, endVars
  <2>2. phase[u] = "none" /\ phase[t] = "body"
    BY <1>2, <2>1 DEF Spawn, At, TypeOK, Sane, OnlyStartedReached, Thread
  <2>3. WaitsAreReached'
    BY <2>1, <2>2 DEF TypeOK, Sane, WaitsAreReached
  <2>4. OnlyStartedReached'
    <3>1. \A v \in Thread : knows'[v] \subseteq knows[v] \cup handles \cup {u}
      BY <2>1 DEF TypeOK
    <3>2. \A v \in Thread : knows'[v] \subseteq 1..u
      <4>1. 1..created \subseteq 1..u /\ u \in 1..u
        BY <2>1
      <4>2. \A v \in Thread : knows[v] \subseteq 1..created
        BY DEF Sane, OnlyStartedReached
      <4>3. handles \subseteq 1..created
        BY <4>2
      <4>4. QED
        BY <3>1, <4>1, <4>2, <4>3
    <3>3. \A v \in Thread : crew'[v] \subseteq 1..u
      BY <2>1 DEF Sane, OnlyStartedReached
    <3>4. \A v \in Thread : phase'[v] # "none" => v <= u
      BY <2>1 DEF TypeOK, Sane, OnlyStartedReached, Thread
    <3>5. QED
      BY <2>1, <3>2, <3>3, <3>4 DEF OnlyStartedReached
  <2>5. EndingsKnown'
    BY <2>1, <2>2 DEF TypeOK, Sane, EndingsKnown, Nobody
  <2>6. QED
    BY <2>3, <2>4, <2>5 DEF Sane
<1>3. ASSUME NEW t \in Thread, SpawnPanics(t)
     PROVE Sane'
  BY <1>3 DEF TypeOK, Sane, WaitsAreReached, OnlyStartedReached, EndingsKnown,
     Thread, Phase, InMap, Ending, Nobody, Main, vars, joinVars, chanVars, endVars,
     SpawnPanics, At, EndAs, Goto
<1>4. ASSUME NEW t \in Thread, NEW u \in knows[t], Join(t, u)
     PROVE Sane'
  BY <1>4 DEF TypeOK, Sane, WaitsAreReached, OnlyStartedReached, EndingsKnown,
     Thread, Phase, InMap, Ending, Nobody, Main, vars, joinVars, chanVars, endVars,
     Join, At, Goto, TakeHandle
<1>5. ASSUME NEW t \in Thread, NEW u \in knows[t], JoinAgain(t, u)
     PROVE Sane'
  BY <1>5 DEF TypeOK, Sane, WaitsAreReached, OnlyStartedReached, EndingsKnown,
     Thread, Phase, InMap, Ending, Nobody, Main, vars, joinVars, chanVars, endVars,
     JoinAgain, At
<1>6. ASSUME NEW t \in Thread, NEW handles \in SUBSET Thread, JoinReturns(t, handles)
     PROVE Sane'
  <2>1. /\ operand[t] \in Thread /\ phase[t] = "join"
        /\ result[operand[t]] \in Ending
    BY <1>6 DEF JoinReturns, At, TypeOK, Sane, WaitsAreReached, EndingsKnown
  <2>2. /\ UNCHANGED <<created, operand, crew, blame>>
        /\ knows' = knows \/ knows' = [knows EXCEPT ![t] = @ \cup handles]
        /\ handles \subseteq knows[operand[t]]
    BY <1>6 DEF JoinReturns
  <2>3. \/ phase' = [phase EXCEPT ![t] = "body"] /\ UNCHANGED result
        \/ \E e \in Ending : /\ phase' = [phase EXCEPT ![t] = "ended"]
                             /\ result' = [result EXCEPT ![t] = e]
    BY <1>6, <2>1 DEF JoinReturns, Raise, EndAs, Goto, endVars, Ending
  <2>4. WaitsAreReached'
    BY <2>1, <2>2, <2>3 DEF TypeOK, Sane, WaitsAreReached
  <2>5. OnlyStartedReached'
    BY <2>1, <2>2, <2>3 DEF TypeOK, Sane, OnlyStartedReached
  <2>6. EndingsKnown'
    BY <2>1, <2>2, <2>3 DEF TypeOK, Sane, EndingsKnown, Nobody
  <2>7. QED
    BY <2>4, <2>5, <2>6 DEF Sane
<1>7. ASSUME NEW t \in Thread, NEW n \in 1..MaxMap, NEW handles \in SUBSET knows[t], Map(t, n, handles)
     PROVE Sane'
  BY <1>7, SaneMap DEF Map
<1>8. ASSUME NEW t \in Thread, NEW n \in 1..MaxMap, NEW handles \in SUBSET knows[t], MapPanics(t, n, handles)
     PROVE Sane'
  BY <1>8, SaneMap DEF MapPanics
<1>9. ASSUME NEW t \in Thread, MapJoin(t)
     PROVE Sane'
  <2>1. /\ operand[t] \in crew[t] /\ phase[t] = "map" /\ operand[t] \in Thread
        /\ phase[operand[t]] = "ended"
        /\ UNCHANGED <<created, crew, knows, result>>
    BY <1>9 DEF MapJoin, At, TypeOK, Sane, WaitsAreReached, endVars
  <2>2. \/ /\ operand' = [operand EXCEPT ![t] = operand[t] + 1] /\ UNCHANGED <<phase, blame>>
           /\ operand[t] + 1 \in crew[t]
        \/ phase' = [phase EXCEPT ![t] = "scope"] /\ UNCHANGED <<operand, blame>>
        \/ /\ phase' = [phase EXCEPT ![t] = "scope"] /\ UNCHANGED operand
           /\ blame' = [blame EXCEPT ![t] = operand[t]]
    BY <1>9 DEF MapJoin, NextWorker, Goto
  <2>3. WaitsAreReached'
    <3>1. CASE \E w \in crew[t] : operand' = [operand EXCEPT ![t] = w] /\ UNCHANGED phase
      BY <2>1, <3>1 DEF TypeOK, Sane, WaitsAreReached
    <3>2. CASE phase' = [phase EXCEPT ![t] = "scope"] /\ UNCHANGED operand
      BY <2>1, <3>2 DEF TypeOK, Sane, WaitsAreReached
    <3>3. QED
      BY <2>2, <3>1, <3>2
  <2>4. OnlyStartedReached'
    BY <2>1, <2>2 DEF TypeOK, Sane, OnlyStartedReached
  <2>5. EndingsKnown'
    <3>0. blame[t] = Nobody
      BY <2>1 DEF Sane, EndingsKnown
    <3>1. /\ phase' = phase \/ phase' = [phase EXCEPT ![t] = "scope"]
          /\ blame' = blame \/ blame' = [blame EXCEPT ![t] = operand[t]]
          /\ phase' = phase => blame' = blame
      BY <2>1, <2>2 DEF TypeOK
    <3>2. \A v \in Thread : v # t => phase'[v] = phase[v] /\ blame'[v] = blame[v]
      BY <3>1 DEF TypeOK
    <3>3. \A v \in Thread : phase[v] = "ended" => phase'[v] = "ended"
      BY <2>1, <3>1 DEF TypeOK
    <3>4. blame'[t] = Nobody \/ blame'[t] = operand[t]
      BY <3>0, <3>1 DEF TypeOK
    <3>5. /\ phase'[t] \in {"map", "scope"}
          /\ phase'[t] = "map" => blame'[t] = Nobody
      BY <2>1, <3>0, <3>1 DEF TypeOK
    <3>6. QED
      BY <2>1, <3>2, <3>3, <3>4, <3>5 DEF TypeOK, Sane, EndingsKnown, Nobody, Thread
  <2>6. QED
    BY <2>3, <2>4, <2>5 DEF Sane
<1>10. ASSUME NEW t \in Thread, MapReturns(t)
     PROVE Sane'
  <2>1. phase[t] = "scope" /\ UNCHANGED <<created, crew, knows, operand, blame>>
    BY <1>10 DEF MapReturns, At, joinVars
  <2>2. blame[t] # Nobody => result[blame[t]] \in Ending
    BY <1>10 DEF MapReturns, At, TypeOK, Sane, EndingsKnown
  <2>3. \/ phase' = [phase EXCEPT ![t] = "body"] /\ UNCHANGED result
        \/ \E e \in Ending : /\ phase' = [phase EXCEPT ![t] = "ended"]
                             /\ result' = [result EXCEPT ![t] = e]
    BY <1>10, <2>2 DEF MapReturns, Raise, EndAs, Goto, endVars, Ending
  <2>4. WaitsAreReached'
    BY <2>1, <2>3 DEF TypeOK, Sane, WaitsAreReached
  <2>5. OnlyStartedReached'
    BY <2>1, <2>3 DEF TypeOK, Sane, OnlyStartedReached
  <2>6. EndingsKnown'
    BY <2>1, <2>3 DEF TypeOK, Sane, EndingsKnown, Nobody
  <2>7. QED
    BY <2>4, <2>5, <2>6 DEF Sane
<1>11. ASSUME NEW t \in Thread, MapUnwinds(t)
     PROVE Sane'
  BY <1>11 DEF TypeOK, Sane, WaitsAreReached, OnlyStartedReached, EndingsKnown,
     Thread, Phase, InMap, Ending, Nobody, Main, vars, joinVars, chanVars, endVars,
     MapUnwinds, At, Goto, EndAs
<1>12. ASSUME NEW t \in Thread, NEW c \in Chan, Send(t, c)
     PROVE Sane'
  BY <1>12 DEF TypeOK, Sane, WaitsAreReached, OnlyStartedReached, EndingsKnown,
     Thread, Phase, InMap, Ending, Nobody, Main, vars, joinVars, chanVars, endVars,
     Send, At
<1>13. ASSUME NEW t \in Thread, NEW c \in Chan, Recv(t, c)
     PROVE Sane'
  BY <1>13 DEF TypeOK, Sane, WaitsAreReached, OnlyStartedReached, EndingsKnown,
     Thread, Phase, InMap, Ending, Nobody, Main, vars, joinVars, chanVars, endVars,
     Recv, Receive, At, Goto
<1>14. ASSUME NEW t \in Thread, NEW c \in Chan, TryRecv(t, c)
     PROVE Sane'
  BY <1>14 DEF TypeOK, Sane, WaitsAreReached, OnlyStartedReached, EndingsKnown,
     Thread, Phase, InMap, Ending, Nobody, Main, vars, joinVars, chanVars, endVars,
     TryRecv, Receive, At, Goto
<1>15. ASSUME NEW t \in Thread, RecvLocks(t)
     PROVE Sane'
  BY <1>15 DEF TypeOK, Sane, WaitsAreReached, OnlyStartedReached, EndingsKnown,
     Thread, Phase, InMap, Ending, Nobody, Main, vars, joinVars, chanVars, endVars,
     RecvLocks, At, Goto
<1>16. ASSUME NEW t \in Thread, RecvTakes(t)
     PROVE Sane'
  BY <1>16 DEF TypeOK, Sane, WaitsAreReached, OnlyStartedReached, EndingsKnown,
     Thread, Phase, InMap, Ending, Nobody, Main, vars, joinVars, chanVars, endVars,
     RecvTakes, At, Goto, TakeValue, Unlocked
<1>17. ASSUME NEW t \in Thread, TryTakes(t)
     PROVE Sane'
  BY <1>17 DEF TypeOK, Sane, WaitsAreReached, OnlyStartedReached, EndingsKnown,
     Thread, Phase, InMap, Ending, Nobody, Main, vars, joinVars, chanVars, endVars,
     TryTakes, At, Goto, TakeValue
<1>18. CASE UNCHANGED vars
  BY <1>18 DEF TypeOK, Sane, WaitsAreReached, OnlyStartedReached, EndingsKnown,
     Thread, Phase, InMap, Ending, Nobody, Main, vars, joinVars, chanVars, endVars
<1>19. QED
  BY <1>1, <1>2, <1>3, <1>4, <1>5, <1>6, <1>7, <1>8, <1>9, <1>10, <1>11, <1>12, <1>13, <1>14, <1>15, <1>16, <1>17, <1>18
     DEF Next, Body, Runtime, Ended

-----------------------------------------------------------------------------
(* Joins cannot deadlock.                                                  *)

LEMMA FewerEdges ==
  ASSUME JoinsWellFounded, \A v \in Thread : Reach(v)' \subseteq Reach(v)
  PROVE  JoinsWellFounded'
<1>1. ASSUME NEW S \in SUBSET Thread, S # {}
      PROVE  \E v \in S : Reach(v)' \cap S = {}
  <2>1. PICK v \in S : Reach(v) \cap S = {}
    BY <1>1 DEF JoinsWellFounded
  <2>2. QED
    BY <2>1
<1>2. QED
  BY <1>1 DEF JoinsWellFounded

LEMMA SameHandles ==
  ASSUME JoinsWellFounded, UNCHANGED <<knows, crew>>,
         \A v \in Thread : phase'[v] \in InMap => phase[v] \in InMap
  PROVE  JoinsWellFounded'
<1>1. \A v \in Thread : Reach(v)' \subseteq Reach(v)
  BY DEF Reach
<1>2. QED
  BY <1>1, FewerEdges

(* A new thread hangs below its creator and above what its creator reached.  *)
LEMMA SpawnKeepsOrder ==
  ASSUME TypeOK, Sane, JoinsWellFounded, NEW t \in Thread,
         NEW handles \in SUBSET knows[t], Spawn(t, handles)
  PROVE  JoinsWellFounded'
<1>0. PICK u \in Thread : u = created + 1
  BY DEF Spawn, TypeOK, Thread
<1>1. /\ u # t
      /\ phase[t] = "body" /\ phase' = [phase EXCEPT ![u] = "body"]
      /\ knows' = [knows EXCEPT ![u] = handles, ![t] = @ \cup {u}]
      /\ UNCHANGED crew
  BY <1>0 DEF Spawn, At, NextThread, StartHandles, Goto, TypeOK, Thread, Sane, OnlyStartedReached
<1>2. \A v \in Thread : u \notin Reach(v)
  BY <1>0 DEF TypeOK, Thread, Sane, OnlyStartedReached, Reach
<1>3. /\ Reach(u)' = handles
      /\ Reach(t)' = Reach(t) \cup {u}
      /\ \A v \in Thread : v # t /\ v # u => Reach(v)' = Reach(v)
      /\ handles \subseteq Reach(t)
  <2>1. /\ phase'[u] = "body" /\ phase'[t] = "body"
        /\ \A v \in Thread : v # u => phase'[v] = phase[v]
    BY <1>1 DEF TypeOK
  <2>2. /\ knows'[u] = handles /\ knows'[t] = knows[t] \cup {u}
        /\ \A v \in Thread : v # t /\ v # u => knows'[v] = knows[v]
    BY <1>1 DEF TypeOK
  <2>3. QED
    BY <1>1, <2>1, <2>2 DEF Reach, InMap
<1>4. ASSUME NEW S \in SUBSET Thread, S # {}
      PROVE  \E v \in S : Reach(v)' \cap S = {}
  <2>1. CASE S \ {u} = {}
    BY <1>2, <1>3, <1>4, <2>1
  <2>2. CASE S \ {u} # {}
    <3>1. PICK m \in S \ {u} : Reach(m) \cap (S \ {u}) = {}
      BY <2>2 DEF JoinsWellFounded
    <3>2. CASE m # t
      BY <1>2, <1>3, <3>1, <3>2
    <3>3. CASE m = t /\ u \in S
      BY <1>2, <1>3, <3>1, <3>3
    <3>4. CASE m = t /\ u \notin S
      BY <1>3, <3>1, <3>4
    <3>5. QED
      BY <3>2, <3>3, <3>4
  <2>3. QED
    BY <2>1, <2>2
<1>5. QED
  BY <1>4 DEF JoinsWellFounded

(* So do the workers of a parallel_map.                                     *)
LEMMA MapKeepsOrder ==
  ASSUME TypeOK, Sane, JoinsWellFounded, NEW t \in Thread, NEW n \in 1..MaxMap,
         NEW handles \in SUBSET knows[t], NEW next \in {"map", "unwind"},
         StartMap(t, n, handles, next)
  PROVE  JoinsWellFounded'
<1> DEFINE W == (created + 1)..(created + n)
<1>1. /\ W \subseteq Thread /\ t \notin W /\ phase[t] = "body"
      /\ phase' = [u \in Thread |-> IF u = t THEN next
                                    ELSE IF u \in W THEN "body" ELSE phase[u]]
      /\ knows' = [u \in Thread |-> IF u \in W THEN handles ELSE knows[u]]
      /\ crew' = [crew EXCEPT ![t] = W]
  BY DEF StartMap, At, TypeOK, Thread, Sane, OnlyStartedReached
<1>2. \A v \in Thread : Reach(v) \cap W = {}
  <2>1. \A v \in Thread : Reach(v) \subseteq 1..created
    BY DEF Sane, OnlyStartedReached, Reach
  <2>2. 1..created \cap W = {}
    BY DEF TypeOK, Thread
  <2>3. QED
    BY <2>1, <2>2
<1>3. /\ \A v \in W : Reach(v)' = handles
      /\ Reach(t)' = Reach(t) \cup W
      /\ \A v \in Thread \ W : v # t => Reach(v)' = Reach(v)
      /\ handles \subseteq Reach(t)
  BY <1>1 DEF Reach, TypeOK, InMap
<1>4. ASSUME NEW S \in SUBSET Thread, S # {}
      PROVE  \E v \in S : Reach(v)' \cap S = {}
  <2>1. CASE S \ W = {}
    BY <1>2, <1>3, <1>4, <2>1
  <2>2. CASE S \ W # {}
    <3>1. PICK m \in S \ W : Reach(m) \cap (S \ W) = {}
      BY <2>2 DEF JoinsWellFounded
    <3>2. CASE m # t
      BY <1>2, <1>3, <3>1, <3>2
    <3>3. CASE m = t /\ S \cap W # {}
      <4>1. PICK w \in S \cap W : TRUE
        BY <3>3
      <4>2. QED
        BY <1>2, <1>3, <3>1, <3>3, <4>1
    <3>4. CASE m = t /\ S \cap W = {}
      BY <1>3, <3>1, <3>4
    <3>5. QED
      BY <3>2, <3>3, <3>4
  <2>3. QED
    BY <2>1, <2>2
<1>5. QED
  BY <1>4 DEF JoinsWellFounded

(* The value of an awaited thread gives its joiner nothing that was not      *)
(* already below it.                                                       *)
LEMMA AwaitKeepsOrder ==
  ASSUME TypeOK, Sane, JoinsWellFounded, NEW t \in Thread,
         NEW handles \in SUBSET Thread, JoinReturns(t, handles)
  PROVE  JoinsWellFounded'
<1> DEFINE u == operand[t]
<1>1. /\ phase[t] = "join" /\ u \in knows[t] /\ u \in Thread
      /\ handles \subseteq knows[u]
      /\ knows' = knows \/ knows' = [knows EXCEPT ![t] = knows[t] \cup handles]
      /\ UNCHANGED crew
      /\ phase' = [phase EXCEPT ![t] = phase'[t]] /\ phase'[t] \in {"body", "ended"}
  BY DEF JoinReturns, At, Raise, EndAs, Goto, TypeOK, Sane, WaitsAreReached
<1>2. /\ \A v \in Thread : v # t => Reach(v)' = Reach(v)
      /\ Reach(t)' \subseteq Reach(t) \cup Reach(u)
      /\ u \in Reach(t)
  <2>1. \A v \in Thread : v # t => Reach(v)' = Reach(v)
    BY <1>1 DEF Reach, TypeOK
  <2>2. Reach(t)' = knows'[t]
    BY <1>1 DEF Reach, InMap
  <2>3. knows'[t] \subseteq knows[t] \cup knows[u]
    BY <1>1 DEF TypeOK
  <2>4. QED
    BY <1>1, <2>1, <2>2, <2>3 DEF Reach
<1>3. ASSUME NEW S \in SUBSET Thread, S # {}
      PROVE  \E v \in S : Reach(v)' \cap S = {}
  <2>1. PICK m \in S : Reach(m) \cap S = {}
    BY <1>3 DEF JoinsWellFounded
  <2>2. CASE m # t
    BY <1>2, <2>1, <2>2
  <2>3. CASE m = t
    <3>1. PICK l \in S \cup {u} : Reach(l) \cap (S \cup {u}) = {}
      <4>1. S \cup {u} \in SUBSET Thread /\ S \cup {u} # {}
        BY <1>1
      <4>2. QED
        BY <4>1 DEF JoinsWellFounded
    <3>2. l # t
      BY <1>2, <3>1
    <3>3. CASE l = u
      BY <1>2, <2>1, <2>3, <3>1, <3>3
    <3>4. CASE l # u
      BY <1>2, <3>1, <3>2, <3>4
    <3>5. QED
      BY <3>3, <3>4
  <2>4. QED
    BY <2>2, <2>3
<1>4. QED
  BY <1>3 DEF JoinsWellFounded

LEMMA OrderStep == TypeOK /\ Sane /\ JoinsWellFounded /\ [Next]_vars => JoinsWellFounded'
<1> SUFFICES ASSUME TypeOK, Sane, JoinsWellFounded, [Next]_vars PROVE JoinsWellFounded'
  OBVIOUS
<1>1. ASSUME NEW t \in Thread, NEW ending \in {"ok", "throw", "fault"}, EndBody(t, ending)
     PROVE JoinsWellFounded'
  BY <1>1, SameHandles DEF EndBody, At, EndAs, Goto, TypeOK, InMap, joinVars
<1>2. ASSUME NEW t \in Thread, NEW handles \in SUBSET knows[t], Spawn(t, handles)
     PROVE JoinsWellFounded'
  BY <1>2, SpawnKeepsOrder
<1>3. ASSUME NEW t \in Thread, SpawnPanics(t)
     PROVE JoinsWellFounded'
  BY <1>3, SameHandles DEF SpawnPanics, At, EndAs, Goto, TypeOK, InMap, joinVars
<1>4. ASSUME NEW t \in Thread, NEW u \in knows[t], Join(t, u)
     PROVE JoinsWellFounded'
  BY <1>4, SameHandles DEF Join, At, Goto, TakeHandle, TypeOK, InMap, joinVars
<1>5. ASSUME NEW t \in Thread, NEW u \in knows[t], JoinAgain(t, u)
     PROVE JoinsWellFounded'
  BY <1>5, SameHandles DEF JoinAgain, At, TypeOK, InMap, joinVars
<1>6. ASSUME NEW t \in Thread, NEW handles \in SUBSET Thread, JoinReturns(t, handles)
     PROVE JoinsWellFounded'
  BY <1>6, AwaitKeepsOrder
<1>7. ASSUME NEW t \in Thread, NEW n \in 1..MaxMap, NEW handles \in SUBSET knows[t], Map(t, n, handles)
     PROVE JoinsWellFounded'
  BY <1>7, MapKeepsOrder DEF Map
<1>8. ASSUME NEW t \in Thread, NEW n \in 1..MaxMap, NEW handles \in SUBSET knows[t], MapPanics(t, n, handles)
     PROVE JoinsWellFounded'
  BY <1>8, MapKeepsOrder DEF MapPanics
<1>9. ASSUME NEW t \in Thread, MapJoin(t)
     PROVE JoinsWellFounded'
  BY <1>9, SameHandles DEF MapJoin, At, Goto, NextWorker, TypeOK, InMap, joinVars
<1>10. ASSUME NEW t \in Thread, MapReturns(t)
     PROVE JoinsWellFounded'
  BY <1>10, SameHandles DEF MapReturns, At, Goto, Raise, EndAs, Catchable, TypeOK, InMap, joinVars
<1>11. ASSUME NEW t \in Thread, MapUnwinds(t)
     PROVE JoinsWellFounded'
  BY <1>11, SameHandles DEF MapUnwinds, At, Goto, EndAs, TypeOK, InMap, joinVars
<1>12. ASSUME NEW t \in Thread, NEW c \in Chan, Send(t, c)
     PROVE JoinsWellFounded'
  BY <1>12, SameHandles DEF Send, At, TypeOK, InMap, joinVars
<1>13. ASSUME NEW t \in Thread, NEW c \in Chan, Recv(t, c)
     PROVE JoinsWellFounded'
  BY <1>13, SameHandles DEF Recv, Receive, At, Goto, TypeOK, InMap, joinVars
<1>14. ASSUME NEW t \in Thread, NEW c \in Chan, TryRecv(t, c)
     PROVE JoinsWellFounded'
  BY <1>14, SameHandles DEF TryRecv, Receive, At, Goto, TypeOK, InMap, joinVars
<1>15. ASSUME NEW t \in Thread, RecvLocks(t)
     PROVE JoinsWellFounded'
  BY <1>15, SameHandles DEF RecvLocks, At, Goto, TypeOK, InMap, joinVars
<1>16. ASSUME NEW t \in Thread, RecvTakes(t)
     PROVE JoinsWellFounded'
  BY <1>16, SameHandles DEF RecvTakes, At, Goto, TakeValue, Unlocked, TypeOK, InMap, joinVars
<1>17. ASSUME NEW t \in Thread, TryTakes(t)
     PROVE JoinsWellFounded'
  BY <1>17, SameHandles DEF TryTakes, At, Goto, TakeValue, TypeOK, InMap, joinVars
<1>18. CASE UNCHANGED vars
  BY <1>18, SameHandles DEF vars, joinVars
<1>19. QED
  BY <1>1, <1>2, <1>3, <1>4, <1>5, <1>6, <1>7, <1>8, <1>9, <1>10, <1>11, <1>12, <1>13, <1>14, <1>15, <1>16, <1>17, <1>18
     DEF Next, Body, Runtime, Ended

LEMMA Starts == Init => TypeOK /\ Sane /\ JoinsWellFounded
<1> SUFFICES ASSUME Init PROVE TypeOK /\ Sane /\ JoinsWellFounded
  OBVIOUS
<1>1. TypeOK
  BY DEF Init, TypeOK, Thread, Main, Nobody, Phase, Ending
<1>2. Sane
  BY DEF Init, Sane, WaitsAreReached, OnlyStartedReached, EndingsKnown, Thread, Main, Nobody
<1>3. \A v \in Thread : Reach(v) = {}
  BY DEF Init, Reach
<1>4. JoinsWellFounded
  BY <1>3 DEF JoinsWellFounded
<1>5. QED
  BY <1>1, <1>2, <1>4

(* Every variable keeps its type (threads, slots and channels alike).        *)
THEOREM TypeCorrect == Spec => []TypeOK
<1>1. Init => TypeOK /\ Sane
  BY Starts
<1>2. TypeOK /\ Sane /\ [Next]_vars => (TypeOK /\ Sane)'
  BY TypeStep, SaneStep
<1>3. QED
  BY <1>1, <1>2, PTL DEF Spec

(***************************************************************************)
(* The order handles travel in (spawn_async's arguments, await_future's       *)
(* values) is an order of the threads, for any number of them.               *)
(***************************************************************************)
THEOREM JoinsAreOrdered == Spec => []JoinsWellFounded
<1>1. Init => TypeOK /\ Sane /\ JoinsWellFounded
  BY Starts
<1>2. TypeOK /\ Sane /\ JoinsWellFounded /\ [Next]_vars
        => (TypeOK /\ Sane /\ JoinsWellFounded)'
  BY TypeStep, SaneStep, OrderStep
<1>3. QED
  BY <1>1, <1>2, PTL DEF Spec

(***************************************************************************)
(* join_task, await_future and parallel_map never wait for each other in a    *)
(* circle: a program that only joins and maps cannot deadlock.               *)
(***************************************************************************)
THEOREM JoinsNeverDeadlock == Spec => []NoJoinCycle
<1>1. TypeOK /\ Sane /\ JoinsWellFounded => NoJoinCycle
  <2> SUFFICES ASSUME TypeOK, Sane, JoinsWellFounded PROVE NoJoinCycle
    OBVIOUS
  <2>1. \A t \in Thread : \A u : WaitsOn(t, u) => u \in Reach(t)
    BY DEF WaitsOn, Reach, Sane, WaitsAreReached, InMap
  <2>2. QED
    BY <2>1 DEF JoinsWellFounded, NoJoinCycle
<1>2. Init => TypeOK /\ Sane /\ JoinsWellFounded
  BY Starts
<1>3. TypeOK /\ Sane /\ JoinsWellFounded /\ [Next]_vars
        => (TypeOK /\ Sane /\ JoinsWellFounded)'
  BY TypeStep, SaneStep, OrderStep
<1>4. QED
  BY <1>1, <1>2, <1>3, PTL DEF Spec

-----------------------------------------------------------------------------
(* What threads hand to each other.                                        *)
(***************************************************************************)
(* A step changes the ending of nobody who has ended, and ends a thread with  *)
(* the ending it records.                                                  *)
(***************************************************************************)
OnlyEndedHaveResults == \A v \in Thread : result[v] # "none" => phase[v] = "ended"

EndingsStay ==
    \A v \in Thread : phase[v] = "ended" => phase'[v] = "ended" /\ result'[v] = result[v]

LEMMA NewThreads ==
  ASSUME TypeOK, Sane, NEW t \in Thread, NEW n \in 1..MaxMap, NEW handles \in SUBSET knows[t],
         NEW next \in {"map", "unwind"}, StartMap(t, n, handles, next)
  PROVE  /\ phase[t] = "body" /\ phase'[t] = next /\ t \notin (created + 1)..(created + n)
         /\ \A v \in (created + 1)..(created + n) : phase[v] = "none" /\ phase'[v] = "body"
         /\ \A v \in Thread : v # t /\ v \notin (created + 1)..(created + n) => phase'[v] = phase[v]
         /\ (created + 1)..(created + n) \subseteq Thread
<1> DEFINE W == (created + 1)..(created + n)
<1>1. /\ created \in Nat /\ n \in Nat /\ t <= created
      /\ W \subseteq Thread /\ phase[t] = "body" /\ t \notin W
  BY DEF StartMap, At, TypeOK, Thread, Sane, OnlyStartedReached
<1>2. phase' = [u \in Thread |-> IF u = t THEN next
                                 ELSE IF u \in W THEN "body" ELSE phase[u]]
  BY DEF StartMap
<1>3. \A v \in W : phase[v] = "none"
  BY <1>1 DEF Sane, OnlyStartedReached, Thread
<1>4. QED
  BY <1>1, <1>2, <1>3

LEMMA NewThread ==
  ASSUME TypeOK, Sane, NEW t \in Thread, NEW handles \in SUBSET knows[t], Spawn(t, handles)
  PROVE  /\ phase[t] = "body" /\ created + 1 \in Thread /\ created + 1 # t
         /\ phase[created + 1] = "none" /\ phase'[created + 1] = "body"
         /\ \A v \in Thread : v # created + 1 => phase'[v] = phase[v]
<1>1. /\ created \in Nat /\ created + 1 \in Thread /\ t <= created
      /\ phase[t] = "body" /\ created + 1 # t /\ phase[created + 1] = "none"
  BY DEF Spawn, At, TypeOK, Thread, Sane, OnlyStartedReached
<1>2. phase' = [phase EXCEPT ![created + 1] = "body"]
  BY DEF Spawn, NextThread, Goto
<1>3. QED
  BY <1>1, <1>2 DEF TypeOK

EndStep == EndingsStay /\ OnlyEndedHaveResults'

LEMMA EndsStep == TypeOK /\ Sane /\ OnlyEndedHaveResults /\ [Next]_vars => EndStep
<1> SUFFICES ASSUME TypeOK, Sane, OnlyEndedHaveResults, [Next]_vars PROVE EndStep
  OBVIOUS
<1> USE DEF EndStep, EndingsStay, OnlyEndedHaveResults
<1>0. ASSUME NEW t \in Thread, phase[t] # "ended", NEW p \in Phase \ {"ended"},
             phase' = [phase EXCEPT ![t] = p], UNCHANGED result
      PROVE  EndStep
  BY <1>0 DEF TypeOK
<1>1. ASSUME NEW t \in Thread, phase[t] # "ended", NEW ending, EndAs(t, ending)
      PROVE  EndStep
  BY <1>1 DEF EndAs, Goto, TypeOK
<1>2. ASSUME UNCHANGED <<phase, result>>
      PROVE  EndStep
  BY <1>2 DEF TypeOK
<1>3. ASSUME NEW t \in Thread, Body(t)
      PROVE  EndStep
  <2>1. ASSUME NEW ending, EndBody(t, ending)
        PROVE  EndStep
    BY <1>1, <2>1 DEF EndBody, At
  <2>2. ASSUME NEW handles \in SUBSET knows[t], Spawn(t, handles)
        PROVE  EndStep
    <3>1. UNCHANGED result
      BY <2>2 DEF Spawn, endVars
    <3>2. QED
      BY <2>2, <3>1, NewThread
  <2>3. ASSUME NEW n \in 1..MaxMap, NEW handles \in SUBSET knows[t], NEW next \in {"map", "unwind"},
               StartMap(t, n, handles, next)
        PROVE  EndStep
    <3>1. UNCHANGED result
      BY <2>3 DEF StartMap, endVars
    <3>2. \A v \in Thread : phase'[v] = "ended" <=> phase[v] = "ended"
      BY <2>3, NewThreads
    <3>3. QED
      BY <3>1, <3>2
  <2>4. CASE SpawnPanics(t)
    BY <1>1, <2>4 DEF SpawnPanics, At
  <2>5. ASSUME NEW u \in knows[t], Join(t, u)
        PROVE  EndStep
    BY <1>0, <2>5 DEF Join, At, Goto, Phase, endVars
  <2>6. ASSUME NEW u \in knows[t], JoinAgain(t, u)
        PROVE  EndStep
    BY <1>2, <2>6 DEF JoinAgain, endVars
  <2>7. ASSUME NEW c \in Chan, Send(t, c)
        PROVE  EndStep
    BY <1>2, <2>7 DEF Send, endVars
  <2>8. ASSUME NEW c \in Chan, Recv(t, c) \/ TryRecv(t, c)
        PROVE  EndStep
    BY <1>0, <2>8 DEF Recv, TryRecv, Receive, At, Goto, Phase, endVars
  <2>9. QED
    BY <1>3, <2>1, <2>2, <2>3, <2>4, <2>5, <2>6, <2>7, <2>8 DEF Body, Map, MapPanics
<1>4. ASSUME NEW t \in Thread, Runtime(t)
      PROVE  EndStep
  <2>1. ASSUME phase[t] # "ended", NEW ending, Raise(t, ending)
        PROVE  EndStep
    BY <1>0, <1>1, <2>1 DEF Raise, Goto, Phase, endVars
  <2>2. ASSUME NEW handles \in SUBSET Thread, JoinReturns(t, handles)
        PROVE  EndStep
    BY <1>0, <2>1, <2>2 DEF JoinReturns, At, Goto, Phase, endVars
  <2>3. CASE MapJoin(t)
    BY <1>0, <1>2, <2>3 DEF MapJoin, At, Goto, Phase, InMap, endVars
  <2>4. CASE MapReturns(t)
    BY <1>0, <1>1, <2>1, <2>4 DEF MapReturns, At, Goto, Phase, endVars
  <2>5. CASE MapUnwinds(t)
    BY <1>1, <2>5 DEF MapUnwinds, At
  <2>6. CASE RecvLocks(t)
    BY <1>0, <2>6 DEF RecvLocks, At, Goto, Phase, endVars
  <2>7. CASE RecvTakes(t)
    BY <1>0, <2>7 DEF RecvTakes, TakeValue, At, Goto, Phase, endVars
  <2>8. CASE TryTakes(t)
    BY <1>0, <2>8 DEF TryTakes, TakeValue, At, Goto, Phase, endVars
  <2>9. QED
    BY <1>4, <2>2, <2>3, <2>4, <2>5, <2>6, <2>7, <2>8 DEF Runtime
<1>5. CASE UNCHANGED vars
  BY <1>2, <1>5 DEF vars, endVars
<1>6. QED
  BY <1>3, <1>4, <1>5 DEF Next, Ended

-----------------------------------------------------------------------------
(***************************************************************************)
(* Most steps start no thread and touch no handle: t runs user code or a      *)
(* channel call, or its parallel_map is over.                               *)
(***************************************************************************)
Plain(t) ==
    /\ UNCHANGED <<created, slots, knows, crew, blame, joined>>
    /\ \A v \in Thread : v # t => phase'[v] = phase[v] /\ operand'[v] = operand[v]
    /\ \/ phase'[t] = phase[t] /\ operand'[t] = operand[t]
       \/ /\ phase[t] \in {"body", "lock", "recv", "try"}
          /\ phase'[t] \in {"body", "lock", "recv", "try", "ended"}
       \/ /\ phase[t] \in {"scope", "unwind"} /\ phase'[t] \in {"body", "ended"}
          /\ \A w \in crew[t] : phase[w] = "ended"
          /\ phase[t] = "scope" /\ blame[t] # Nobody =>
                \/ result[blame[t]] = "throw"
                \/ phase'[t] = "ended" /\ result'[t] \in {result[blame[t]], "fault", "panic"}

LEMMA ChannelStepIsPlain ==
  ASSUME TypeOK, NEW t \in Thread,
         \/ \E c \in Chan : Send(t, c) \/ Recv(t, c) \/ TryRecv(t, c)
         \/ RecvLocks(t) \/ RecvTakes(t) \/ TryTakes(t)
  PROVE  Plain(t)
<1>1. UNCHANGED joinVars
  BY DEF Send, Recv, TryRecv, Receive, RecvLocks, RecvTakes, TryTakes
<1>2. UNCHANGED phase \/ \E p \in {"body", "lock", "recv", "try"} :
         phase[t] \in {"body", "lock", "recv", "try"} /\ phase' = [phase EXCEPT ![t] = p]
  BY DEF Send, Recv, TryRecv, Receive, RecvLocks, RecvTakes, TryTakes, TakeValue, At, Goto
<1>3. QED
  BY <1>1, <1>2 DEF Plain, joinVars, TypeOK

LEMMA MapEndIsPlain ==
  ASSUME TypeOK, NEW t \in Thread, MapReturns(t) \/ MapUnwinds(t)
  PROVE  Plain(t)
<1>1. /\ UNCHANGED joinVars
      /\ phase[t] \in {"scope", "unwind"}
      /\ \A w \in crew[t] : phase[w] = "ended"
  BY DEF MapReturns, MapUnwinds, At, ScopeDone
<1>2. \/ phase' = [phase EXCEPT ![t] = "body"]
      \/ phase' = [phase EXCEPT ![t] = "ended"]
  BY DEF MapReturns, MapUnwinds, Raise, EndAs, Goto
<1>3. ASSUME phase[t] = "scope", blame[t] # Nobody
      PROVE  \/ result[blame[t]] = "throw"
             \/ phase'[t] = "ended" /\ result'[t] \in {result[blame[t]], "fault", "panic"}
  <2>1. MapReturns(t)
    BY <1>3 DEF MapUnwinds, At
  <2>2. CASE EndAs(t, "panic")
    BY <2>2 DEF EndAs, Goto, TypeOK
  <2>3. CASE Raise(t, result[blame[t]])
    BY <2>3 DEF Raise, EndAs, Goto, Catchable, TypeOK
  <2>4. QED
    BY <1>3, <2>1, <2>2, <2>3 DEF MapReturns
<1>4. QED
  BY <1>1, <1>2, <1>3 DEF Plain, joinVars, TypeOK

LEMMA StepKinds ==
  ASSUME TypeOK, [Next]_vars
  PROVE  \E t \in Thread :
            \/ Plain(t)
            \/ \E handles \in SUBSET knows[t] : Spawn(t, handles)
            \/ \E n \in 1..MaxMap, handles \in SUBSET knows[t], next \in {"map", "unwind"} :
                  StartMap(t, n, handles, next)
            \/ \E u \in knows[t] : Join(t, u)
            \/ \E handles \in SUBSET Thread : JoinReturns(t, handles)
            \/ MapJoin(t)
<1>1. ASSUME NEW t \in Thread, NEW ending, EndBody(t, ending) \/ SpawnPanics(t)
      PROVE  Plain(t)
  BY <1>1 DEF EndBody, SpawnPanics, At, EndAs, Goto, joinVars, Plain, TypeOK
<1>2. ASSUME NEW t \in Thread, NEW u \in knows[t], JoinAgain(t, u)
      PROVE  Plain(t)
  BY <1>2 DEF JoinAgain, At, Plain, TypeOK
<1>3. CASE UNCHANGED vars
  <2>1. Main \in Thread
    BY DEF Main, Thread
  <2>2. Plain(Main)
    BY <1>3 DEF Plain, vars, joinVars
  <2>3. QED
    BY <2>1, <2>2
<1>4. ASSUME NEW t \in Thread, Body(t) \/ Runtime(t)
      PROVE  \/ Plain(t)
             \/ \E handles \in SUBSET knows[t] : Spawn(t, handles)
             \/ \E n \in 1..MaxMap, handles \in SUBSET knows[t], next \in {"map", "unwind"} :
                   StartMap(t, n, handles, next)
             \/ \E u \in knows[t] : Join(t, u)
             \/ \E handles \in SUBSET Thread : JoinReturns(t, handles)
             \/ MapJoin(t)
  BY <1>1, <1>2, <1>4, ChannelStepIsPlain, MapEndIsPlain DEF Body, Runtime, Map, MapPanics
<1>5. QED
  BY <1>3, <1>4 DEF Next, Ended

-----------------------------------------------------------------------------
(* parallel_map: the elements before the one being joined have succeeded, and *)
(* its workers are numbered in input order without a gap.                    *)
Succeeded(w) == phase[w] = "ended" /\ result[w] = "ok"

MapInv ==
    \A t \in Thread :
        /\ \A v, w \in crew[t], x \in Thread : v <= x /\ x <= w => x \in crew[t]
        /\ phase[t] \notin InMap => \A w \in crew[t] : phase[w] = "ended"
        /\ phase[t] = "map" => \A w \in crew[t] : w < operand[t] => Succeeded(w)
        /\ phase[t] = "scope" =>
             \A w \in crew[t] : blame[t] = Nobody \/ w < blame[t] => Succeeded(w)

LEMMA MapInvStep ==
  ASSUME TypeOK, Sane, OnlyEndedHaveResults, MapInv, [Next]_vars
  PROVE  MapInv'
<1>1. EndingsStay /\ \A w \in Thread : Succeeded(w) => Succeeded(w)'
  BY EndsStep DEF EndStep, EndingsStay, Succeeded
<1>2. \A v \in Thread : crew[v] \subseteq Thread
  BY DEF TypeOK
<1> DEFINE Keeps(v) == /\ crew'[v] = crew[v] /\ blame'[v] = blame[v]
                       /\ \/ phase'[v] = phase[v] /\ operand'[v] = operand[v]
                          \/ phase'[v] \notin InMap /\ \A w \in crew[v] : phase[w] = "ended"
           Fine(v) ==
              /\ \A a, b \in crew[v], x \in Thread : a <= x /\ x <= b => x \in crew[v]
              /\ phase[v] \notin InMap => \A w \in crew[v] : phase[w] = "ended"
              /\ phase[v] = "map" => \A w \in crew[v] : w < operand[v] => Succeeded(w)
              /\ phase[v] = "scope" =>
                   \A w \in crew[v] : blame[v] = Nobody \/ w < blame[v] => Succeeded(w)
<1>3. ASSUME NEW v \in Thread, Keeps(v)
      PROVE  Fine(v)'
  <2>1. Fine(v)
    BY DEF MapInv
  <2>2. CASE phase'[v] = phase[v] /\ operand'[v] = operand[v]
    BY <1>1, <1>2, <1>3, <2>1, <2>2 DEF EndingsStay
  <2>3. CASE phase'[v] \notin InMap /\ \A w \in crew[v] : phase[w] = "ended"
    BY <1>1, <1>2, <1>3, <2>1, <2>3 DEF EndingsStay, InMap
  <2>4. QED
    BY <1>3, <2>2, <2>3
<1>4. ASSUME \A v \in Thread : Keeps(v)
      PROVE  MapInv'
  BY <1>3, <1>4 DEF MapInv
<1> HIDE DEF Keeps, Fine
<1>5. PICK t \in Thread :
            \/ Plain(t)
            \/ \E handles \in SUBSET knows[t] : Spawn(t, handles)
            \/ \E n \in 1..MaxMap, handles \in SUBSET knows[t], next \in {"map", "unwind"} :
                  StartMap(t, n, handles, next)
            \/ \E u \in knows[t] : Join(t, u)
            \/ \E handles \in SUBSET Thread : JoinReturns(t, handles)
            \/ MapJoin(t)
  BY StepKinds
<1>6. ASSUME NEW v \in Thread, UNCHANGED <<crew, blame>>,
             phase[v] \notin InMap, phase'[v] \notin InMap
      PROVE  Keeps(v)
  BY <1>6 DEF Keeps, MapInv
<1>7. CASE Plain(t)
  <2>1. ASSUME NEW v \in Thread
        PROVE  Keeps(v)
    <3>1. CASE v # t \/ (phase'[t] = phase[t] /\ operand'[t] = operand[t])
      BY <1>7, <3>1 DEF Plain, Keeps
    <3>2. CASE /\ v = t /\ phase[t] \in {"body", "lock", "recv", "try"}
               /\ phase'[t] \in {"body", "lock", "recv", "try", "ended"}
      BY <1>6, <1>7, <3>2 DEF Plain, InMap
    <3>3. CASE /\ v = t /\ phase'[t] \in {"body", "ended"}
               /\ \A w \in crew[t] : phase[w] = "ended"
      BY <1>7, <3>3 DEF Plain, Keeps, InMap
    <3>4. QED
      BY <1>7, <3>1, <3>2, <3>3 DEF Plain
  <2>2. QED
    BY <1>4, <2>1
<1>8. ASSUME NEW handles \in SUBSET knows[t], Spawn(t, handles)
      PROVE  MapInv'
  <2>1. UNCHANGED <<crew, blame, operand>>
    BY <1>8 DEF Spawn
  <2>2. ASSUME NEW v \in Thread
        PROVE  Keeps(v)
    <3>1. CASE v = created + 1
      BY <1>6, <1>8, <2>1, <3>1, NewThread DEF InMap
    <3>2. CASE v # created + 1
      BY <1>8, <2>1, <3>2, NewThread DEF Keeps
    <3>3. QED
      BY <3>1, <3>2
  <2>3. QED
    BY <1>4, <2>2
<1>9. ASSUME NEW n \in 1..MaxMap, NEW handles \in SUBSET knows[t], NEW next \in {"map", "unwind"},
             StartMap(t, n, handles, next)
      PROVE  MapInv'
  <2> DEFINE W == (created + 1)..(created + n)
  <2>1. /\ created \in Nat /\ n \in Nat /\ W \subseteq Thread
        /\ crew' = [crew EXCEPT ![t] = W] /\ blame' = [blame EXCEPT ![t] = Nobody]
        /\ operand' = [operand EXCEPT ![t] = created + 1]
    BY <1>9 DEF StartMap, TypeOK, Thread
  <2>2. Fine(t)'
    <3>1. crew'[t] = W /\ operand'[t] = created + 1 /\ phase'[t] \in {"map", "unwind"}
      <4>1. phase'[t] = next
        BY <1>9, NewThreads
      <4>2. t \in DOMAIN crew /\ t \in DOMAIN operand
        BY DEF TypeOK
      <4>3. QED
        BY <2>1, <4>1, <4>2
    <3>2. \A a, b \in W, x \in Thread : a <= x /\ x <= b => x \in W
      BY <2>1 DEF Thread
    <3>3. \A w \in W : ~ (w < created + 1)
      BY <2>1
    <3>4. QED
      BY <3>1, <3>2, <3>3 DEF Fine, InMap
  <2>3. ASSUME NEW v \in Thread, v # t
        PROVE  Fine(v)'
    <3>1. crew'[v] = crew[v] /\ blame'[v] = blame[v] /\ operand'[v] = operand[v]
      BY <2>1, <2>3 DEF TypeOK
    <3>2. phase'[v] = phase[v] \/ (phase[v] = "none" /\ phase'[v] = "body")
      BY <1>9, <2>3, NewThreads
    <3>3. Keeps(v)
      BY <3>1, <3>2 DEF Keeps, MapInv, InMap
    <3>4. QED
      BY <1>3, <3>3
  <2>4. QED
    BY <2>2, <2>3 DEF MapInv, Fine
<1>10. ASSUME NEW u \in knows[t], Join(t, u)
       PROVE  MapInv'
  <2>1. /\ UNCHANGED <<crew, blame>> /\ phase[t] = "body" /\ phase'[t] = "join"
        /\ \A v \in Thread : v # t => phase'[v] = phase[v] /\ operand'[v] = operand[v]
    BY <1>10 DEF Join, At, Goto, TypeOK
  <2>2. \A v \in Thread : Keeps(v)
    BY <1>6, <2>1 DEF Keeps, InMap
  <2>3. QED
    BY <1>4, <2>2
<1>11. ASSUME NEW handles \in SUBSET Thread, JoinReturns(t, handles)
       PROVE  MapInv'
  <2>1. /\ UNCHANGED <<crew, blame, operand>> /\ phase[t] = "join" /\ phase'[t] \in {"body", "ended"}
        /\ \A v \in Thread : v # t => phase'[v] = phase[v]
    BY <1>11 DEF JoinReturns, Raise, EndAs, At, Goto, TypeOK
  <2>2. \A v \in Thread : Keeps(v)
    BY <1>6, <2>1 DEF Keeps, InMap
  <2>3. QED
    BY <1>4, <2>2
<1>12. CASE MapJoin(t)
  <2> DEFINE w == operand[t]
  <2>1. /\ phase[t] = "map" /\ w \in crew[t] /\ w \in Thread /\ phase[w] = "ended"
        /\ blame[t] = Nobody /\ UNCHANGED <<crew, result>>
    BY <1>12 DEF MapJoin, At, TypeOK, Sane, WaitsAreReached, EndingsKnown, endVars
  <2>2. \A x \in crew[t] : x < w => Succeeded(x)
    BY <2>1 DEF MapInv
  <2>3. \A v \in Thread : v # t => Fine(v)'
    <3>1. \A v \in Thread : v # t => /\ phase'[v] = phase[v] /\ operand'[v] = operand[v]
                                     /\ blame'[v] = blame[v]
      BY <1>12 DEF MapJoin, Goto, TypeOK
    <3>2. QED
      BY <1>3, <2>1, <3>1 DEF Keeps
  <2>4. \A a, b \in crew[t], x \in Thread : a <= x /\ x <= b => x \in crew[t]
    BY DEF MapInv
  <2>5. CASE result[w] = "ok" /\ w + 1 \in crew[t]
    <3>1. phase'[t] = "map" /\ operand'[t] = w + 1
      BY <1>12, <2>1, <2>5 DEF MapJoin, NextWorker, TypeOK
    <3>2. \A x \in crew[t] : x < w + 1 => Succeeded(x)
      BY <1>2, <2>1, <2>2, <2>5 DEF Succeeded, Thread
    <3>3. Fine(t)'
      BY <1>1, <1>2, <2>1, <2>4, <3>1, <3>2 DEF Fine, InMap
    <3>4. QED
      BY <2>3, <3>3 DEF MapInv, Fine
  <2>6. CASE result[w] = "ok" /\ w + 1 \notin crew[t]
    <3>1. phase'[t] = "scope" /\ blame'[t] = Nobody
      BY <1>12, <2>1, <2>6 DEF MapJoin, NextWorker, Goto, TypeOK
    <3>2. \A x \in crew[t] : x <= w
      BY <1>2, <2>1, <2>4, <2>6 DEF Thread
    <3>3. \A x \in crew[t] : Succeeded(x)
      BY <1>2, <2>1, <2>2, <2>6, <3>2 DEF Succeeded, Thread
    <3>4. Fine(t)'
      BY <1>1, <1>2, <2>1, <2>4, <3>1, <3>3 DEF Fine, InMap
    <3>5. QED
      BY <2>3, <3>4 DEF MapInv, Fine
  <2>7. CASE result[w] # "ok"
    <3>1. phase'[t] = "scope" /\ blame'[t] = w /\ w # Nobody
      BY <1>12, <2>1, <2>7 DEF MapJoin, Goto, TypeOK, Thread, Nobody
    <3>2. Fine(t)'
      BY <1>1, <1>2, <2>1, <2>2, <2>4, <3>1 DEF Fine, InMap
    <3>3. QED
      BY <2>3, <3>2 DEF MapInv, Fine
  <2>8. QED
    BY <2>5, <2>6, <2>7
<1>13. QED
  BY <1>5, <1>7, <1>8, <1>9, <1>10, <1>11, <1>12

-----------------------------------------------------------------------------
(* Faults: what a thread that has not failed has joined and mapped did not    *)
(* fault.                                                                  *)
Harmless(u) == phase[u] = "ended" /\ result[u] \in {"ok", "throw"}
Thrown(u)   == phase[u] = "ended" /\ result[u] = "throw"

FaultInv ==
    \A t \in Thread :
        /\ phase[t] = "scope" /\ blame[t] # Nobody => result[blame[t]] # "ok"
        /\ phase[t] # "ended" \/ result[t] = "ok" =>
             /\ \A u \in joined[t] : Harmless(u)
             /\ phase[t] # "scope" /\ blame[t] # Nobody => Thrown(blame[t])

LEMMA FaultInvStep ==
  ASSUME TypeOK, Sane, OnlyEndedHaveResults, FaultInv, [Next]_vars
  PROVE  FaultInv'
<1>1. /\ EndingsStay /\ OnlyEndedHaveResults'
      /\ \A u \in Thread : (Harmless(u) => Harmless(u)') /\ (Thrown(u) => Thrown(u)')
  BY EndsStep DEF EndStep, EndingsStay, Harmless, Thrown
<1>2. \A v \in Thread : joined[v] \subseteq Thread /\ (blame[v] # Nobody => blame[v] \in Thread)
  BY DEF TypeOK
<1> DEFINE Fine(v) ==
              /\ phase[v] = "scope" /\ blame[v] # Nobody => result[blame[v]] # "ok"
              /\ phase[v] # "ended" \/ result[v] = "ok" =>
                   /\ \A u \in joined[v] : Harmless(u)
                   /\ phase[v] # "scope" /\ blame[v] # Nobody => Thrown(blame[v])
           Keeps(v) ==
              /\ joined'[v] = joined[v] /\ blame'[v] = blame[v]
              /\ \/ phase'[v] = phase[v]
                 \/ /\ phase[v] # "ended" /\ phase'[v] # "scope"
                    /\ phase[v] = "scope" /\ blame[v] # Nobody =>
                         \/ Thrown(blame[v])
                         \/ phase'[v] = "ended" /\ result'[v] # "ok"
<1>3. ASSUME NEW v \in Thread, Keeps(v)
      PROVE  Fine(v)'
  <2>1. Fine(v)
    BY DEF FaultInv
  <2>2. CASE phase'[v] = phase[v]
    <3>1. phase[v] = "scope" /\ blame[v] # Nobody => phase[blame[v]] = "ended"
      BY DEF Sane, EndingsKnown
    <3>2. phase'[v] = "scope" /\ blame'[v] # Nobody => result'[blame'[v]] # "ok"
      BY <1>1, <1>2, <1>3, <2>1, <2>2, <3>1 DEF EndingsStay
    <3>3. phase'[v] = "ended" => result'[v] = result[v]
      BY <1>1, <2>2 DEF EndingsStay
    <3>4. QED
      BY <1>1, <1>2, <1>3, <2>1, <2>2, <3>2, <3>3
  <2>3. CASE /\ phase[v] # "ended" /\ phase'[v] # "scope"
             /\ phase[v] = "scope" /\ blame[v] # Nobody =>
                  \/ Thrown(blame[v])
                  \/ phase'[v] = "ended" /\ result'[v] # "ok"
    <3>1. \A u \in joined'[v] : Harmless(u)'
      BY <1>1, <1>2, <1>3, <2>1, <2>3
    <3>2. phase'[v] # "ended" \/ result'[v] = "ok" => (blame'[v] # Nobody => Thrown(blame[v])')
      BY <1>1, <1>2, <1>3, <2>1, <2>3
    <3>3. QED
      BY <1>3, <2>3, <3>1, <3>2
  <2>4. QED
    BY <1>3, <2>2, <2>3
<1>4. ASSUME \A v \in Thread : Keeps(v)
      PROVE  FaultInv'
  BY <1>3, <1>4 DEF FaultInv
<1> HIDE DEF Keeps, Fine
<1>5. PICK t \in Thread :
            \/ Plain(t)
            \/ \E handles \in SUBSET knows[t] : Spawn(t, handles)
            \/ \E n \in 1..MaxMap, handles \in SUBSET knows[t], next \in {"map", "unwind"} :
                  StartMap(t, n, handles, next)
            \/ \E u \in knows[t] : Join(t, u)
            \/ \E handles \in SUBSET Thread : JoinReturns(t, handles)
            \/ MapJoin(t)
  BY StepKinds
<1>6. CASE Plain(t)
  <2>1. \A v \in Thread : v # t => Keeps(v)
    BY <1>6 DEF Plain, Keeps
  <2>2. Keeps(t)
    <3>1. CASE phase'[t] = phase[t]
      BY <1>6, <3>1 DEF Plain, Keeps
    <3>2. CASE phase[t] \in {"body", "lock", "recv", "try", "unwind"} /\ phase'[t] # phase[t]
      BY <1>6, <3>2 DEF Plain, Keeps
    <3>3. CASE phase[t] = "scope" /\ phase'[t] # phase[t]
      <4>1. /\ phase'[t] \in {"body", "ended"}
            /\ blame[t] # Nobody =>
                 \/ result[blame[t]] = "throw"
                 \/ phase'[t] = "ended" /\ result'[t] \in {result[blame[t]], "fault", "panic"}
        BY <1>6, <3>3 DEF Plain
      <4>2. blame[t] # Nobody => phase[blame[t]] = "ended" /\ result[blame[t]] # "ok"
        BY <3>3 DEF Sane, EndingsKnown, FaultInv
      <4>3. QED
        BY <1>6, <3>3, <4>1, <4>2 DEF Plain, Keeps, Thrown
    <3>4. QED
      BY <1>6, <3>1, <3>2, <3>3 DEF Plain
  <2>3. QED
    BY <1>4, <2>1, <2>2
<1>7. ASSUME NEW handles \in SUBSET knows[t], Spawn(t, handles)
      PROVE  FaultInv'
  <2>1. UNCHANGED <<blame, joined>>
    BY <1>7 DEF Spawn
  <2>2. \A v \in Thread : phase'[v] = phase[v] \/ (phase[v] = "none" /\ phase'[v] = "body")
    BY <1>7, NewThread
  <2>3. \A v \in Thread : Keeps(v)
    BY <2>1, <2>2 DEF Keeps
  <2>4. QED
    BY <1>4, <2>3
<1>8. ASSUME NEW n \in 1..MaxMap, NEW handles \in SUBSET knows[t], NEW next \in {"map", "unwind"},
             StartMap(t, n, handles, next)
      PROVE  FaultInv'
  <2>1. UNCHANGED joined /\ blame' = [blame EXCEPT ![t] = Nobody]
    BY <1>8 DEF StartMap
  <2>2. \A v \in Thread : v # t => Fine(v)'
    <3>1. \A v \in Thread : v # t =>
             phase'[v] = phase[v] \/ (phase[v] = "none" /\ phase'[v] = "body")
      BY <1>8, NewThreads
    <3>2. \A v \in Thread : v # t => Keeps(v)
      BY <2>1, <3>1 DEF Keeps, TypeOK
    <3>3. QED
      BY <1>3, <3>2
  <2>3. Fine(t)'
    <3>1. phase[t] = "body" /\ phase'[t] = next /\ blame'[t] = Nobody
      BY <1>8, <2>1, NewThreads DEF TypeOK
    <3>2. \A u \in joined[t] : Harmless(u)
      BY <3>1 DEF FaultInv
    <3>3. QED
      BY <1>1, <1>2, <2>1, <3>1, <3>2 DEF Fine
  <2>4. QED
    BY <2>2, <2>3 DEF FaultInv, Fine
<1>9. ASSUME NEW u \in knows[t], Join(t, u)
      PROVE  FaultInv'
  <2>1. /\ UNCHANGED <<blame, joined>> /\ phase[t] = "body" /\ phase'[t] = "join"
        /\ \A v \in Thread : v # t => phase'[v] = phase[v]
    BY <1>9 DEF Join, At, Goto, TypeOK
  <2>2. \A v \in Thread : Keeps(v)
    BY <2>1 DEF Keeps
  <2>3. QED
    BY <1>4, <2>2
<1>10. ASSUME NEW handles \in SUBSET Thread, JoinReturns(t, handles)
       PROVE  FaultInv'
  <2> DEFINE u == operand[t]
  <2>1. /\ phase[t] = "join" /\ u \in Thread /\ phase[u] = "ended"
        /\ joined' = [joined EXCEPT ![t] = @ \cup {u}] /\ UNCHANGED <<blame, operand>>
        /\ \A v \in Thread : v # t => phase'[v] = phase[v]
    <3>1. phase[t] = "join" /\ u \in Thread /\ phase[u] = "ended"
      BY <1>10 DEF JoinReturns, At, TypeOK, Sane, WaitsAreReached
    <3>2. joined' = [joined EXCEPT ![t] = @ \cup {u}] /\ UNCHANGED <<blame, operand>>
      BY <1>10 DEF JoinReturns
    <3>3. \E p \in {"body", "ended"} : phase' = [phase EXCEPT ![t] = p]
      BY <1>10 DEF JoinReturns, Raise, EndAs, Goto
    <3>4. QED
      BY <3>1, <3>2, <3>3 DEF TypeOK
  <2>2. /\ phase'[t] \in {"body", "ended"}
        /\ phase'[t] = "ended" => result'[t] # "ok"
        /\ phase'[t] = "body" => result[u] \in {"ok", "throw"}
    <3>1. CASE result[u] = "ok"
      <4>1. phase' = [phase EXCEPT ![t] = "body"]
        BY <1>10, <3>1 DEF JoinReturns, Goto
      <4>2. QED
        BY <3>1, <4>1 DEF TypeOK
    <3>2. CASE result[u] # "ok"
      <4>1. Raise(t, result[u])
        BY <1>10, <3>2 DEF JoinReturns
      <4>2. CASE result[u] = "throw" /\ phase' = [phase EXCEPT ![t] = "body"]
        BY <4>2 DEF TypeOK
      <4>3. CASE EndAs(t, IF result[u] = "panic" THEN "fault" ELSE result[u])
        BY <3>2, <4>3 DEF EndAs, Goto, TypeOK
      <4>4. QED
        BY <4>1, <4>2, <4>3 DEF Raise, Goto, Catchable
    <3>3. QED
      BY <3>1, <3>2
  <2>3. \A v \in Thread : v # t => Fine(v)'
    <3>1. \A v \in Thread : v # t => Keeps(v)
      BY <2>1 DEF Keeps, TypeOK
    <3>2. QED
      BY <1>3, <3>1
  <2>4. Fine(t)'
    <3>1. joined'[t] = joined[t] \cup {u} /\ blame'[t] = blame[t]
      BY <2>1 DEF TypeOK
    <3>2. /\ \A x \in joined[t] : Harmless(x)'
          /\ blame[t] # Nobody => Thrown(blame[t])'
      BY <1>1, <1>2, <2>1 DEF FaultInv
    <3>3. phase'[t] = "body" => Harmless(u)'
      BY <1>1, <2>1, <2>2 DEF Harmless
    <3>4. QED
      BY <2>1, <2>2, <3>1, <3>2, <3>3 DEF Fine
  <2>5. QED
    BY <2>3, <2>4 DEF FaultInv, Fine
<1>11. CASE MapJoin(t)
  <2> DEFINE w == operand[t]
  <2>1. /\ phase[t] = "map" /\ w \in Thread /\ phase[w] = "ended" /\ blame[t] = Nobody
        /\ UNCHANGED <<joined, result>>
        /\ \A v \in Thread : v # t => phase'[v] = phase[v] /\ blame'[v] = blame[v]
    BY <1>11 DEF MapJoin, At, Goto, TypeOK, Sane, WaitsAreReached, EndingsKnown, endVars
  <2>2. /\ phase'[t] \in {"map", "scope"}
        /\ blame'[t] = Nobody \/ (phase'[t] = "scope" /\ blame'[t] = w /\ result[w] # "ok")
    BY <1>11, <2>1 DEF MapJoin, Goto, TypeOK
  <2>3. \A v \in Thread : v # t => Fine(v)'
    <3>1. \A v \in Thread : v # t => Keeps(v)
      BY <2>1 DEF Keeps
    <3>2. QED
      BY <1>3, <3>1
  <2>4. Fine(t)'
    <3>1. \A x \in joined[t] : Harmless(x)'
      BY <1>1, <1>2, <2>1 DEF FaultInv
    <3>2. QED
      BY <2>1, <2>2, <3>1 DEF Fine
  <2>5. QED
    BY <2>3, <2>4 DEF FaultInv, Fine
<1>12. QED
  BY <1>5, <1>6, <1>7, <1>8, <1>9, <1>10, <1>11

-----------------------------------------------------------------------------
(* Join slots: a full slot has no taker, an emptied one has one.             *)
SlotInv ==
    /\ slots \subseteq 1..created
    /\ \A v \in Thread : joined[v] \subseteq 1..created
    /\ \A u \in Thread : \A x, y \in Takers(u) : x = y
    /\ \A u \in slots : Takers(u) = {}
    /\ \A v \in Thread : phase[v] = "join" => operand[v] \notin joined[v]

LEMMA SlotInvStep ==
  ASSUME TypeOK, Sane, SlotInv, [Next]_vars
  PROVE  SlotInv'
<1>1. PICK t \in Thread :
            \/ Plain(t)
            \/ \E handles \in SUBSET knows[t] : Spawn(t, handles)
            \/ \E n \in 1..MaxMap, handles \in SUBSET knows[t], next \in {"map", "unwind"} :
                  StartMap(t, n, handles, next)
            \/ \E u \in knows[t] : Join(t, u)
            \/ \E handles \in SUBSET Thread : JoinReturns(t, handles)
            \/ MapJoin(t)
  BY StepKinds
<1>2. \A u : u \notin 1..created => Takers(u) = {}
  BY DEF Takers, Joining, SlotInv, Sane, WaitsAreReached, OnlyStartedReached
<1>3. ASSUME UNCHANGED joined, created' \in Nat, created <= created',
             slots' = slots \/ \E u \in Thread : /\ slots' = slots \cup {u}
                                                 /\ u \notin 1..created /\ u <= created',
             \A v \in Thread : phase[v] = "join" \/ phase'[v] = "join" =>
                phase'[v] = phase[v] /\ operand'[v] = operand[v]
      PROVE  SlotInv'
  <2>1. \A u : Takers(u)' = Takers(u)
    BY <1>3 DEF Takers, Joining
  <2>2. 1..created \subseteq 1..created'
    BY <1>3 DEF TypeOK, Thread
  <2>3. ASSUME NEW u \in slots'
        PROVE  u \in 1..created' /\ Takers(u) = {}
    <3>1. CASE u \in slots
      BY <2>2, <3>1 DEF SlotInv
    <3>2. CASE u \in Thread /\ u \notin 1..created /\ u <= created'
      BY <1>2, <1>3, <3>2 DEF Thread
    <3>3. QED
      BY <1>3, <3>1, <3>2
  <2>4. QED
    BY <1>3, <2>1, <2>2, <2>3 DEF SlotInv
<1>4. created \in Nat
  BY DEF TypeOK, Thread
<1>5. CASE Plain(t)
  BY <1>3, <1>4, <1>5 DEF Plain
<1>6. ASSUME NEW handles \in SUBSET knows[t], Spawn(t, handles)
      PROVE  SlotInv'
  <2>1. /\ UNCHANGED <<joined, operand>> /\ created' = created + 1
        /\ slots' = slots \cup {created + 1}
    BY <1>6 DEF Spawn, NextThread
  <2>2. QED
    BY <1>3, <1>4, <1>6, <2>1, NewThread
<1>7. ASSUME NEW n \in 1..MaxMap, NEW handles \in SUBSET knows[t], NEW next \in {"map", "unwind"},
             StartMap(t, n, handles, next)
      PROVE  SlotInv'
  <2>1. /\ UNCHANGED <<joined, slots>> /\ created' = created + n
        /\ operand' = [operand EXCEPT ![t] = created + 1]
    BY <1>7 DEF StartMap
  <2>2. ASSUME NEW v \in Thread, phase[v] = "join" \/ phase'[v] = "join"
        PROVE  phase'[v] = phase[v] /\ operand'[v] = operand[v]
    <3>1. v # t /\ phase'[v] = phase[v]
      BY <1>7, <2>2, NewThreads
    <3>2. QED
      BY <2>1, <3>1 DEF TypeOK
  <2>3. QED
    BY <1>3, <1>4, <2>1, <2>2
<1>8. ASSUME NEW u \in knows[t], Join(t, u)
      PROVE  SlotInv'
  <2>1. /\ UNCHANGED <<joined, created>> /\ slots' = slots \ {u} /\ u \in slots
        /\ phase[t] = "body" /\ phase' = [phase EXCEPT ![t] = "join"]
        /\ operand' = [operand EXCEPT ![t] = u]
    BY <1>8 DEF Join, At, Goto, TakeHandle
  <2>2. /\ phase'[t] = "join" /\ operand'[t] = u
        /\ \A v \in Thread : v # t => phase'[v] = phase[v] /\ operand'[v] = operand[v]
    BY <2>1 DEF TypeOK
  <2>3. Takers(u) = {} /\ u \notin joined[t]
    BY <2>1 DEF SlotInv, Takers
  <2>4. /\ Takers(u)' = {t}
        /\ \A w : w # u => Takers(w)' = Takers(w)
    BY <2>1, <2>2, <2>3 DEF Takers, Joining
  <2>5. QED
    BY <2>1, <2>2, <2>3, <2>4 DEF SlotInv
<1>9. ASSUME NEW handles \in SUBSET Thread, JoinReturns(t, handles)
      PROVE  SlotInv'
  <2>1. PICK u : u = operand[t]
    OBVIOUS
  <2>2. /\ UNCHANGED <<slots, created, operand>> /\ phase[t] = "join"
        /\ joined' = [joined EXCEPT ![t] = @ \cup {u}]
    BY <1>9, <2>1 DEF JoinReturns, At
  <2>3. \E p \in {"body", "ended"} : phase' = [phase EXCEPT ![t] = p]
    BY <1>9 DEF JoinReturns, Raise, EndAs, Goto
  <2>4. /\ phase'[t] # "join" /\ joined'[t] = joined[t] \cup {u}
        /\ \A v \in Thread : v # t => phase'[v] = phase[v] /\ joined'[v] = joined[v]
    BY <2>2, <2>3 DEF TypeOK
  <2>5. \A w : Takers(w)' = Takers(w)
    BY <2>1, <2>2, <2>4 DEF Takers, Joining
  <2>6. u \in 1..created
    BY <2>1, <2>2 DEF Sane, WaitsAreReached, OnlyStartedReached
  <2>7. QED
    BY <2>2, <2>4, <2>5, <2>6 DEF SlotInv
<1>10. CASE MapJoin(t)
  <2>1. /\ UNCHANGED <<joined, slots, created>> /\ phase[t] = "map" /\ phase'[t] \in {"map", "scope"}
        /\ \A v \in Thread : v # t => phase'[v] = phase[v] /\ operand'[v] = operand[v]
    BY <1>10 DEF MapJoin, At, Goto, TypeOK
  <2>2. QED
    BY <1>3, <1>4, <2>1
<1>11. QED
  BY <1>1, <1>5, <1>6, <1>7, <1>8, <1>9, <1>10

-----------------------------------------------------------------------------
(* Channels.                                                               *)
Receiving == {"lock", "recv", "try"}

ChannelInv ==
    /\ \A t \in Thread : phase[t] \in Receiving => chan[t] \in Chan
    /\ ChannelsAreFifo

LEMMA ConcatIs ==
  ASSUME NEW S, NEW r \in Seq(S), NEW q \in Seq(S)
  PROVE  \A j \in 1..(Len(r) + Len(q)) :
            (r \o q)[j] = IF j <= Len(r) THEN r[j] ELSE q[j - Len(r)]
BY ConcatProperties

(* Moving the head of the queue to the end of what was received keeps their   *)
(* concatenation.                                                          *)
LEMMA MoveHead ==
  ASSUME NEW S, NEW q \in Seq(S), NEW r \in Seq(S), q # << >>
  PROVE  Append(r, Head(q)) \o Tail(q) = r \o q
<1>1. /\ Head(q) \in S /\ Tail(q) \in Seq(S) /\ Len(Tail(q)) = Len(q) - 1
      /\ \A i \in 1..Len(Tail(q)) : Tail(q)[i] = q[i + 1]
  BY HeadTailProperties
<1>2. /\ Append(r, Head(q)) \in Seq(S) /\ Len(Append(r, Head(q))) = Len(r) + 1
      /\ \A i \in 1..Len(r) : Append(r, Head(q))[i] = r[i]
      /\ Append(r, Head(q))[Len(r) + 1] = q[1]
  BY <1>1
<1>3. Len(q) \in Nat \ {0} /\ Len(r) \in Nat
  BY EmptySeq, LenProperties
<1> DEFINE left == Append(r, Head(q)) \o Tail(q)
<1>4. left \in Seq(S) /\ r \o q \in Seq(S)
  BY <1>1, <1>2, ConcatProperties
<1>5. Len(left) = Len(r) + Len(q) /\ Len(r \o q) = Len(r) + Len(q)
  BY <1>1, <1>2, <1>3, ConcatProperties
<1>6. ASSUME NEW i \in 1..(Len(r) + Len(q))
      PROVE  left[i] = (r \o q)[i]
  <2>1. left[i] = IF i <= Len(r) + 1 THEN Append(r, Head(q))[i] ELSE Tail(q)[i - (Len(r) + 1)]
    BY <1>1, <1>2, <1>3, <1>6, ConcatProperties
  <2>2. (r \o q)[i] = IF i <= Len(r) THEN r[i] ELSE q[i - Len(r)]
    BY <1>6, ConcatProperties
  <2>3. QED
    BY <1>1, <1>2, <1>3, <2>1, <2>2
<1>7. QED
  BY <1>4, <1>5, <1>6, SeqEqual

LEMMA SendOne ==
  ASSUME NEW n \in Nat, n < MaxSends, NEW q \in Seq(1..MaxSends), NEW r \in Seq(1..MaxSends),
         r \o q = [i \in 1..n |-> i]
  PROVE  r \o Append(q, n + 1) = [i \in 1..(n + 1) |-> i]
<1> DEFINE S == 1..MaxSends
<1>1. n + 1 \in S
  OBVIOUS
<1>2. /\ Append(q, n + 1) \in Seq(S) /\ Len(Append(q, n + 1)) = Len(q) + 1
      /\ \A i \in 1..Len(q) : Append(q, n + 1)[i] = q[i]
      /\ Append(q, n + 1)[Len(q) + 1] = n + 1
  BY <1>1
<1>3. Len(q) \in Nat /\ Len(r) \in Nat /\ r \o q \in Seq(S) /\ Len(r \o q) = Len(r) + Len(q)
  BY LenProperties, ConcatProperties
<1>4. Len(r) + Len(q) = n
  BY <1>3
<1> DEFINE all == r \o Append(q, n + 1)
<1>5. all \in Seq(S) /\ Len(all) = n + 1
  BY <1>2, <1>3, <1>4, ConcatProperties
<1>6. ASSUME NEW i \in 1..(n + 1)
      PROVE  all[i] = i
  <2>1. all[i] = IF i <= Len(r) THEN r[i] ELSE Append(q, n + 1)[i - Len(r)]
    <3>1. \A j \in 1..(Len(r) + Len(Append(q, n + 1))) :
             all[j] = IF j <= Len(r) THEN r[j] ELSE Append(q, n + 1)[j - Len(r)]
      <4> HIDE DEF all
      <4>1. \A j \in 1..(Len(r) + Len(Append(q, n + 1))) :
               (r \o Append(q, n + 1))[j]
                   = IF j <= Len(r) THEN r[j] ELSE Append(q, n + 1)[j - Len(r)]
        <5>1. r \in Seq(S) /\ Append(q, n + 1) \in Seq(S)
          BY <1>2
        <5> HIDE DEF S
        <5>2. QED
          BY <5>1, ConcatIs, Zenon
      <4>2. QED
        BY <4>1 DEF all
    <3>2. i \in 1..(Len(r) + Len(Append(q, n + 1)))
      BY <1>2, <1>3, <1>4, <1>6
    <3>3. QED
      BY <3>1, <3>2
  <2>2. i <= n => i = IF i <= Len(r) THEN r[i] ELSE q[i - Len(r)]
    <3>1. \A j \in 1..(Len(r) + Len(q)) :
             (r \o q)[j] = IF j <= Len(r) THEN r[j] ELSE q[j - Len(r)]
      BY ConcatIs
    <3>2. i <= n => (r \o q)[i] = i
      BY <1>6
    <3>3. QED
      BY <1>3, <1>4, <1>6, <3>1, <3>2
  <2>3. QED
    BY <1>2, <1>3, <1>4, <1>6, <2>1, <2>2
<1>7. [i \in 1..(n + 1) |-> i] \in Seq(S) /\ Len([i \in 1..(n + 1) |-> i]) = n + 1
  OBVIOUS
<1>8. QED
  BY <1>5, <1>6, <1>7, SeqEqual

LEMMA ChannelInvStep ==
  ASSUME TypeOK, Sane, ChannelInv, [Next]_vars
  PROVE  ChannelInv'
<1> DEFINE InOrder(c) == received[c] \o queue[c] = [i \in 1..sent[c] |-> i]
           Locked(c)  == {v \in Thread : phase[v] = "recv" /\ chan[v] = c} = {receiver[c]} \ {Nobody}
           OnChannels == \A v \in Thread : phase[v] \in Receiving => chan[v] \in Chan
<1>0. /\ OnChannels /\ \A c \in Chan : InOrder(c) /\ Locked(c)
      /\ OnChannels' /\ (\A c \in Chan : InOrder(c)' /\ Locked(c)') => ChannelInv'
  BY DEF ChannelInv, ChannelsAreFifo
<1>1. ASSUME UNCHANGED <<chan, receiver>>,
             \A v \in Thread : \/ phase'[v] = phase[v]
                               \/ phase[v] \notin {"recv"} /\ phase'[v] \notin Receiving
      PROVE  OnChannels' /\ \A c \in Chan : Locked(c)'
  <2>1. \A c : {v \in Thread : phase[v] = "recv" /\ chan[v] = c}'
                 = {v \in Thread : phase[v] = "recv" /\ chan[v] = c}
    BY <1>1 DEF Receiving
  <2>2. QED
    BY <1>0, <1>1, <2>1
<1>2. ASSUME UNCHANGED <<queue, received, sent>>
      PROVE  \A c \in Chan : InOrder(c)'
  BY <1>0, <1>2
<1>3. ASSUME UNCHANGED chanVars,
             \A v \in Thread : \/ phase'[v] = phase[v]
                               \/ phase[v] \notin {"recv"} /\ phase'[v] \notin Receiving
      PROVE  ChannelInv'
  BY <1>0, <1>1, <1>2, <1>3 DEF chanVars
<1>4. \A c \in Chan : queue[c] \in Seq(1..MaxSends) /\ received[c] \in Seq(1..MaxSends)
  BY DEF TypeOK
<1>5. ASSUME NEW c \in Chan, queue[c] # << >>, UNCHANGED sent,
             queue' = [queue EXCEPT ![c] = Tail(@)],
             received' = [received EXCEPT ![c] = Append(@, Head(queue[c]))]
      PROVE  \A d \in Chan : InOrder(d)'
  <2>1. InOrder(c)'
    <3>1. queue'[c] = Tail(queue[c]) /\ received'[c] = Append(received[c], Head(queue[c]))
      BY <1>5 DEF TypeOK
    <3>2. received'[c] \o queue'[c] = received[c] \o queue[c]
      BY <1>4, <1>5, <3>1, MoveHead
    <3>3. QED
      BY <1>0, <1>5, <3>2
  <2>2. ASSUME NEW d \in Chan, d # c
        PROVE  InOrder(d)'
    <3>1. queue'[d] = queue[d] /\ received'[d] = received[d]
      BY <1>5, <2>2 DEF TypeOK
    <3>2. QED
      BY <1>0, <1>5, <3>1
  <2>3. QED
    BY <2>1, <2>2
<1> HIDE DEF InOrder, Locked, OnChannels
<1>6. ASSUME NEW t \in Thread, NEW p \in Phase \ Receiving,
             phase[t] # "recv", phase' = [phase EXCEPT ![t] = p]
      PROVE  \A v \in Thread : \/ phase'[v] = phase[v]
                               \/ phase[v] \notin {"recv"} /\ phase'[v] \notin Receiving
  BY <1>6 DEF TypeOK
<1>7. ASSUME NEW t \in Thread, Body(t)
      PROVE  ChannelInv'
  <2>1. ASSUME NEW ending, EndBody(t, ending) \/ SpawnPanics(t)
        PROVE  ChannelInv'
    BY <1>3, <1>6, <2>1 DEF EndBody, SpawnPanics, At, EndAs, Goto, Phase, Receiving
  <2>2. ASSUME NEW handles \in SUBSET knows[t], Spawn(t, handles)
        PROVE  ChannelInv'
    <3>1. UNCHANGED chanVars
      BY <2>2 DEF Spawn
    <3>2. \A v \in Thread : phase'[v] = phase[v] \/ (phase[v] = "none" /\ phase'[v] = "body")
      BY <2>2, NewThread
    <3>3. QED
      BY <1>3, <3>1, <3>2 DEF Receiving
  <2>3. ASSUME NEW n \in 1..MaxMap, NEW handles \in SUBSET knows[t], NEW next \in {"map", "unwind"},
               StartMap(t, n, handles, next)
        PROVE  ChannelInv'
    <3>1. UNCHANGED chanVars
      BY <2>3 DEF StartMap
    <3>2. \A v \in Thread : \/ phase'[v] = phase[v]
                            \/ phase[v] \in {"none", "body"} /\ phase'[v] \in {"body", next}
      BY <2>3, NewThreads
    <3>3. QED
      BY <1>3, <3>1, <3>2 DEF Receiving
  <2>4. ASSUME NEW u \in knows[t], Join(t, u)
        PROVE  ChannelInv'
    BY <1>3, <1>6, <2>4 DEF Join, At, Goto, Phase, Receiving
  <2>5. ASSUME NEW u \in knows[t], JoinAgain(t, u)
        PROVE  ChannelInv'
    BY <1>3, <2>5 DEF JoinAgain
  <2>6. ASSUME NEW c \in Chan, Send(t, c)
        PROVE  ChannelInv'
    <3>1. /\ UNCHANGED <<phase, chan, receiver, received>> /\ sent[c] \in Nat /\ sent[c] < MaxSends
          /\ sent' = [sent EXCEPT ![c] = @ + 1]
          /\ queue' = [queue EXCEPT ![c] = Append(@, sent[c] + 1)]
      BY <2>6 DEF Send, TypeOK
    <3>2. InOrder(c)'
      <4>1. queue'[c] = Append(queue[c], sent[c] + 1) /\ sent'[c] = sent[c] + 1
        BY <3>1 DEF TypeOK
      <4>2. received[c] \o queue[c] = [i \in 1..sent[c] |-> i]
        BY <1>0 DEF InOrder
      <4>3. received[c] \o Append(queue[c], sent[c] + 1) = [i \in 1..(sent[c] + 1) |-> i]
        BY <1>4, <3>1, <4>2, SendOne
      <4>4. QED
        BY <3>1, <4>1, <4>3 DEF InOrder
    <3>3. ASSUME NEW d \in Chan, d # c
          PROVE  InOrder(d)'
      <4>1. queue'[d] = queue[d] /\ sent'[d] = sent[d]
        BY <3>1, <3>3 DEF TypeOK
      <4>2. QED
        BY <1>0, <3>1, <4>1 DEF InOrder
    <3>4. QED
      BY <1>0, <1>1, <3>1, <3>2, <3>3
  <2>7. ASSUME NEW c \in Chan, NEW how \in {"lock", "try"}, Receive(t, c, how)
        PROVE  ChannelInv'
    <3>1. /\ UNCHANGED <<queue, sent, receiver, received>> /\ phase[t] = "body"
          /\ phase'[t] = how /\ chan'[t] = c
          /\ \A v \in Thread : v # t => phase'[v] = phase[v] /\ chan'[v] = chan[v]
      BY <2>7 DEF Receive, At, Goto, TypeOK
    <3>2. OnChannels'
      BY <1>0, <3>1 DEF OnChannels
    <3>3. \A d : {v \in Thread : phase[v] = "recv" /\ chan[v] = d}'
                   = {v \in Thread : phase[v] = "recv" /\ chan[v] = d}
      BY <3>1
    <3>4. \A d \in Chan : Locked(d)'
      BY <1>0, <3>1, <3>3 DEF Locked
    <3>5. QED
      BY <1>0, <1>2, <3>1, <3>2, <3>4
  <2>8. QED
    BY <1>7, <2>1, <2>2, <2>3, <2>4, <2>5, <2>6, <2>7 DEF Body, Map, MapPanics, Recv, TryRecv
<1>8. ASSUME NEW t \in Thread, Runtime(t)
      PROVE  ChannelInv'
  <2>1. ASSUME UNCHANGED chanVars, phase[t] # "recv",
               NEW p \in Phase \ Receiving, phase' = [phase EXCEPT ![t] = p]
        PROVE  ChannelInv'
    BY <1>3, <1>6, <2>1
  <2>2. ASSUME NEW handles \in SUBSET Thread, JoinReturns(t, handles)
        PROVE  ChannelInv'
    BY <2>1, <2>2 DEF JoinReturns, Raise, EndAs, At, Goto, Phase, Receiving
  <2>3. CASE MapJoin(t)
    BY <1>3, <2>1, <2>3 DEF MapJoin, At, Goto, Phase, InMap, Receiving
  <2>4. CASE MapReturns(t) \/ MapUnwinds(t)
    BY <2>1, <2>4 DEF MapReturns, MapUnwinds, Raise, EndAs, At, Goto, Phase, Receiving
  <2>5. CASE RecvLocks(t)
    <3> DEFINE c == chan[t]
    <3>1. /\ UNCHANGED <<chan, queue, sent, received>> /\ phase[t] = "lock" /\ c \in Chan
          /\ phase'[t] = "recv" /\ receiver[c] = Nobody /\ receiver'[c] = t
          /\ \A v \in Thread : v # t => phase'[v] = phase[v]
          /\ \A d \in Chan : d # c => receiver'[d] = receiver[d]
      BY <1>0, <2>5 DEF RecvLocks, At, Goto, Free, TypeOK, OnChannels, Receiving
    <3>2. OnChannels'
      BY <1>0, <3>1 DEF OnChannels, Receiving
    <3>3. ASSUME NEW d \in Chan
          PROVE  Locked(d)'
      <4>1. {v \in Thread : phase[v] = "recv" /\ chan[v] = d} = {receiver[d]} \ {Nobody}
        BY <1>0 DEF Locked
      <4>2. CASE d = c
        BY <3>1, <4>1, <4>2 DEF Locked, Nobody, Thread
      <4>3. CASE d # c
        BY <3>1, <4>1, <4>3 DEF Locked
      <4>4. QED
        BY <4>2, <4>3
    <3>4. QED
      BY <1>0, <1>2, <3>1, <3>2, <3>3
  <2>6. CASE RecvTakes(t)
    <3> DEFINE c == chan[t]
    <3>1. /\ UNCHANGED <<chan, sent>> /\ phase[t] = "recv" /\ c \in Chan
          /\ phase'[t] = "body" /\ receiver'[c] = Nobody
          /\ \A v \in Thread : v # t => phase'[v] = phase[v]
          /\ \A d \in Chan : d # c => receiver'[d] = receiver[d]
      BY <1>0, <2>6 DEF RecvTakes, TakeValue, Unlocked, At, Goto, TypeOK, OnChannels, Receiving
    <3>2. OnChannels'
      BY <1>0, <3>1 DEF OnChannels, Receiving
    <3>3. ASSUME NEW d \in Chan
          PROVE  Locked(d)'
      <4>1. {v \in Thread : phase[v] = "recv" /\ chan[v] = d} = {receiver[d]} \ {Nobody}
        BY <1>0 DEF Locked
      <4>2. CASE d = c
        BY <3>1, <4>1, <4>2 DEF Locked
      <4>3. CASE d # c
        BY <3>1, <4>1, <4>3 DEF Locked
      <4>4. QED
        BY <4>2, <4>3
    <3>4. \A d \in Chan : InOrder(d)'
      BY <1>5, <2>6, <3>1 DEF RecvTakes, TakeValue
    <3>5. QED
      BY <1>0, <3>2, <3>3, <3>4
  <2>7. CASE TryTakes(t)
    <3>1. /\ UNCHANGED <<chan, sent, receiver>> /\ phase[t] = "try" /\ chan[t] \in Chan
          /\ phase' = [phase EXCEPT ![t] = "body"]
      BY <1>0, <2>7 DEF TryTakes, TakeValue, At, Goto, OnChannels, Receiving
    <3>2. OnChannels' /\ \A d \in Chan : Locked(d)'
      BY <1>1, <1>6, <3>1 DEF Phase, Receiving
    <3>3. \A d \in Chan : InOrder(d)'
      BY <1>2, <1>5, <2>7, <3>1 DEF TryTakes, TakeValue
    <3>4. QED
      BY <1>0, <3>2, <3>3
  <2>8. QED
    BY <1>8, <2>2, <2>3, <2>4, <2>5, <2>6, <2>7 DEF Runtime
<1>9. CASE UNCHANGED vars
  BY <1>3, <1>9 DEF vars
<1>10. QED
  BY <1>7, <1>8, <1>9 DEF Next, Ended

-----------------------------------------------------------------------------
Handed == OnlyEndedHaveResults /\ MapInv /\ FaultInv /\ SlotInv /\ ChannelInv

LEMMA HandedStarts == Init => TypeOK /\ Sane /\ Handed
<1> SUFFICES ASSUME Init PROVE TypeOK /\ Sane /\ Handed
  OBVIOUS
<1>1. TypeOK /\ Sane
  BY Starts
<1>2. OnlyEndedHaveResults /\ MapInv /\ FaultInv
  BY DEF Init, OnlyEndedHaveResults, MapInv, FaultInv, InMap, Nobody, Main
<1>3. SlotInv
  BY DEF Init, SlotInv, Takers, Joining
<1>4. ChannelInv
  <2>1. \A c \in Chan : received[c] \o queue[c] = [i \in 1..sent[c] |-> i]
    <3>1. << >> \o << >> = << >>
      OBVIOUS
    <3>2. [i \in 1..0 |-> i] = << >>
      OBVIOUS
    <3>3. QED
      BY <3>1, <3>2 DEF Init
  <2>2. \A t \in Thread : phase[t] \notin Receiving
    BY DEF Init, Receiving
  <2>3. QED
    BY <2>1, <2>2 DEF Init, ChannelInv, ChannelsAreFifo, Receiving
<1>5. QED
  BY <1>1, <1>2, <1>3, <1>4 DEF Handed

LEMMA HandedHolds == Spec => [](TypeOK /\ Sane /\ Handed)
<1>1. TypeOK /\ Sane /\ Handed /\ [Next]_vars => (TypeOK /\ Sane /\ Handed)'
  BY TypeStep, SaneStep, EndsStep, MapInvStep, FaultInvStep, SlotInvStep, ChannelInvStep
     DEF Handed, EndStep
<1>2. QED
  BY <1>1, HandedStarts, PTL DEF Spec

(***************************************************************************)
(* The error of parallel_map is that of the first element that fails, and it  *)
(* leaves no worker running, however the workers interleave and however many  *)
(* there are.                                                              *)
(***************************************************************************)
THEOREM MapsAreOrdered == Spec => []MapIsOrdered
<1>1. TypeOK /\ MapInv => MapIsOrdered
  BY DEF MapInv, MapIsOrdered, Succeeded
<1>2. QED
  BY <1>1, HandedHolds, PTL DEF Handed

(* A thread that ends normally has joined and mapped nothing that faulted.    *)
THEOREM FaultsAlwaysSurface == Spec => []FaultsSurface
<1>1. OnlyEndedHaveResults /\ TypeOK /\ FaultInv => FaultsSurface
  BY DEF OnlyEndedHaveResults, TypeOK, FaultInv, FaultsSurface, Harmless, Thrown
<1>2. QED
  BY <1>1, HandedHolds, PTL DEF Handed

(* Of any number of task_joins and awaits on a handle, one gets the result.   *)
THEOREM HandlesAreTakenOnce == Spec => []HandleTakenOnce
<1>1. TypeOK /\ SlotInv => HandleTakenOnce
  <2> SUFFICES ASSUME TypeOK, SlotInv, NEW u \in 1..created
               PROVE  /\ Cardinality(Takers(u)) <= 1
                      /\ u \in slots => Takers(u) = {}
                      /\ \A t \in Joining(u) : u \notin joined[t]
    BY DEF HandleTakenOnce
  <2>1. u \in Thread
    BY DEF TypeOK, Thread
  <2>2. Takers(u) = {} \/ \E x : Takers(u) = {x}
    BY <2>1 DEF SlotInv
  <2>3. Cardinality(Takers(u)) <= 1
    <3>1. Cardinality({}) = 0 /\ \A x : Cardinality({x}) = 1
      BY FS_EmptySet, FS_Singleton
    <3>2. Cardinality(Takers(u)) \in {0, 1}
      BY <2>2, <3>1
    <3>3. QED
      BY <3>2
  <2>4. QED
    BY <2>3 DEF SlotInv, Joining
<1>2. QED
  BY <1>1, HandedHolds, PTL DEF Handed

(* Channels lose, repeat and reorder nothing, with any number of senders and  *)
(* receivers.                                                              *)
THEOREM ChannelsStayFifo == Spec => []ChannelsAreFifo
<1>1. ChannelInv => ChannelsAreFifo
  BY DEF ChannelInv
<1>2. QED
  BY <1>1, HandedHolds, PTL DEF Handed

-----------------------------------------------------------------------------
(***************************************************************************)
(* Who can go on.                                                           *)
(***************************************************************************)
Going ==
    /\ outcome = "running" => phase[Main] # "ended"
    /\ \A v \in 1..created : phase[v] # "none"

LEMMA GoingStep == TypeOK /\ Sane /\ Going /\ [Next]_vars => Going'
<1> SUFFICES ASSUME TypeOK, Sane, Going, [Next]_vars PROVE Going'
  OBVIOUS
<1>0. /\ Main \in Thread /\ 1..created \subseteq Thread /\ created \in Nat
      /\ \A v \in Thread : v <= created => v \in 1..created
  BY DEF Main, Thread, TypeOK
<1>1. ASSUME NEW t \in Thread, phase[t] # "ended", NEW p \in Phase \ {"none", "ended"},
             phase' = [phase EXCEPT ![t] = p], UNCHANGED <<created, outcome>>
      PROVE  Going'
  BY <1>0, <1>1 DEF TypeOK, Going
<1>2. ASSUME NEW t \in Thread, NEW ending \in Ending, EndAs(t, ending), outcome = "running",
             UNCHANGED created
      PROVE  Going'
  <2>1. /\ phase' = [phase EXCEPT ![t] = "ended"]
        /\ t = Main => outcome' # "running"
    BY <1>2 DEF EndAs, Goto, Ending
  <2>2. \A v \in 1..created' : phase'[v] # "none"
    BY <1>0, <1>2, <2>1 DEF TypeOK, Going
  <2>3. outcome' = "running" => phase'[Main] # "ended"
    BY <1>0, <1>2, <2>1 DEF TypeOK, Going
  <2>4. QED
    BY <2>2, <2>3 DEF Going
<1>3. ASSUME UNCHANGED <<phase, created, outcome>>
      PROVE  Going'
  BY <1>3 DEF Going
<1>4. ASSUME NEW t \in Thread, NEW n \in 1..MaxMap, NEW handles \in SUBSET knows[t],
             NEW next \in {"map", "unwind"}, StartMap(t, n, handles, next)
      PROVE  Going'
  <2>1. created' = created + n /\ outcome' = outcome /\ n \in Nat
    BY <1>4 DEF StartMap, endVars
  <2>2. /\ phase[t] = "body" /\ phase'[t] = next
        /\ \A v \in (created + 1)..(created + n) : phase'[v] = "body"
        /\ \A v \in Thread : v # t /\ v \notin (created + 1)..(created + n) => phase'[v] = phase[v]
    BY <1>4, NewThreads
  <2>3. \A v \in 1..created' : v \in 1..created \/ v \in (created + 1)..(created + n)
    BY <1>0, <2>1
  <2>4. \A v \in 1..created' : phase'[v] # "none"
    BY <1>0, <2>2, <2>3 DEF Going
  <2>5. phase'[Main] = phase[Main] \/ phase'[Main] \in {"body", next}
    BY <1>0, <2>2
  <2>6. QED
    BY <2>1, <2>4, <2>5 DEF Going
<1>5. ASSUME NEW t \in Thread, NEW handles \in SUBSET knows[t], Spawn(t, handles)
      PROVE  Going'
  <2>1. created' = created + 1 /\ outcome' = outcome
    BY <1>5 DEF Spawn, NextThread, endVars
  <2>2. /\ phase'[created + 1] = "body"
        /\ \A v \in Thread : v # created + 1 => phase'[v] = phase[v]
    BY <1>5, NewThread
  <2>3. \A v \in 1..created' : v \in 1..created \/ v = created + 1
    BY <1>0, <2>1
  <2>4. \A v \in 1..created' : phase'[v] # "none"
    BY <1>0, <2>2, <2>3 DEF Going
  <2>5. phase'[Main] = phase[Main] \/ phase'[Main] = "body"
    BY <1>0, <2>2
  <2>6. QED
    BY <2>1, <2>4, <2>5 DEF Going
<1>6. ASSUME NEW t \in Thread, NEW ending \in Ending, phase[t] # "ended", outcome = "running",
             UNCHANGED created, Raise(t, ending)
      PROVE  Going'
  <2>1. CASE Goto(t, "body") /\ UNCHANGED endVars
    BY <1>1, <1>6, <2>1 DEF Goto, endVars, Phase
  <2>2. CASE EndAs(t, IF ending = "panic" THEN "fault" ELSE ending)
    BY <1>2, <1>6, <2>2 DEF Ending
  <2>3. QED
    BY <1>6, <2>1, <2>2 DEF Raise
<1>7. ASSUME NEW t \in Thread, Body(t)
      PROVE  Going'
  <2>1. ASSUME NEW ending \in {"ok", "throw", "fault"}, EndBody(t, ending)
        PROVE  Going'
    BY <1>2, <2>1 DEF EndBody, At, joinVars, Ending
  <2>2. CASE SpawnPanics(t)
    BY <1>2, <2>2 DEF SpawnPanics, At, joinVars, Ending
  <2>3. ASSUME NEW u \in knows[t], Join(t, u)
        PROVE  Going'
    BY <1>1, <2>3 DEF Join, At, Goto, Phase, endVars
  <2>4. ASSUME NEW u \in knows[t], JoinAgain(t, u)
        PROVE  Going'
    BY <1>3, <2>4 DEF JoinAgain, endVars
  <2>5. ASSUME NEW c \in Chan, Send(t, c)
        PROVE  Going'
    BY <1>3, <2>5 DEF Send, joinVars, endVars
  <2>6. ASSUME NEW c \in Chan, Recv(t, c) \/ TryRecv(t, c)
        PROVE  Going'
    BY <1>1, <2>6 DEF Recv, TryRecv, Receive, At, Goto, Phase, joinVars, endVars
  <2>7. QED
    BY <1>4, <1>5, <1>7, <2>1, <2>2, <2>3, <2>4, <2>5, <2>6 DEF Body, Map, MapPanics
<1>8. ASSUME NEW t \in Thread, Runtime(t)
      PROVE  Going'
  <2>1. ASSUME NEW handles \in SUBSET Thread, JoinReturns(t, handles)
        PROVE  Going'
    <3>1. /\ phase[t] = "join" /\ outcome = "running" /\ UNCHANGED created
          /\ operand[t] \in Thread /\ phase[operand[t]] = "ended"
      BY <2>1 DEF JoinReturns, At, Sane, WaitsAreReached, TypeOK
    <3>2. result[operand[t]] \in Ending
      BY <3>1 DEF Sane, EndingsKnown
    <3>3. CASE result[operand[t]] = "ok"
      BY <1>1, <2>1, <3>1, <3>3 DEF JoinReturns, Goto, Phase, endVars
    <3>4. CASE result[operand[t]] # "ok"
      BY <1>6, <2>1, <3>1, <3>2, <3>4 DEF JoinReturns
    <3>5. QED
      BY <3>3, <3>4
  <2>2. CASE MapJoin(t)
    BY <1>1, <1>3, <2>2 DEF MapJoin, At, Goto, Phase, InMap, endVars
  <2>3. CASE MapReturns(t)
    <3>1. phase[t] = "scope" /\ outcome = "running" /\ UNCHANGED created
      BY <2>3 DEF MapReturns, At, joinVars
    <3>2. CASE EndAs(t, "panic")
      BY <1>2, <3>1, <3>2 DEF Ending
    <3>3. CASE Goto(t, "body") /\ UNCHANGED endVars
      BY <1>1, <3>1, <3>3 DEF Goto, endVars, Phase
    <3>4. CASE blame[t] # Nobody /\ Raise(t, result[blame[t]])
      <4>1. result[blame[t]] \in Ending
        BY <3>1, <3>4 DEF Sane, EndingsKnown, TypeOK
      <4>2. QED
        BY <1>6, <3>1, <3>4, <4>1
    <3>5. QED
      BY <2>3, <3>2, <3>3, <3>4 DEF MapReturns
  <2>4. CASE MapUnwinds(t)
    BY <1>2, <2>4 DEF MapUnwinds, At, joinVars, Ending
  <2>5. CASE RecvLocks(t)
    BY <1>1, <2>5 DEF RecvLocks, At, Goto, Phase, joinVars, endVars
  <2>6. CASE RecvTakes(t)
    BY <1>1, <2>6 DEF RecvTakes, TakeValue, At, Goto, Phase, joinVars, endVars
  <2>7. CASE TryTakes(t)
    BY <1>1, <2>7 DEF TryTakes, TakeValue, At, Goto, Phase, joinVars, endVars
  <2>8. QED
    BY <1>8, <2>1, <2>2, <2>3, <2>4, <2>5, <2>6, <2>7 DEF Runtime
<1>9. CASE UNCHANGED vars
  BY <1>3, <1>9 DEF vars, joinVars, endVars
<1>10. QED
  BY <1>7, <1>8, <1>9 DEF Next, Ended

LEMMA GoingHolds == Spec => [](TypeOK /\ Sane /\ Handed /\ JoinsWellFounded /\ Going)
<1>1. Init => Going
  BY DEF Init, Going, Main, Thread
<1>2. Spec => [](TypeOK /\ Sane /\ Handed)
  BY HandedHolds
<1>3. QED
  BY <1>1, <1>2, GoingStep, JoinsAreOrdered, PTL DEF Spec

(* Of threads closed under waiting, take one that can reach none of the others; *)
(* if it asks for a mutex, take the one that holds it.                       *)
LEMMA SomeoneGoesOn ==
  ASSUME TypeOK, Sane, Handed, JoinsWellFounded, Going,
         NEW S \in SUBSET Live, S # {}, \A t \in S, u \in Thread : HoldsUp(u, t) => u \in S
  PROVE  \E t \in S : CanGoOn(t) \/ Starved(t)
<1>1. S \subseteq Thread /\ \A t \in S : phase[t] \in Phase \ {"none", "ended"}
  BY DEF Live, TypeOK
<1>2. PICK t \in S : Reach(t) \cap S = {}
  BY <1>1 DEF JoinsWellFounded
<1>3. t \in Thread /\ phase[t] \in Phase \ {"none", "ended"}
  BY <1>1, <1>2
<1>4. \A u \in Thread : HoldsUp(u, t) => u \in S
  BY <1>2
<1>5. CASE phase[t] \in {"join", "map"}
  <2>1. operand[t] \in Reach(t) /\ operand[t] \in Thread /\ WaitsOn(t, operand[t])
    BY <1>3, <1>5 DEF Sane, WaitsAreReached, Reach, TypeOK, InMap, WaitsOn
  <2>2. phase[operand[t]] = "ended"
    BY <1>2, <1>4, <2>1 DEF HoldsUp
  <2>3. QED
    BY <1>2, <1>5, <2>2 DEF CanGoOn
<1>6. CASE phase[t] \in {"scope", "unwind"}
  <2>1. ASSUME NEW w \in crew[t], phase[w] # "ended" PROVE FALSE
    <3>1. w \in Reach(t) /\ w \in Thread /\ WaitsOn(t, w)
      BY <1>3, <1>6, <2>1 DEF Reach, TypeOK, InMap, WaitsOn
    <3>2. QED
      BY <1>2, <1>4, <2>1, <3>1 DEF HoldsUp
  <2>2. QED
    BY <1>2, <1>6, <2>1 DEF CanGoOn, ScopeDone
<1>7. CASE phase[t] \in {"lock", "try"}
  <2>1. chan[t] \in Chan /\ receiver[chan[t]] \in Thread \cup {Nobody}
    BY <1>3, <1>7 DEF Handed, ChannelInv, Receiving, TypeOK
  <2>2. CASE receiver[chan[t]] = Nobody
    BY <1>2, <1>7, <2>2 DEF CanGoOn, Free
  <2>3. CASE receiver[chan[t]] # Nobody
    <3> DEFINE r == receiver[chan[t]]
    <3>1. r \in Thread /\ r \in S
      BY <1>4, <1>7, <2>1, <2>3 DEF HoldsUp
    <3>2. \A c \in Chan : {v \in Thread : phase[v] = "recv" /\ chan[v] = c} = {receiver[c]} \ {Nobody}
      BY DEF Handed, ChannelInv, ChannelsAreFifo
    <3>3. phase[r] = "recv" /\ chan[r] = chan[t]
      BY <2>1, <2>3, <3>2
    <3> HIDE DEF r
    <3>4. CanGoOn(r) \/ Starved(r)
      BY <3>3 DEF CanGoOn, Starved
    <3>5. QED
      BY <3>1, <3>4
  <2>4. QED
    BY <2>2, <2>3
<1>8. CASE phase[t] \in {"body", "recv"}
  BY <1>2, <1>8 DEF CanGoOn, Starved
<1>9. QED
  BY <1>3, <1>5, <1>6, <1>7, <1>8 DEF Phase, InMap

(* Joins, maps and mutexes alone never stop a program, with any number of       *)
(* threads: only a recv of a channel without a value does.                    *)
THEOREM OnlyRecvStopsCorrect == Spec => []OnlyRecvStops
<1>1. TypeOK /\ Sane /\ Handed /\ JoinsWellFounded /\ Going => OnlyRecvStops
  <2> SUFFICES ASSUME TypeOK, Sane, Handed, JoinsWellFounded, Going, outcome = "running"
               PROVE  /\ Main \in Live
                      /\ \A S \in SUBSET Live :
                            S # {} /\ (\A t \in S, u \in Thread : HoldsUp(u, t) => u \in S)
                               => \E t \in S : CanGoOn(t) \/ Starved(t)
    BY DEF OnlyRecvStops
  <2>1. Main \in Live
    BY DEF Live, Going, Main, Thread, TypeOK
  <2>2. QED
    BY <2>1, SomeoneGoesOn
<1>2. QED
  BY <1>1, GoingHolds, PTL

(* A value and a receiver always meet: none is left behind by the mutex.       *)
THEOREM NoWakeUpIsLost == Spec => []NoWakeUpLost
<1>1. TypeOK /\ Handed => NoWakeUpLost
  <2> SUFFICES ASSUME TypeOK, Handed, NEW c \in Chan, queue[c] # << >>, NEW t \in Receivers(c)
               PROVE  \E r \in Receivers(c) : CanGoOn(r)
    BY DEF NoWakeUpLost
  <2>1. {v \in Thread : phase[v] = "recv" /\ chan[v] = c} = {receiver[c]} \ {Nobody}
    BY DEF Handed, ChannelInv, ChannelsAreFifo
  <2>2. CASE receiver[c] = Nobody
    <3>1. phase[t] \in {"lock", "try"} /\ chan[t] = c
      BY <2>1, <2>2 DEF Receivers
    <3>2. QED
      BY <2>2, <3>1 DEF CanGoOn, Free
  <2>3. CASE receiver[c] # Nobody
    <3>1. /\ receiver[c] \in Thread /\ phase[receiver[c]] = "recv" /\ chan[receiver[c]] = c
      BY <2>1, <2>3
    <3>2. receiver[c] \in Receivers(c) /\ CanGoOn(receiver[c])
      BY <3>1 DEF Receivers, CanGoOn
    <3>3. QED
      BY <3>2
  <2>4. QED
    BY <2>2, <2>3
<1>2. QED
  BY <1>1, HandedHolds, PTL

=============================================================================
