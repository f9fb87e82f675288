------------------------------- MODULE Threads -------------------------------
(***************************************************************************)
(* The OS threads of a running program: spawn and task_join, async fn and   *)
(* await, parallel_map, and channels                                       *)
(* (src/crates/lullaby_runtime/src/runtime_concurrency.rs and the builtins  *)
(* over it; every interpreter tier calls the same join, await and channel   *)
(* code).  Threads share nothing but channels and join slots.  A Task and a  *)
(* Future are the same thing here: a slot holding a JoinHandle until the     *)
(* first task_join or await takes it out.                                   *)
(*                                                                         *)
(* An operator named Mutant... is a deliberate mistake in the operator that  *)
(* follows it; no action uses it.                                          *)
(***************************************************************************)
EXTENDS Integers, Sequences, FiniteSets, SequencesExt

CONSTANTS
    MaxThreads,   \* bound: threads a run may start, main's included
    MaxMap,       \* bound: elements given to one parallel_map
    MaxSends,     \* bound: values sent on one channel
    Chan          \* the channels of the program

ASSUME ThreadBounds ==
    /\ MaxThreads \in Nat \ {0} /\ MaxMap \in Nat /\ MaxSends \in Nat

Thread == 1..MaxThreads
Main   == 1
Nobody == 0

VARIABLES
    created,   \* threads started so far
    phase,     \* what each thread is doing
    operand,   \* the thread it joins, or the worker its map joins next
    chan,      \* the channel it receives from
    slots,     \* threads whose join slot still holds the JoinHandle
    result,    \* how a thread ended: ok, throw (L0420), fault, panic
    knows,     \* the Task and Future handles a thread can reach
    crew,      \* the workers of its latest parallel_map
    blame,     \* the worker whose error that parallel_map returns
    queue,     \* per channel, the values sent and not yet received
    sent,      \* per channel, the number of values sent
    receiver,  \* per channel, the thread holding the receiver's mutex
    outcome,   \* running, or how main ended
    joined,    \* history: the threads whose handle it took and waited for
    received   \* history: per channel, the values received, in order

joinVars == <<created, operand, slots, knows, crew, blame, joined>>
chanVars == <<chan, queue, sent, receiver, received>>
endVars  == <<result, outcome>>
vars == <<phase, joinVars, chanVars, endVars>>

(***************************************************************************)
(*   body       user code is running                                       *)
(*   join       in task_join or await, having taken the handle              *)
(*   map        in parallel_map, joining its workers in input order         *)
(*   scope      in parallel_map, waiting for the scope's other threads      *)
(*   unwind     the same, with a panic to resume                            *)
(*   lock       in recv, waiting for the receiver's mutex                   *)
(*   recv       in recv, blocked on the queue with the mutex held           *)
(*   try        in try_recv, waiting for the receiver's mutex               *)
(***************************************************************************)
InMap == {"map", "scope", "unwind"}
Phase == {"none", "body", "join", "lock", "recv", "try", "ended"} \cup InMap
Ending == {"ok", "throw", "fault", "panic"}

TypeOK ==
    /\ created \in Thread
    /\ phase \in [Thread -> Phase]
    /\ operand \in [Thread -> Thread \cup {Nobody}]
    /\ chan \in [Thread -> Chan \cup {Nobody}]
    /\ slots \subseteq Thread
    /\ result \in [Thread -> Ending \cup {"none"}]
    /\ knows \in [Thread -> SUBSET Thread]
    /\ crew \in [Thread -> SUBSET Thread]
    /\ blame \in [Thread -> Thread \cup {Nobody}]
    /\ queue \in [Chan -> Seq(1..MaxSends)]
    /\ sent \in [Chan -> 0..MaxSends]
    /\ receiver \in [Chan -> Thread \cup {Nobody}]
    /\ outcome \in Ending \cup {"running"}
    /\ joined \in [Thread -> SUBSET Thread]
    /\ received \in [Chan -> Seq(1..MaxSends)]

Init ==
    /\ created = Main
    /\ phase = [t \in Thread |-> IF t = Main THEN "body" ELSE "none"]
    /\ operand = [t \in Thread |-> Nobody]
    /\ chan = [t \in Thread |-> Nobody]
    /\ slots = {}
    /\ result = [t \in Thread |-> "none"]
    /\ knows = [t \in Thread |-> {}]
    /\ crew = [t \in Thread |-> {}]
    /\ blame = [t \in Thread |-> Nobody]
    /\ queue = [c \in Chan |-> << >>]
    /\ sent = [c \in Chan |-> 0]
    /\ receiver = [c \in Chan |-> Nobody]
    /\ outcome = "running"
    /\ joined = [t \in Thread |-> {}]
    /\ received = [c \in Chan |-> << >>]

At(t, p) == outcome = "running" /\ phase[t] = p
Goto(t, p) == phase' = [phase EXCEPT ![t] = p]

(* The thread's closure returns or unwinds.  The process ends with main: no *)
(* detached thread is waited for.                                          *)
EndAs(t, ending) ==
    /\ Goto(t, "ended")
    /\ result' = [result EXCEPT ![t] = ending]
    /\ outcome' = IF t = Main THEN ending ELSE outcome

-----------------------------------------------------------------------------
(* Threads.                                                                *)

(* A body returns, raises L0420, or raises an error try/catch lets through. *)
EndBody(t, ending) ==
    /\ At(t, "body")
    /\ EndAs(t, ending)
    /\ UNCHANGED <<joinVars, chanVars>>

MutantNextThread == created + 2
NextThread == created + 1

MutantStartHandles(u, handles) == handles \cup {u}
StartHandles(u, handles) == handles

(***************************************************************************)
(* spawn(f, ch, v) and the call of an async fn: a new thread whose arguments *)
(* were evaluated before it exists, so that the handles it starts with are    *)
(* among its creator's.  (spawn passes a channel and a number: handles = {}.)  *)
(***************************************************************************)
Spawn(t, handles) ==
    LET u == NextThread
    IN  /\ At(t, "body")
        /\ created < MaxThreads
        /\ handles \subseteq knows[t]
        /\ created' = u
        /\ Goto(u, "body")
        /\ slots' = slots \cup {u}
        /\ knows' = [knows EXCEPT ![u] = StartHandles(u, handles), ![t] = @ \cup {u}]
        /\ UNCHANGED <<operand, crew, blame, joined, chanVars, endVars>>

(* spawn_interpreter_thread and spawn_scoped `expect` the OS to give them a *)
(* thread with a 2 GiB stack; when it does not, the caller panics.          *)
SpawnPanics(t) ==
    /\ At(t, "body")
    /\ EndAs(t, "panic")
    /\ UNCHANGED <<joinVars, chanVars>>

MutantLeaveHandle(u) == slots
TakeHandle(u) == slots \ {u}

(* join_task and await_future: take the handle, then wait for the thread.   *)
Join(t, u) ==
    /\ At(t, "body")
    /\ u \in knows[t]
    /\ u \in slots
    /\ slots' = TakeHandle(u)
    /\ Goto(t, "join")
    /\ operand' = [operand EXCEPT ![t] = u]
    /\ UNCHANGED <<created, knows, crew, blame, joined, chanVars, endVars>>

(* The slot is None: the call returns void at once.                         *)
JoinAgain(t, u) ==
    /\ At(t, "body")
    /\ u \in knows[t]
    /\ u \notin slots
    /\ operand' = [operand EXCEPT ![t] = u]
    /\ UNCHANGED <<phase, created, slots, knows, crew, blame, joined, chanVars, endVars>>

(* An error reaches the caller of join, await or parallel_map: a throw may   *)
(* be caught by a try around the call, anything else ends the thread.  The   *)
(* panic of the joined thread is an L0401.                                  *)
MutantCatchable == Ending
Catchable == {"throw"}

Raise(t, ending) ==
    \/ /\ ending \in Catchable
       /\ Goto(t, "body")
       /\ UNCHANGED endVars
    \/ EndAs(t, IF ending = "panic" THEN "fault" ELSE ending)

(* The value an async fn returns may hold handles its thread could reach.   *)
JoinReturns(t, handles) ==
    LET u == operand[t]
    IN  /\ At(t, "join")
        /\ phase[u] = "ended"
        /\ handles \subseteq knows[u]
        /\ joined' = [joined EXCEPT ![t] = @ \cup {u}]
        /\ IF result[u] = "ok"
           THEN /\ knows' = [knows EXCEPT ![t] = @ \cup handles]
                /\ Goto(t, "body")
                /\ UNCHANGED endVars
           ELSE Raise(t, result[u]) /\ UNCHANGED knows
        /\ UNCHANGED <<created, operand, slots, crew, blame, chanVars>>

-----------------------------------------------------------------------------
(* parallel_map.                                                           *)

(* One worker per element, each with a clone of the callable, hence of the  *)
(* handles a closure captured.  With next = "unwind", starting the element  *)
(* after them panicked.                                                    *)
StartMap(t, n, handles, next) ==
    LET workers == (created + 1)..(created + n)
    IN  /\ At(t, "body")
        /\ created + n <= MaxThreads
        /\ handles \subseteq knows[t]
        /\ created' = created + n
        /\ phase' = [u \in Thread |-> IF u = t THEN next
                                      ELSE IF u \in workers THEN "body" ELSE phase[u]]
        /\ knows' = [u \in Thread |-> IF u \in workers THEN handles ELSE knows[u]]
        /\ crew' = [crew EXCEPT ![t] = workers]
        /\ blame' = [blame EXCEPT ![t] = Nobody]
        /\ operand' = [operand EXCEPT ![t] = created + 1]
        /\ UNCHANGED <<slots, joined, chanVars, endVars>>

Map(t, n, handles)       == StartMap(t, n, handles, "map")
MapPanics(t, n, handles) == StartMap(t, n, handles, "unwind")

(* collect() into a Result: joins in input order, stops at the first error.  *)
MutantNextWorker(w) == w
NextWorker(w) == w + 1

MapJoin(t) ==
    LET w == operand[t]
    IN  /\ At(t, "map")
        /\ phase[w] = "ended"
        /\ IF result[w] = "ok"
           THEN /\ IF NextWorker(w) \in crew[t]
                   THEN operand' = [operand EXCEPT ![t] = NextWorker(w)] /\ UNCHANGED phase
                   ELSE Goto(t, "scope") /\ UNCHANGED operand
                /\ UNCHANGED blame
           ELSE /\ Goto(t, "scope")
                /\ blame' = [blame EXCEPT ![t] = w]
                /\ UNCHANGED operand
        /\ UNCHANGED <<created, slots, knows, crew, joined, chanVars, endVars>>

(* thread::scope returns when every thread it started has ended.  It panics  *)
(* if one of them did whose handle the loop above dropped without joining.   *)
MutantScopeDone(t) == TRUE
ScopeDone(t) == \A w \in crew[t] : phase[w] = "ended"

DroppedPanicked(t) ==
    blame[t] # Nobody /\ \E w \in crew[t] : w > blame[t] /\ result[w] = "panic"

MapReturns(t) ==
    /\ At(t, "scope")
    /\ ScopeDone(t)
    /\ IF DroppedPanicked(t) THEN EndAs(t, "panic")
       ELSE IF blame[t] = Nobody THEN Goto(t, "body") /\ UNCHANGED endVars
       ELSE Raise(t, result[blame[t]])
    /\ UNCHANGED <<joinVars, chanVars>>

MapUnwinds(t) ==
    /\ At(t, "unwind")
    /\ ScopeDone(t)
    /\ EndAs(t, "panic")
    /\ UNCHANGED <<joinVars, chanVars>>

-----------------------------------------------------------------------------
(* Channels: a queue, and a mutex around its receiving end.                 *)

Send(t, c) ==
    /\ At(t, "body")
    /\ sent[c] < MaxSends
    /\ sent' = [sent EXCEPT ![c] = @ + 1]
    /\ queue' = [queue EXCEPT ![c] = Append(@, sent[c] + 1)]
    /\ UNCHANGED <<phase, joinVars, chan, receiver, received, endVars>>

(* Both receiving calls first ask for the mutex.                            *)
Receive(t, c, how) ==
    /\ At(t, "body")
    /\ Goto(t, how)
    /\ chan' = [chan EXCEPT ![t] = c]
    /\ UNCHANGED <<joinVars, queue, sent, receiver, received, endVars>>

Recv(t, c)    == Receive(t, c, "lock")
TryRecv(t, c) == Receive(t, c, "try")

MutantFree(c) == TRUE
Free(c) == receiver[c] = Nobody

RecvLocks(t) ==
    LET c == chan[t]
    IN  /\ At(t, "lock")
        /\ Free(c)
        /\ receiver' = [receiver EXCEPT ![c] = t]
        /\ Goto(t, "recv")
        /\ UNCHANGED <<joinVars, chan, queue, sent, received, endVars>>

TakeValue(t, c) ==
    /\ queue' = [queue EXCEPT ![c] = Tail(@)]
    /\ received' = [received EXCEPT ![c] = Append(@, Head(queue[c]))]
    /\ Goto(t, "body")

(* The queue yields a value, and the guard is dropped on return.            *)
MutantUnlocked(c) == receiver
Unlocked(c) == [receiver EXCEPT ![c] = Nobody]

RecvTakes(t) ==
    LET c == chan[t]
    IN  /\ At(t, "recv")
        /\ queue[c] # << >>
        /\ TakeValue(t, c)
        /\ receiver' = Unlocked(c)
        /\ UNCHANGED <<joinVars, chan, sent, endVars>>

(* With the mutex, try_recv takes what there is and lets go at once.        *)
TryTakes(t) ==
    LET c == chan[t]
    IN  /\ At(t, "try")
        /\ Free(c)
        /\ IF queue[c] = << >>
           THEN Goto(t, "body") /\ UNCHANGED <<queue, received>>
           ELSE TakeValue(t, c)
        /\ UNCHANGED <<joinVars, chan, sent, receiver, endVars>>

-----------------------------------------------------------------------------

Body(t) ==
    \/ \E ending \in {"ok", "throw", "fault"} : EndBody(t, ending)
    \/ \E handles \in SUBSET knows[t] :
          \/ Spawn(t, handles)
          \/ \E n \in 1..MaxMap : Map(t, n, handles) \/ MapPanics(t, n, handles)
    \/ SpawnPanics(t)
    \/ \E u \in knows[t] : Join(t, u) \/ JoinAgain(t, u)
    \/ \E c \in Chan : Send(t, c) \/ Recv(t, c) \/ TryRecv(t, c)

(* What the runtime does for a thread that waits in it.                     *)
Runtime(t) ==
    \/ \E handles \in SUBSET Thread : JoinReturns(t, handles)
    \/ MapJoin(t)
    \/ MapReturns(t)
    \/ MapUnwinds(t)
    \/ RecvLocks(t)
    \/ RecvTakes(t)
    \/ TryTakes(t)

Ended == outcome # "running" /\ UNCHANGED vars

Next == (\E t \in Thread : Body(t) \/ Runtime(t)) \/ Ended

Spec == Init /\ [][Next]_vars

(* The OS runs every thread that can move, and no body computes forever.     *)
FairSpec ==
    /\ Spec
    /\ \A t \in Thread : /\ WF_vars(Runtime(t))
                         /\ WF_vars(\E ending \in {"ok", "throw", "fault"} : EndBody(t, ending))
=============================================================================
