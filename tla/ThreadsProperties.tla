-------------------------- MODULE ThreadsProperties --------------------------
(* What must hold of the threads of a program.                             *)
EXTENDS Threads

Waiting(t) == phase[t] \in {"join"} \cup InMap

(* What t may come to wait for: the handles it can reach, and the workers of *)
(* the parallel_map it is in.                                              *)
Reach(t) == knows[t] \cup IF phase[t] \in InMap THEN crew[t] ELSE {}

(***************************************************************************)
(* Nobody can wait for a thread that can come to wait for it: among any      *)
(* threads there is one that can reach none of them.  Handles only travel    *)
(* down, in the arguments of a new thread, and up, in the value of a         *)
(* finished one (spawn_async, await_future), so this is an invariant of the   *)
(* calls, and joins alone never deadlock.                                   *)
(***************************************************************************)
JoinsWellFounded ==
    \A S \in SUBSET Thread : S # {} => \E t \in S : Reach(t) \cap S = {}

(* The inductive part of JoinsWellFounded: a thread waits only for threads   *)
(* it can reach, and a thread that has not started is reached by nobody.     *)
WaitsAreReached ==
    \A t \in Thread :
        /\ phase[t] = "join" => operand[t] \in knows[t]
        /\ phase[t] = "map"  => operand[t] \in crew[t]

OnlyStartedReached ==
    \A t \in Thread :
        /\ knows[t] \subseteq 1..created
        /\ crew[t] \subseteq 1..created
        /\ phase[t] # "none" => t <= created

EndingsKnown ==
    \A t \in Thread :
        /\ phase[t] = "ended" => result[t] \in Ending
        /\ phase[t] = "map" => blame[t] = Nobody
        /\ phase[t] = "scope" /\ blame[t] # Nobody => phase[blame[t]] = "ended"

(* The thread is waiting in the runtime for the end of u.                   *)
WaitsOn(t, u) ==
    \/ phase[t] \in {"join", "map"} /\ u = operand[t]
    \/ phase[t] \in {"scope", "unwind"} /\ u \in crew[t] /\ phase[u] # "ended"

(* No set of threads each of which waits for another of them to end.        *)
NoJoinCycle ==
    \A S \in SUBSET Thread : S # {} =>
        \E t \in S : \A u \in S : ~ WaitsOn(t, u)

(***************************************************************************)
(* The join slot is taken once: a spawned thread's handle is still in its    *)
(* slot, or exactly one thread is waiting with it or has been given the       *)
(* thread's result.  No error is delivered twice, and none is dropped by a    *)
(* race between two joiners.                                                *)
(***************************************************************************)
Joining(u) == {t \in Thread : phase[t] = "join" /\ operand[t] = u}
Takers(u)  == Joining(u) \cup {t \in Thread : u \in joined[t]}

HandleTakenOnce ==
    \A u \in 1..created :
        /\ Cardinality(Takers(u)) <= 1
        /\ u \in slots => Takers(u) = {}
        /\ \A t \in Joining(u) : u \notin joined[t]

(***************************************************************************)
(* A fault is not contained by a join: a thread that ended normally waited   *)
(* for no thread that faulted or panicked, in a join or in the parallel_map   *)
(* it ran last.                                                            *)
(***************************************************************************)
FaultsSurface ==
    \A t \in Thread : result[t] = "ok" =>
        /\ \A u \in joined[t] : result[u] \in {"ok", "throw"}
        /\ blame[t] # Nobody => result[blame[t]] = "throw"

(***************************************************************************)
(* "Fully deterministic regardless of scheduling" (builtin_parallel_map):    *)
(* the error parallel_map returns is that of the first element, in input      *)
(* order, whose worker fails, and it returns or unwinds only when every       *)
(* worker has ended, however they interleave.                               *)
(***************************************************************************)
MapIsOrdered ==
    \A t \in Thread :
        /\ phase[t] \notin InMap => \A w \in crew[t] : phase[w] = "ended"
        /\ phase[t] = "scope" =>
             /\ \A w \in crew[t] : w < blame[t] => result[w] = "ok"
             /\ blame[t] = Nobody => \A w \in crew[t] : result[w] = "ok"

(***************************************************************************)
(* Every channel is a FIFO queue with one receiver at a time: the values     *)
(* received are a prefix of those sent, in order, each given to one caller,   *)
(* and the mutex is held by exactly the thread blocked in recv.             *)
(***************************************************************************)
ChannelsAreFifo ==
    \A c \in Chan :
        /\ received[c] \o queue[c] = [i \in 1..sent[c] |-> i]
        /\ {t \in Thread : phase[t] = "recv" /\ chan[t] = c} = {receiver[c]} \ {Nobody}

(* Joins, awaits and parallel_maps always finish: unless a thread receives    *)
(* for ever, waiting or polling, the program ends.                          *)
AlwaysEnds ==
    (\A t \in Thread : <>[](phase[t] \notin {"lock", "recv", "try"}))
        => <>(outcome # "running")

Receivers(c) == {t \in Thread : phase[t] \in {"lock", "recv", "try"} /\ chan[t] = c}

(* A value sent is received if somebody is there to receive: no wake-up is   *)
(* lost between the queue and the mutex.                                    *)
ValuesReachReceivers ==
    \A c \in Chan :
        (queue[c] # << >> /\ Receivers(c) # {})
            ~> (queue[c] = << >> \/ Receivers(c) = {} \/ outcome # "running")

(***************************************************************************)
(* A program stands still in one way only: a recv of a channel nobody has sent  *)
(* to.  Whoever a thread waits for, in a join, in a parallel_map or for a       *)
(* channel's mutex, and whoever those wait for: one of them runs user code, or  *)
(* can go on in the runtime, or is in recv with nothing to receive.            *)
(***************************************************************************)
Live == {t \in Thread : phase[t] \notin {"none", "ended"}}

HoldsUp(u, t) ==
    \/ WaitsOn(t, u) /\ phase[u] # "ended"
    \/ phase[t] \in {"lock", "try"} /\ u = receiver[chan[t]]

CanGoOn(t) ==
    \/ phase[t] = "body"
    \/ phase[t] \in {"join", "map"} /\ phase[operand[t]] = "ended"
    \/ phase[t] \in {"scope", "unwind"} /\ ScopeDone(t)
    \/ phase[t] \in {"lock", "try"} /\ Free(chan[t])
    \/ phase[t] = "recv" /\ queue[chan[t]] # << >>

Starved(t) == phase[t] = "recv" /\ queue[chan[t]] = << >>

OnlyRecvStops ==
    outcome = "running" =>
        /\ Main \in Live
        /\ \A S \in SUBSET Live :
              S # {} /\ (\A t \in S, u \in Thread : HoldsUp(u, t) => u \in S)
                 => \E t \in S : CanGoOn(t) \/ Starved(t)

(* While a channel has a value and a receiver, one of its receivers can go on:  *)
(* the one with the mutex, or all of them if nobody has it.                    *)
NoWakeUpLost ==
    \A c \in Chan : queue[c] # << >> /\ Receivers(c) # {} => \E t \in Receivers(c) : CanGoOn(t)

=============================================================================
