--------------------------- MODULE PthreadBarrier ---------------------------
(***************************************************************************)
(* barrier.h: the barrier for Mac, made of a mutex, a condition variable   *)
(* and a counter.  The waiters do not test anything when they wake up, so  *)
(* it is a barrier only if pthread_cond_wait never returns without a       *)
(* broadcast (Spec); POSIX allows that it does (SpuriousSpec).             *)
(***************************************************************************)
EXTENDS Integers, FiniteSets

CONSTANTS Threads,          \* the threads that use the barrier
          NOBODY            \* "mutex not locked"

ASSUME ThreadsAssumption == IsFiniteSet(Threads) /\ Threads # {}
ASSUME NobodyAssumption == NOBODY \notin Threads

VARIABLES mutex,   \* owner of barrier->mutex
          count,   \* barrier->count
          pc       \* where each thread is in pthread_barrier_wait

vars == <<mutex, count, pc>>

(* pthread_barrier_init is called with the number of workers.              *)
tripCount == Cardinality(Threads)

At(l) == {w \in Threads : pc[w] = l}

(* Types; the counter never reaches tripCount outside the mutex.           *)
TypeOK ==
  /\ mutex \in Threads \cup {NOBODY}
  /\ count \in 0 .. tripCount-1
  /\ pc \in [Threads -> {"out", "locked", "waiting", "woken", "ret_0", "ret_serial"}]

Init ==
  /\ mutex = NOBODY
  /\ count = 0
  /\ pc = [w \in Threads |-> "out"]

Lock(w) ==
  /\ pc[w] = "out" /\ mutex = NOBODY
  /\ mutex' = w
  /\ pc' = [pc EXCEPT ![w] = "locked"]
  /\ UNCHANGED count

Full_OffByOne == count >= tripCount

Full == count + 1 >= tripCount

(* pthread_cond_wait gives the mutex up and blocks in one step.            *)
Wait(w) ==
  /\ pc[w] = "locked" /\ ~Full
  /\ count' = count + 1
  /\ mutex' = NOBODY
  /\ pc' = [pc EXCEPT ![w] = "waiting"]

Broadcast_Signal(w) ==
  \/ /\ At("waiting") = {}
     /\ pc' = [pc EXCEPT ![w] = "ret_serial"]
  \/ \E v \in At("waiting") : pc' = [pc EXCEPT ![v] = "woken", ![w] = "ret_serial"]

Broadcast(w) ==
  pc' = [v \in Threads |-> IF v = w THEN "ret_serial"
                           ELSE IF pc[v] = "waiting" THEN "woken" ELSE pc[v]]

Reset_Keep == UNCHANGED count

Reset == count' = 0

Trip(w) ==
  /\ pc[w] = "locked" /\ Full
  /\ Reset
  /\ Broadcast(w)
  /\ mutex' = NOBODY

(* Waking up takes the mutex again, only to release it.                    *)
Relock(w) ==
  /\ pc[w] = "woken" /\ mutex = NOBODY
  /\ pc' = [pc EXCEPT ![w] = "ret_0"]
  /\ UNCHANGED <<mutex, count>>

Return(w) ==
  /\ pc[w] \in {"ret_0", "ret_serial"}
  /\ pc' = [pc EXCEPT ![w] = "out"]
  /\ UNCHANGED <<mutex, count>>

Step(w) == Lock(w) \/ Wait(w) \/ Trip(w) \/ Relock(w) \/ Return(w)

Next == \E w \in Threads : Step(w)

Spec == Init /\ [][Next]_vars

(* Every thread runs on and calls the barrier again.                       *)
FairSpec == Spec /\ \A w \in Threads : WF_vars(Step(w))

(* pthread_cond_wait returns on its own.                                   *)
Spurious(w) ==
  /\ pc[w] = "waiting"
  /\ pc' = [pc EXCEPT ![w] = "woken"]
  /\ UNCHANGED <<mutex, count>>

SpuriousSpec == Init /\ [][Next \/ \E w \in Threads : Spurious(w)]_vars

-----------------------------------------------------------------------------
(* Without spurious wake-ups barrier->count is the number of blocked       *)
(* threads, whatever the order of arrivals and late wake-ups of the round  *)
(* before, so the last arrival is always recognised (barrier.h:62-66).     *)
CountWaiting == count = Cardinality(At("waiting"))

(* The replacement behaves as the native barrier: every round is completed *)
(* by all threads, and exactly one of them is the serial thread            *)
(* (barrier.h:80, "else just use native pthread calls").                   *)
Native == INSTANCE Barrier
  WITH arrived  <- At("waiting"),
       released <- At("woken") \cup At("ret_0") \cup At("ret_serial"),
       serial   <- At("ret_serial")
IsBarrier == Native!Spec

(* No thread is left behind in a round: a woken thread always returns,     *)
(* although the others may already be in the next round.                   *)
EveryoneReturns == \A w \in Threads : pc[w] = "waiting" ~> pc[w] = "out"

(* Only the mutex and the condition variable hold a thread.                *)
CanStep(w) ==
  \/ pc[w] \in {"locked", "ret_0", "ret_serial"}
  \/ pc[w] \in {"out", "woken"} /\ mutex = NOBODY

(* The threads never all wait: who holds the mutex can go on, and when     *)
(* nobody does, not all are blocked in pthread_cond_wait, since the last   *)
(* to arrive does not block (barrier.h:57-76).                             *)
NobodyStuck == \E w \in Threads : CanStep(w) /\ (mutex # NOBODY => w = mutex)
=============================================================================
