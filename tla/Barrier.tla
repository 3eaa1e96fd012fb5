------------------------------- MODULE Barrier -------------------------------
(***************************************************************************)
(* The barrier the workers meet at: pthread_barrier_wait on worker_barrier *)
(* (worker.h:149, 373-384), which is initialised for all of them           *)
(* (worker.h:192).  This is the contract of the native call; the           *)
(* replacement of barrier.h for systems that have none is PthreadBarrier.  *)
(***************************************************************************)
EXTENDS Integers, FiniteSets

CONSTANT Threads   \* the threads the barrier counts

VARIABLES arrived,   \* threads blocked in the current round
          released,  \* threads whose round is complete and that have not returned yet
          serial     \* those of them that will return PTHREAD_BARRIER_SERIAL_THREAD

barrierVars == <<arrived, released, serial>>

(* A thread is in one round at a time.                                     *)
TypeOK ==
  /\ arrived \subseteq Threads
  /\ released \subseteq Threads \ arrived
  /\ serial \subseteq released

Init == arrived = {} /\ released = {} /\ serial = {}

Last_OneShort(w) == Cardinality(arrived \cup {w}) >= Cardinality(Threads) - 1

Last(w) == arrived \cup {w} = Threads

(* A thread that is not the last of its round blocks.                      *)
Arrive(w) ==
  /\ w \notin arrived \cup released
  /\ ~Last(w)
  /\ arrived' = arrived \cup {w}
  /\ UNCHANGED <<released, serial>>

(* The last one completes the round; any one of them is told it is the     *)
(* serial thread.                                                          *)
Trip(w) ==
  /\ w \notin arrived \cup released
  /\ Last(w)
  /\ released' = released \cup arrived \cup {w}
  /\ arrived' = {}
  /\ \E s \in arrived \cup {w} : serial' = serial \cup {s}

Leave(w) ==
  /\ w \in released
  /\ released' = released \ {w}
  /\ serial' = serial \ {w}
  /\ UNCHANGED arrived

Next == \E w \in Threads : Arrive(w) \/ Trip(w) \/ Leave(w)

Spec == Init /\ [][Next]_barrierVars
==============================================================================
