------------------------------ MODULE Collection ------------------------------
(***************************************************************************)
(* The order in which the threads go through a global collection, DoGC of  *)
(* gc_marksweep.h with gc_barrier_wait: what one barrier between every two *)
(* phases is there for.  A phase is named for the barrier that its thread  *)
(* comes to next, or stands at; a thread that evaluates, collects its      *)
(* local terms or is about to end takes part in none ("run").  MarkSweep   *)
(* collects in this order, and Worker shows that the threads keep to it.   *)
(***************************************************************************)
CONSTANT Workers

VARIABLE phase   \* "gc2" has unmarked, "mark" marks, "gc3" has swept its
                 \* local terms, "gc4" its global ones

Init == phase = [w \in Workers |-> "run"]

Go(w, from, to) == phase[w] = from /\ phase' = [phase EXCEPT ![w] = to]

(* A barrier holds a worker back until all others are there or behind it.  *)
Arrived(behind) == \A w \in Workers : phase[w] \in behind

Enter(w) == Go(w, "run", "gc1")

Unmark(w) == Go(w, "gc1", "gc2") /\ Arrived({"gc1", "gc2"})

Mark(w) == Go(w, "gc2", "mark") /\ Arrived({"gc2", "mark", "gc3"})

SweepLocal(w) == Go(w, "mark", "gc3")

SweepGlobal(w) == Go(w, "gc3", "gc4") /\ Arrived({"gc3", "gc4"})

Resume(w) == Go(w, "gc4", "run") /\ Arrived({"gc4", "run", "gc1"})

Next ==
  \E w \in Workers :
    Enter(w) \/ Unmark(w) \/ Mark(w) \/ SweepLocal(w) \/ SweepGlobal(w) \/ Resume(w)

Spec == Init /\ [][Next]_phase
===============================================================================
