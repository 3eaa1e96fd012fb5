------------------------------ MODULE SparkPool ------------------------------
(***************************************************************************)
(* What the queue of sparks promises in every build, without locks too: a  *)
(* term that is pushed may get lost, or be handed out to several workers,  *)
(* but what is handed out was pushed and has not been freed since, for the *)
(* collector keeps all that can still come out.  MarkSweep relies on this  *)
(* promise, and TermQueue keeps it.                                        *)
(***************************************************************************)
CONSTANT Terms

VARIABLES pool,    \* the terms that can still come out of the queue
          alive,   \* the terms that are allocated
          roots    \* and those that some worker's evaluation holds

Init == pool = {} /\ alive = {} /\ roots = {}

NewTerm(x) ==
  /\ x \notin alive
  /\ alive' = alive \cup {x} /\ roots' = roots \cup {x}
  /\ UNCHANGED pool

Drop(x) ==
  /\ x \in roots
  /\ roots' = roots \ {x}
  /\ UNCHANGED <<pool, alive>>

Push(x) ==
  /\ x \in roots
  /\ pool' \in SUBSET (pool \cup {x})
  /\ UNCHANGED <<alive, roots>>

Pop(x) ==
  /\ x \in pool
  /\ pool' \in SUBSET pool
  /\ roots' = roots \cup {x}
  /\ UNCHANGED alive

Lose ==
  /\ pool' \in SUBSET pool
  /\ UNCHANGED <<alive, roots>>

GlobalGC ==
  /\ alive' = alive \cap (roots \cup pool)
  /\ UNCHANGED <<pool, roots>>

Next ==
  \/ \E x \in Terms : NewTerm(x) \/ Drop(x) \/ Push(x) \/ Pop(x)
  \/ Lose \/ GlobalGC

Spec == Init /\ [][Next]_<<pool, alive, roots>>
==============================================================================
