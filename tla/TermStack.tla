------------------------------ MODULE TermStack ------------------------------
(***************************************************************************)
(* What the term queue of worker.h promises when Config::term_queue_atomic *)
(* is set: every priority is a bounded LIFO stack on which Push and Pop    *)
(* are atomic.  What a worker is given to push, or has taken, is visible   *)
(* in its `hand' until the call returns: a push that found room only ends  *)
(* by putting its term on the stack, and a pop hands out the youngest term *)
(* and takes it off in one step, so that no other pop can get it as well.  *)
(* A Push on a full stack and a Pop that finds nothing do nothing.         *)
(***************************************************************************)
EXTENDS Naturals, Sequences

CONSTANTS Workers,  \* the callers of Push and Pop
          Terms,    \* the terms that can be queued
          N,        \* Config::term_queue_size
          Prios     \* the priorities

VARIABLES stack,  \* stack[p]: the terms queued at priority p, last one on top
          hand    \* hand[w]: the call w is in, with its priority and its term

vars == <<stack, hand>>

None == [op |-> "none"]
Holding(op, p, x) == [op |-> op, prio |-> p, term |-> x]

Init ==
  /\ stack = [p \in Prios |-> << >>]
  /\ hand = [w \in Workers |-> None]

(* A worker calls Push with x while there is room; TermQueue::Push,        *)
(* worker.h:92.                                                            *)
Call(w, p, x) ==
  /\ hand[w] = None
  /\ Len(stack[p]) < N
  /\ hand' = [hand EXCEPT ![w] = Holding("push", p, x)]
  /\ UNCHANGED stack

(* The only way out of that call: the term goes on top.                    *)
Push(w) ==
  \E p \in Prios, x \in Terms :
    /\ hand[w] = Holding("push", p, x)
    /\ Len(stack[p]) < N
    /\ stack' = [stack EXCEPT ![p] = Append(@, x)]
    /\ hand' = [hand EXCEPT ![w] = None]

(* Pop takes the youngest term of some priority; TermQueue::Pop,           *)
(* worker.h:107,                                                           *)
Pop(w, p) ==
  /\ hand[w] = None
  /\ stack[p] # << >>
  /\ hand' = [hand EXCEPT ![w] = Holding("pop", p, stack[p][Len(stack[p])])]
  /\ stack' = [stack EXCEPT ![p] = SubSeq(@, 1, Len(@) - 1)]

(* and returns it.                                                         *)
Return(w) ==
  /\ hand[w].op = "pop"
  /\ hand' = [hand EXCEPT ![w] = None]
  /\ UNCHANGED stack

Next ==
  \E w \in Workers :
    \/ \E p \in Prios : Pop(w, p) \/ \E x \in Terms : Call(w, p, x)
    \/ Push(w)
    \/ Return(w)

Spec == Init /\ [][Next]_vars
==============================================================================
