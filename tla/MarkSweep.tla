----------------------------- MODULE MarkSweep -----------------------------
(***************************************************************************)
(* Heap<gc_mark_sweep>::DoGC (gc_marksweep.h) on the terms of term.h.      *)
(*                                                                         *)
(* Every worker has a heap of its own, with lists of free, new, local and  *)
(* global terms; it alone moves, unmarks and frees what is on them.  Local *)
(* terms are seen by their worker only; global terms by everyone, and they *)
(* refer to global terms only.  A worker collects its local terms whenever *)
(* it likes, while the others go on; a collection of the global terms is   *)
(* done by all workers together, between the barriers gc1 to gc4.          *)
(*                                                                         *)
(* A term is an address with the terms it refers to: function and argument *)
(* of an Application, or the one term it indirects to.  A barrier is used  *)
(* by its contract (module Barrier): a worker passes it once all others    *)
(* have arrived there.  Worker shows that they do.                         *)
(***************************************************************************)
EXTENDS Naturals, FiniteSets

CONSTANTS
  Workers,
  Terms,      \* the elements of the heaps
  Home,       \* Home[t]: the worker whose heap holds t
  MaxRefs,    \* bound on the references of a term: 2 for an Application
  MaxQueue,   \* bound on the terms in the queue, which loses the others
  Locals,     \* bound: elements that may be allocated for a local term,
  Globals     \* and for a global term; both are Terms in the code

NoWorker == "none"

ASSUME HeapAssumption ==
  /\ Workers # {} /\ NoWorker \notin Workers
  /\ Home \in [Terms -> Workers]
  /\ MaxRefs \in Nat /\ MaxQueue \in Nat
  /\ Locals \subseteq Terms /\ Globals \subseteq Terms

VARIABLES
  list,       \* the list of its heap a term is on: free, new, local, global
  global,     \* IsGlobal()
  m_marked,   \* unborn, active or old; dead terms are free
  ref,        \* the terms a term refers to
  ind,        \* whether its one reference is an indirection
  roots,      \* term_stack and worker_eval_stack of a worker
  queue,      \* the terms in the queue of parallel work
  marking,    \* m_marking: the terms a worker has yet to mark
  phase,      \* where a worker is: evaluating, marking, or at a barrier
  serial      \* the worker that marks the queue in this collection

heap == <<list, global, m_marked, ref, ind>>
gc == <<marking, phase, serial>>
vars == <<heap, roots, queue, gc>>

Waiting == {"gc1", "gc2", "gc3", "gc4"}

\* The terms of a heap are on one of its lists; marking is empty while a
\* worker evaluates or waits; a free element refers to nothing.
TypeOK ==
  /\ list \in [Terms -> {"free", "new", "local", "global"}]
  /\ global \in [Terms -> BOOLEAN]
  /\ m_marked \in [Terms -> {"unborn", "active", "old"}]
  /\ ref \in [Terms -> SUBSET Terms]
  /\ ind \in [Terms -> BOOLEAN]
  /\ roots \in [Workers -> SUBSET Terms]
  /\ queue \in SUBSET Terms
  /\ marking \in [Workers -> SUBSET Terms]
  /\ phase \in [Workers -> {"run", "lmark", "mark"} \cup Waiting]
  /\ serial \in Workers \cup {NoWorker}
  /\ \A t \in Terms : list[t] = "free" => ref[t] = {} /\ ~ind[t]
  /\ \A w \in Workers : marking[w] # {} => phase[w] \in {"lmark", "mark"}

Init ==
  /\ list = [t \in Terms |-> "free"]
  /\ global = [t \in Terms |-> FALSE]
  /\ m_marked = [t \in Terms |-> "unborn"]
  /\ ref = [t \in Terms |-> {}]
  /\ ind = [t \in Terms |-> FALSE]
  /\ roots = [w \in Workers |-> {}]
  /\ queue = {}
  /\ marking = [w \in Workers |-> {}]
  /\ phase = [w \in Workers |-> "run"]
  /\ serial = NoWorker

Own(w, l) == {t \in Terms : Home[t] = w /\ list[t] = l}
Born(t) == m_marked[t] # "unborn"

\* What can be reached from S: it is in every set that holds S and is closed
\* under following the references of those terms that follow selects.
Closure(S, follow(_)) ==
  {t \in Terms : \A C \in SUBSET Terms :
     S \subseteq C /\ (\A u \in C : follow(u) => ref[u] \subseteq C) => t \in C}
Reachable(S) == LET all(t) == TRUE IN Closure(S, all)

\* The term and those it indirects to; FollowFullIndirection is the last.
Indirections(t) == LET indirects(u) == ind[u] IN Closure({t}, indirects)
FollowFullIndirection(t) == CHOOSE u \in Indirections(t) : ~ind[u]

-----------------------------------------------------------------------------
(* Evaluation: what workers do to terms.                                   *)

Evaluating(w) == phase[w] = "run"

\* The terms that the code of a worker may refer to.
Usable(w) == {t \in roots[w] : Born(t)}

Operands(S) == {R \in SUBSET S : Cardinality(R) <= MaxRefs}

\* A new local term, born in the constructor of Term.
New(w, t) ==
  /\ Evaluating(w) /\ t \in Own(w, "free") \cap Locals
  /\ \E R \in Operands(Usable(w)) : ref' = [ref EXCEPT ![t] = R]
  /\ list' = [list EXCEPT ![t] = "new"]
  /\ m_marked' = [m_marked EXCEPT ![t] = "old"]
  /\ roots' = [roots EXCEPT ![w] = @ \cup {t}]
  /\ UNCHANGED <<global, ind, queue, gc>>

\* Globalize allocates a copy that stays unborn while the terms it will
\* refer to are globalized in turn, which may allocate and collect.
Construct(w, t) ==
  /\ Evaluating(w) /\ t \in Own(w, "free") \cap Globals
  /\ list' = [list EXCEPT ![t] = "new"]
  /\ global' = [global EXCEPT ![t] = TRUE]
  /\ roots' = [roots EXCEPT ![w] = @ \cup {t}]
  /\ UNCHANGED <<m_marked, ref, ind, queue, gc>>

\* The copy is complete.  MatchMemCtor has kept its operands rooted.
MarkBirth(w, t) ==
  /\ Evaluating(w) /\ t \in Own(w, "new") /\ ~Born(t)
  /\ \E R \in Operands({u \in Usable(w) : global[u]}) :
       ref' = [ref EXCEPT ![t] = R]
  /\ m_marked' = [m_marked EXCEPT ![t] = "old"]
  /\ UNCHANGED <<list, global, ind, roots, queue, gc>>

\* A reduced or globalized term becomes an indirection.  No circles: what a
\* term is reduced to does not indirect to it.
SetIndirection(w, t, to) ==
  /\ Evaluating(w) /\ {t, to} \subseteq Usable(w)
  /\ global[t] => global[to]
  /\ t \notin Indirections(to)
  /\ ref' = [ref EXCEPT ![t] = {to}]
  /\ ind' = [ind EXCEPT ![t] = TRUE]
  /\ UNCHANGED <<list, global, m_marked, roots, queue, gc>>

\* A pointer on the stack of the worker is set, or goes out of scope.
Load(w, t, u) ==
  /\ Evaluating(w) /\ t \in Usable(w) /\ u \in ref[t] \ roots[w]
  /\ roots' = [roots EXCEPT ![w] = @ \cup {u}]
  /\ UNCHANGED <<heap, queue, gc>>

Drop(w, t) ==
  /\ Evaluating(w) /\ t \in Usable(w)
  /\ roots' = [roots EXCEPT ![w] = @ \ {t}]
  /\ UNCHANGED <<heap, queue, gc>>

\* The queue, by its promise (SparkPool): terms may get lost, and be handed
\* out more than once.
Push(w, t) ==
  /\ Evaluating(w) /\ t \in Usable(w) /\ global[t]
  /\ queue' \in SUBSET (queue \cup {t})
  /\ Cardinality(queue') <= MaxQueue
  /\ UNCHANGED <<heap, roots, gc>>

Pop(w, t) ==
  /\ Evaluating(w) /\ t \in queue
  /\ roots' = [roots EXCEPT ![w] = @ \cup {t}]
  /\ queue' \in SUBSET queue
  /\ UNCHANGED <<heap, gc>>

Evaluate(w) ==
  \E t \in Terms :
    \/ New(w, t) \/ Construct(w, t) \/ MarkBirth(w, t)
    \/ \E u \in Terms : SetIndirection(w, t, u) \/ Load(w, t, u)
    \/ Drop(w, t) \/ Push(w, t) \/ Pop(w, t)

-----------------------------------------------------------------------------
(* Collection.                                                             *)

Goto(w, p) == phase' = [phase EXCEPT ![w] = p]

\* All workers have arrived at a barrier when each is there or behind it.
Arrived(behind) == \A w \in Workers : phase[w] \in behind

\* DoGC(true); nothing happens if there are no local terms.
StartLocal(w) ==
  /\ Evaluating(w)
  /\ Own(w, "new") \cup Own(w, "local") # {}
  /\ Goto(w, "lmark")
  /\ marking' = [marking EXCEPT ![w] = roots[w]]
  /\ UNCHANGED <<heap, roots, queue, serial>>

\* DoGC(false), up to its first barrier.
StartGlobal(w) ==
  /\ Evaluating(w)
  /\ Goto(w, "gc1")
  /\ UNCHANGED <<heap, roots, queue, marking, serial>>

\* What is left of the mark of a born term after MarkOld (term.h:273).
MarkOld_Forgotten(t) == m_marked[t]
MarkOld(t) == "old"

\* Local collections of any worker leave their marks on global terms.
Unmarked_GlobalsOnly(w) == {t \in Own(w, "global") : Born(t)}
Unmarked(w) ==
  {t \in Own(w, "global") \cup Own(w, "new") : Born(t)}

Unmark(w) ==
  /\ phase[w] = "gc1" /\ Arrived({"gc1", "gc2"})
  /\ Goto(w, "gc2")
  /\ m_marked' = [t \in Terms |-> IF t \in Unmarked(w) THEN MarkOld(t) ELSE m_marked[t]]
  /\ UNCHANGED <<list, global, ref, ind, roots, queue, marking, serial>>

\* One worker finds that it is the serial thread of the barrier and marks the
\* queue, too: any worker, but one of them.
MarkRoots(w) ==
  /\ phase[w] = "gc2" /\ Arrived({"gc2", "mark", "gc3"})
  /\ Goto(w, "mark")
  /\ \/ /\ serial = NoWorker
        /\ serial' = w
        /\ marking' = [marking EXCEPT ![w] = roots[w] \cup queue]
     \/ /\ serial # NoWorker \/ \E v \in Workers \ {w} : phase[v] = "gc2"
        /\ serial' = serial
        /\ marking' = [marking EXCEPT ![w] = roots[w]]
  /\ UNCHANGED <<heap, roots, queue>>

\* MarkActive: a term is marked and what it refers to is next.  Unborn terms
\* and those already marked are passed over.  The chain of an indirection is shortened (Application; a
\* Blackhole with a result, which is not shortened, counts as a reference).
MarkActive(w, t) ==
  /\ t \in marking[w]
  /\ LET next == IF ind[t] THEN {FollowFullIndirection(t)} ELSE ref[t]
     IN IF m_marked[t] = "old"
        THEN /\ m_marked' = [m_marked EXCEPT ![t] = "active"]
             /\ ref' = [ref EXCEPT ![t] = next]
             /\ marking' = [marking EXCEPT ![w] = (@ \ {t}) \cup next]
        ELSE /\ marking' = [marking EXCEPT ![w] = @ \ {t}]
             /\ UNCHANGED <<m_marked, ref>>
  /\ UNCHANGED <<list, global, ind, roots, queue, phase, serial>>

MarkedAll(w) == marking[w] = {}

\* Of the terms swept, those not marked are freed and the others become old
\* again; like those kept, they go from the list of new terms to their own.
Sweep(swept, kept) ==
  LET dead == {t \in swept : m_marked[t] = "old"}
  IN /\ list' = [t \in Terms |->
          IF t \in dead THEN "free"
          ELSE IF t \in swept \cup kept
          THEN IF global[t] THEN "global" ELSE "local"
          ELSE list[t]]
     /\ m_marked' = [t \in Terms |->
          IF t \in dead THEN "unborn"
          ELSE IF t \in swept THEN MarkOld(t) ELSE m_marked[t]]
     /\ global' = [t \in Terms |-> global[t] /\ t \notin dead]
     /\ ind' = [t \in Terms |-> ind[t] /\ t \notin dead]
     /\ ref' = [t \in Terms |-> IF t \in dead THEN {} ELSE ref[t]]
  /\ UNCHANGED <<roots, queue, marking>>

\* New terms that are not born stay where they are; new global terms are
\* taken for alive.
SweepLocal(w) ==
  /\ MarkedAll(w)
  /\ \/ phase[w] = "lmark" /\ Goto(w, "run")
     \/ phase[w] = "mark" /\ Goto(w, "gc3")
  /\ LET new == {t \in Own(w, "new") : Born(t)}
     IN Sweep(Own(w, "local") \cup {t \in new : ~global[t]},
              {t \in new : global[t]})
  /\ UNCHANGED serial

SweepGlobal(w) ==
  /\ phase[w] = "gc3" /\ Arrived({"gc3", "gc4"})
  /\ Goto(w, "gc4")
  /\ Sweep(Own(w, "global"), {})
  /\ serial' = NoWorker

Resume(w) ==
  /\ phase[w] = "gc4" /\ Arrived({"gc4", "run", "lmark", "gc1"})
  /\ Goto(w, "run")
  /\ UNCHANGED <<heap, roots, queue, marking, serial>>

DoGC(w) ==
  \/ StartLocal(w) \/ StartGlobal(w) \/ Unmark(w) \/ MarkRoots(w)
  \/ \E t \in Terms : MarkActive(w, t)
  \/ SweepLocal(w) \/ SweepGlobal(w) \/ Resume(w)

Next == \E w \in Workers : Evaluate(w) \/ DoGC(w)

Spec == Init /\ [][Next]_vars

-----------------------------------------------------------------------------

InUse == (UNION {roots[w] : w \in Workers}) \cup queue

\* The collector frees no term that the program can still reach: not from
\* its local pointers, nor through other terms, nor from the queue; neither
\* by a local collection while other workers evaluate, nor while only some of
\* the workers have swept, nor by marks left from an earlier collection.
NothingLost == \A t \in Reachable(InUse) : list[t] # "free"

\* After a collection of global terms nothing is left that the program cannot
\* reach, except for what is still under construction: no circle of global
\* terms of several heaps, and nothing that an old mark keeps alive.
Collected ==
  Arrived({"gc4"}) =>
    \A t \in Terms : list[t] # "free" /\ Born(t) => t \in Reachable(InUse)

\* A collection of local terms, alone or as a part of a global one, leaves none
\* that its worker cannot reach itself (gc_marksweep.h:404-443): nobody else
\* can hold one, and no mark from anywhere else keeps one alive.
LocalCollected ==
  [][\A w \in Workers :
       phase[w] \in {"lmark", "mark"} /\ phase'[w] # phase[w] =>
         \A t \in Terms :
           Home[t] = w /\ list'[t] # "free" /\ ~global'[t] => t \in Reachable(roots[w])']_vars

\* What a worker can reach is global or lives in its own heap, and what can be
\* reached from the queue is global (term.h:836-850): so each worker may free
\* its local terms while the others evaluate.
OwnOrGlobal ==
  /\ \A w \in Workers : \A t \in Reachable(roots[w]) : global[t] \/ Home[t] = w
  /\ \A t \in Reachable(queue) : global[t]

\* A worker that collects locally takes part in no collection of all.  The
\* barriers, by their contract, make the collection that Worker keeps to.
Order == INSTANCE Collection
  WITH phase <- [w \in Workers |-> IF phase[w] = "lmark" THEN "run" ELSE phase[w]]
IsCollection == Order!Spec
=============================================================================
