---------------------------- MODULE MarkSweepProofs ----------------------------
(* Proofs about the collector, for any number of workers, heaps and terms.  *)
EXTENDS MarkSweep, TLAPS

(* Where the workers may be at one time: evaluating and collecting locally  *)
(* (some may not have left the last collection), unmarking, marking, and    *)
(* sweeping their global terms.                                             *)
Unmarking == \A w \in Workers : phase[w] \in {"gc1", "gc2"}
Marking == \A w \in Workers : phase[w] \in {"gc2", "mark", "gc3"}
Sweeping == \A w \in Workers : phase[w] \in {"gc3", "gc4"}
Phases ==
  \/ \A w \in Workers : phase[w] \in {"run", "lmark", "gc1", "gc4"}
  \/ Unmarking \/ Marking \/ Sweeping

(* Someone has taken the queue by the time all have begun to mark.          *)
Serial ==
  /\ serial # NoWorker => Marking /\ \E w \in Workers : phase[w] \in {"mark", "gc3"}
  /\ serial = NoWorker /\ Marking => \E w \in Workers : phase[w] = "gc2"

(* What is allocated, and what of it will survive the sweep under way.      *)
Live == {t \in Terms : list[t] # "free"}
Kept ==
  {t \in Terms :
     /\ list[t] # "free"
     /\ Sweeping /\ phase[Home[t]] = "gc3" /\ list[t] = "global" => m_marked[t] = "active"}

(* The fields of a term fit to the list that it is on.                      *)
Lists ==
  \A t \in Terms :
    /\ list[t] = "free" => ~Born(t) /\ ~global[t]
    /\ list[t] = "local" => ~global[t]
    /\ list[t] = "global" => global[t]
    /\ ~Born(t) => ref[t] = {} /\ ~ind[t] /\ list[t] \in {"free", "new"}
    /\ ~Born(t) /\ list[t] = "new" => global[t]
    /\ list[t] = "new" /\ phase[Home[t]] = "gc3" => ~Born(t)

(* What worker w may refer to, and what term t may.                         *)
Sees(w) == {t \in Terms : global[t] \/ Home[t] = w}
SeenFrom(t) == {u \in Terms : global[u] \/ (~global[t] /\ Home[u] = Home[t])}

(* What is kept refers to what is kept, and so does everybody.              *)
Closed == \A t \in Kept : ref[t] \subseteq Kept \cap SeenFrom(t)
Held ==
  /\ \A w \in Workers : roots[w] \cup marking[w] \subseteq Kept \cap Sees(w)
  /\ \A t \in queue : t \in Kept /\ global[t]

(* Indirections end: there are no circles of them.                          *)
IndClosed(C) == \A u \in C : ind[u] => ref[u] \subseteq C
Ends == \A C \in SUBSET Terms : C # {} /\ IndClosed(C) => \E u \in C : ~ind[u]

(* Marks on local terms do not outlive a collection, and those on global    *)
(* terms are cleared before the next global collection.                     *)
Marks ==
  \A t \in Terms :
    /\ m_marked[t] = "active" /\ ~global[t] => phase[Home[t]] \in {"lmark", "mark"}
    /\ Unmarking /\ phase[Home[t]] = "gc2" => m_marked[t] # "active"

(* The local terms of a worker that is marking: roots are marked or to be   *)
(* marked, and so are the local terms that marked local terms refer to.     *)
LocalSeen(w) == {u \in Terms : global[u] \/ m_marked[u] = "active" \/ u \in marking[w]}
LocalMarking ==
  \A w \in Workers :
    phase[w] \in {"lmark", "mark"} =>
      /\ roots[w] \subseteq LocalSeen(w)
      /\ \A t \in Terms :
           Home[t] = w /\ ~global[t] /\ m_marked[t] = "active" => ref[t] \subseteq LocalSeen(w)

(* The same for all terms while all workers mark.  Local terms that are     *)
(* swept have been marked.                                                  *)
Swept(t) == ~global[t] /\ phase[Home[t]] = "gc3"
Seen ==
  {u \in Terms : m_marked[u] = "active" \/ ~Born(u) \/ Swept(u) \/ \E w \in Workers : u \in marking[w]}
GlobalMarking ==
  Marking =>
    /\ \A w \in Workers : phase[w] \in {"mark", "gc3"} => roots[w] \subseteq Seen
    /\ serial # NoWorker => queue \subseteq Seen
    /\ \A t \in Terms : m_marked[t] = "active" \/ Swept(t) => ref[t] \subseteq Seen

(* The converse: what is marked, or to be marked, has been reached from a   *)
(* pointer in use.  While chains are shortened the graph of terms changes,  *)
(* so what counts is where the terms that have been marked already lead.    *)
Visited(t) == m_marked[t] = "active" \/ Swept(t)
Reached(t) ==
  \/ m_marked[t] = "active" \/ (t \in Live /\ Swept(t))
  \/ \E w \in Workers : t \in marking[w]
Trace == Closure(InUse, Visited)
Tracing ==
  /\ Marking => \A t \in Terms : Reached(t) => t \in Trace
  /\ Sweeping => \A t \in Kept : Born(t) => t \in Reachable(InUse)

IInv ==
  /\ TypeOK /\ Phases /\ Serial /\ Lists /\ Closed /\ Held /\ Ends
  /\ Marks /\ LocalMarking /\ GlobalMarking

-----------------------------------------------------------------------------
(* Initially there are no terms.                                            *)
LEMMA InitIInv == Init => IInv
<1> SUFFICES ASSUME Init PROVE IInv
  OBVIOUS
<1> USE HeapAssumption DEF Init
<1>1. TypeOK
  BY DEF TypeOK
<1>2. Phases /\ Serial
  BY DEF Phases, Serial, Marking
<1>3. Lists
  BY DEF Lists, Born
<1>4. Kept = {}
  BY DEF Kept
<1>5. Closed /\ Held
  BY <1>4 DEF Closed, Held
<1>6. Ends
  BY DEF Ends
<1>7. Marks /\ LocalMarking /\ GlobalMarking
  BY DEF Marks, LocalMarking, GlobalMarking, Marking
<1> QED BY <1>1, <1>2, <1>3, <1>5, <1>6, <1>7 DEF IInv

(* Everything that is allocated is kept while nobody sweeps global terms.   *)
LEMMA KeptIsLive == ~Sweeping => Kept = Live
BY DEF Kept, Live

(* What is reachable is in every set that holds the start and is closed.    *)
LEMMA ReachableIn ==
  ASSUME NEW S, NEW C \in SUBSET Terms, S \subseteq C, \A u \in C : ref[u] \subseteq C
  PROVE  Reachable(S) \subseteq C
BY DEF Reachable, Closure

(* The same for indirections; the term itself is one of them.               *)
LEMMA IndirectionsAre ==
  ASSUME NEW t
  PROVE  Indirections(t) =
           {u \in Terms : \A C \in SUBSET Terms : {t} \subseteq C /\ IndClosed(C) => u \in C}
BY DEF Indirections, Closure, IndClosed

LEMMA IndirectionsClosed ==
  ASSUME TypeOK, NEW t \in Terms
  PROVE  t \in Indirections(t) /\ IndClosed(Indirections(t)) /\ Indirections(t) \subseteq Terms
<1>1. ASSUME NEW u \in Indirections(t), ind[u], NEW v \in ref[u] PROVE v \in Indirections(t)
  <2>1. v \in Terms
    BY <1>1, IndirectionsAre DEF TypeOK
  <2>2. \A C \in SUBSET Terms : {t} \subseteq C /\ IndClosed(C) => v \in C
    BY <1>1, IndirectionsAre DEF IndClosed
  <2> QED BY <2>1, <2>2, IndirectionsAre
<1> QED BY <1>1, IndirectionsAre DEF IndClosed

LEMMA IndirectionsIn ==
  ASSUME NEW t, NEW C \in SUBSET Terms, t \in C, IndClosed(C)
  PROVE  Indirections(t) \subseteq C
BY IndirectionsAre

(* FollowFullIndirection finds the end.                                     *)
LEMMA FollowEnds ==
  ASSUME TypeOK, Ends, NEW t \in Terms
  PROVE  FollowFullIndirection(t) \in Indirections(t) /\ ~ind[FollowFullIndirection(t)]
<1>1. \E u \in Indirections(t) : ~ind[u]
  BY IndirectionsClosed DEF Ends
<1> QED BY <1>1 DEF FollowFullIndirection

(* What MarkActive marks next is kept, and t may refer to it.               *)
LEMMA NextKept ==
  ASSUME TypeOK, Ends, Closed, NEW t \in Kept
  PROVE  (IF ind[t] THEN {FollowFullIndirection(t)} ELSE ref[t]) \subseteq Kept \cap SeenFrom(t)
<1> DEFINE C == {u \in Kept : u \in SeenFrom(t)}
<1>1. t \in Terms /\ C \in SUBSET Terms /\ t \in C
  BY DEF Kept, SeenFrom
<1>2. ASSUME NEW u \in C, NEW v \in ref[u] PROVE v \in C
  <2>1. v \in Kept /\ v \in SeenFrom(u)
    BY <1>2 DEF Closed
  <2>2. global[v] \/ (~global[u] /\ Home[v] = Home[u])
    BY <2>1 DEF SeenFrom
  <2>3. global[u] \/ (~global[t] /\ Home[u] = Home[t])
    BY <1>2 DEF SeenFrom
  <2> QED BY <2>1, <2>2, <2>3 DEF SeenFrom, Kept
<1>3. IndClosed(C)
  BY <1>2 DEF IndClosed
<1>4. Indirections(t) \subseteq C
  BY <1>1, <1>3, IndirectionsIn
<1>5. CASE ind[t]
  BY <1>1, <1>4, <1>5, FollowEnds
<1>6. CASE ~ind[t]
  BY <1>1, <1>2, <1>6
<1> QED BY <1>5, <1>6

(* Indirections keep their ends as long as none is redirected.              *)
LEMMA EndsFrame ==
  ASSUME Ends, \A u \in Terms : ind'[u] => ind[u] /\ ref'[u] = ref[u]
  PROVE  Ends'
<1> SUFFICES ASSUME NEW C \in SUBSET Terms, C # {}, IndClosed(C)', \A u \in C : ind'[u]
             PROVE  FALSE
  BY DEF Ends
<1>1. IndClosed(C)
  BY DEF IndClosed
<1> QED BY <1>1 DEF Ends

-----------------------------------------------------------------------------
(* Evaluation.  A worker that evaluates is not collecting globally, nor is  *)
(* anybody else.                                                            *)
LEMMA EvalFrame ==
  ASSUME IInv, NEW w \in Workers, Evaluating(w), UNCHANGED gc
  PROVE  /\ Kept = Live /\ Kept' = Live'
         /\ ~Unmarking /\ ~Unmarking' /\ ~Marking'
         /\ Phases' /\ Serial' /\ GlobalMarking'
<1>1. ~Unmarking /\ ~Marking /\ ~Sweeping
  BY DEF Evaluating, Unmarking, Marking, Sweeping
<1>2. UNCHANGED <<Unmarking, Marking, Sweeping, Phases, Serial>>
  BY DEF gc, Unmarking, Marking, Sweeping, Phases, Serial
<1>3. ~Unmarking' /\ ~Marking' /\ ~Sweeping'
  BY <1>1, <1>2
<1>4. Kept' = Live'
  BY <1>3 DEF Kept, Live
<1> QED BY <1>1, <1>2, <1>3, <1>4, KeptIsLive DEF IInv, GlobalMarking

LEMMA NewKeeps ==
  ASSUME IInv, NEW w \in Workers, NEW t \in Terms, New(w, t)
  PROVE  IInv'
<1>0. Evaluating(w) /\ UNCHANGED gc
  BY DEF New
<1>1. Kept = Live /\ Kept' = Live' /\ ~Unmarking' /\ Phases' /\ Serial' /\ GlobalMarking'
  BY <1>0, EvalFrame
<1>2. PICK R \in Operands(Usable(w)) : ref' = [ref EXCEPT ![t] = R]
  BY DEF New
<1>3. /\ Home[t] = w /\ list[t] = "free" /\ phase[w] = "run"
      /\ list' = [list EXCEPT ![t] = "new"]
      /\ m_marked' = [m_marked EXCEPT ![t] = "old"]
      /\ roots' = [roots EXCEPT ![w] = @ \cup {t}]
      /\ UNCHANGED <<global, ind, queue, marking, phase, serial>>
  BY DEF New, Own, Evaluating, gc
<1>4. ~Born(t) /\ ~global[t] /\ ~ind[t]
  BY <1>3 DEF IInv, Lists, TypeOK
<1>5. R \subseteq Live \cap Sees(w)
  BY <1>1, <1>2 DEF Operands, Usable, IInv, Held
<1>6. Live' = Live \cup {t}
  BY <1>3 DEF Live, IInv, TypeOK
<1>7. TypeOK'
  BY <1>2, <1>3, <1>5 DEF IInv, TypeOK, Live
<1>8. Lists'
  BY <1>2, <1>3, <1>4 DEF IInv, TypeOK, Lists, Born
<1>9. Closed'
  <2> SUFFICES ASSUME NEW u \in Kept' PROVE ref'[u] \subseteq Kept' \cap SeenFrom(u)'
    BY DEF Closed
  <2>1. SeenFrom(u)' = SeenFrom(u)
    BY <1>3 DEF SeenFrom
  <2>2. CASE u = t
    BY <1>1, <1>2, <1>3, <1>4, <1>5, <1>6, <2>1, <2>2 DEF SeenFrom, Sees, IInv, TypeOK
  <2>3. CASE u # t
    BY <1>1, <1>2, <1>6, <2>1, <2>3 DEF IInv, TypeOK, Closed
  <2> QED BY <2>2, <2>3
<1>10. Held'
  BY <1>1, <1>3, <1>6 DEF IInv, TypeOK, Held, Sees
<1>11. Ends'
  BY <1>2, <1>3, <1>4, EndsFrame DEF IInv, TypeOK
<1>12. Marks'
  BY <1>1, <1>3 DEF IInv, TypeOK, Marks
<1>13. LocalMarking'
  BY <1>2, <1>3, <1>4 DEF IInv, TypeOK, LocalMarking, LocalSeen, Born
<1> QED BY <1>1, <1>7, <1>8, <1>9, <1>10, <1>11, <1>12, <1>13 DEF IInv

LEMMA ConstructKeeps ==
  ASSUME IInv, NEW w \in Workers, NEW t \in Terms, Construct(w, t)
  PROVE  IInv'
<1>0. Evaluating(w) /\ UNCHANGED gc
  BY DEF Construct
<1>1. Kept = Live /\ Kept' = Live' /\ ~Unmarking' /\ Phases' /\ Serial' /\ GlobalMarking'
  BY <1>0, EvalFrame
<1>3. /\ Home[t] = w /\ list[t] = "free" /\ phase[w] = "run"
      /\ list' = [list EXCEPT ![t] = "new"]
      /\ global' = [global EXCEPT ![t] = TRUE]
      /\ roots' = [roots EXCEPT ![w] = @ \cup {t}]
      /\ UNCHANGED <<m_marked, ref, ind, queue, marking, phase, serial>>
  BY DEF Construct, Own, Evaluating, gc
<1>4. ~Born(t) /\ ref[t] = {}
  BY <1>3 DEF IInv, Lists, TypeOK
<1>5. /\ global' \in [Terms -> BOOLEAN] /\ global'[t]
      /\ \A u \in Terms : u # t => global'[u] = global[u]
  BY <1>3 DEF IInv, TypeOK
<1>6. Live' = Live \cup {t}
  BY <1>3 DEF Live, IInv, TypeOK
<1>7. TypeOK'
  BY <1>3, <1>5 DEF IInv, TypeOK
<1>8. Lists'
  BY <1>3, <1>4, <1>5 DEF IInv, TypeOK, Lists, Born
<1>9. Closed'
  <2> SUFFICES ASSUME NEW u \in Kept' PROVE ref'[u] \subseteq Kept' \cap SeenFrom(u)'
    BY DEF Closed
  <2>1. CASE u = t
    BY <1>3, <1>4, <2>1
  <2>2. CASE u # t
    <3>1. u \in Terms /\ SeenFrom(u) \subseteq SeenFrom(u)'
      BY <1>1, <1>5, <2>2 DEF SeenFrom, Live
    <3> QED BY <1>1, <1>3, <1>6, <2>2, <3>1 DEF IInv, Closed
  <2> QED BY <2>1, <2>2
<1>10. \A v \in Workers : Sees(v) \subseteq Sees(v)' /\ LocalSeen(v) \subseteq LocalSeen(v)'
  BY <1>3, <1>5 DEF Sees, LocalSeen
<1>11. Held'
  <2>1. t \in Sees(w)'
    BY <1>3 DEF Sees
  <2>2. \A x \in queue : x \in Live /\ global'[x]
    BY <1>1, <1>5 DEF IInv, Held, Live
  <2> QED BY <1>1, <1>3, <1>6, <1>10, <2>1, <2>2 DEF IInv, TypeOK, Held
<1>12. Ends'
  BY <1>3, EndsFrame DEF IInv
<1>13. Marks'
  BY <1>1, <1>3, <1>5 DEF IInv, Marks
<1>14. LocalMarking'
  <2> SUFFICES ASSUME NEW v \in Workers, phase'[v] \in {"lmark", "mark"}
               PROVE  /\ roots'[v] \subseteq LocalSeen(v)'
                      /\ \A x \in Terms :
                           Home[x] = v /\ ~global'[x] /\ m_marked'[x] = "active" =>
                             ref'[x] \subseteq LocalSeen(v)'
    BY DEF LocalMarking
  <2>1. v # w /\ phase[v] \in {"lmark", "mark"}
    BY <1>3
  <2> QED BY <1>3, <1>5, <1>10, <2>1 DEF IInv, TypeOK, LocalMarking
<1> QED BY <1>1, <1>7, <1>8, <1>9, <1>11, <1>12, <1>13, <1>14 DEF IInv

LEMMA MarkBirthKeeps ==
  ASSUME IInv, NEW w \in Workers, NEW t \in Terms, MarkBirth(w, t)
  PROVE  IInv'
<1>0. Evaluating(w) /\ UNCHANGED gc
  BY DEF MarkBirth
<1>1. Kept = Live /\ Kept' = Live' /\ ~Unmarking' /\ Phases' /\ Serial' /\ GlobalMarking'
  BY <1>0, EvalFrame
<1>2. PICK R \in Operands({u \in Usable(w) : global[u]}) : ref' = [ref EXCEPT ![t] = R]
  BY DEF MarkBirth
<1>3. /\ Home[t] = w /\ list[t] = "new" /\ phase[w] = "run"
      /\ m_marked' = [m_marked EXCEPT ![t] = "old"]
      /\ UNCHANGED <<list, global, ind, roots, queue, marking, phase, serial>>
  BY DEF MarkBirth, Own, Evaluating, gc
<1>4. ~Born(t) /\ global[t] /\ ~ind[t]
  BY <1>3 DEF MarkBirth, IInv, Lists
<1>5. R \subseteq Live /\ \A u \in R : global[u]
  BY <1>1, <1>2 DEF Operands, Usable, IInv, Held
<1>6. Live' = Live /\ R \subseteq Terms
  BY <1>3, <1>5 DEF Live
<1>7. TypeOK'
  BY <1>2, <1>3, <1>6 DEF IInv, TypeOK
<1>8. Lists'
  BY <1>2, <1>3, <1>4 DEF IInv, TypeOK, Lists, Born
<1>9. Closed'
  <2> SUFFICES ASSUME NEW u \in Kept' PROVE ref'[u] \subseteq Kept' \cap SeenFrom(u)'
    BY DEF Closed
  <2>1. SeenFrom(u)' = SeenFrom(u)
    BY <1>3 DEF SeenFrom
  <2>2. CASE u = t
    BY <1>1, <1>2, <1>5, <1>6, <2>1, <2>2 DEF SeenFrom, IInv, TypeOK
  <2>3. CASE u # t
    BY <1>1, <1>2, <1>6, <2>1, <2>3 DEF IInv, TypeOK, Closed
  <2> QED BY <2>2, <2>3
<1>10. Held'
  BY <1>1, <1>3, <1>6 DEF IInv, Held, Sees
<1>11. Ends'
  BY <1>2, <1>3, <1>4, EndsFrame DEF IInv, TypeOK
<1>12. Marks'
  BY <1>1, <1>3, <1>4 DEF IInv, TypeOK, Marks
<1>13. LocalMarking'
  BY <1>2, <1>3, <1>4 DEF IInv, TypeOK, LocalMarking, LocalSeen, Born
<1> QED BY <1>1, <1>7, <1>8, <1>9, <1>10, <1>11, <1>12, <1>13 DEF IInv

(* A new indirection does not close a circle.                               *)
LEMMA EndsIndirection ==
  ASSUME TypeOK, Ends, NEW t \in Terms, NEW to \in Terms, t \notin Indirections(to),
         ref' = [ref EXCEPT ![t] = {to}], ind' = [ind EXCEPT ![t] = TRUE]
  PROVE  Ends'
<1> SUFFICES ASSUME NEW C \in SUBSET Terms, C # {}, IndClosed(C)', \A u \in C : ind'[u]
             PROVE  FALSE
  BY DEF Ends
<1>1. \A u \in C : ref'[u] \subseteq C
  BY DEF IndClosed
<1>2. \A u \in Terms : u # t => ref'[u] = ref[u] /\ (ind'[u] <=> ind[u])
  BY DEF TypeOK
<1>3. CASE t \notin C
  BY <1>1, <1>2, <1>3 DEF Ends, IndClosed
<1>4. CASE t \in C
  <2> DEFINE D == C \cap Indirections(to)
  <2>1. to \in C
    BY <1>1, <1>4 DEF TypeOK
  <2>2. to \in D /\ D \in SUBSET Terms /\ t \notin D
    BY <2>1, IndirectionsClosed
  <2>3. IndClosed(D)
    <3> SUFFICES ASSUME NEW u \in D, ind[u], NEW v \in ref[u] PROVE v \in D
      BY DEF IndClosed
    <3>1. v \in Indirections(to)
      BY IndirectionsClosed DEF IndClosed
    <3>2. v \in C
      BY <1>1, <1>2, <2>2
    <3> QED BY <3>1, <3>2
  <2>4. PICK u \in D : ~ind[u]
    BY <2>2, <2>3 DEF Ends
  <2> QED BY <1>2, <2>2, <2>4
<1> QED BY <1>3, <1>4

LEMMA SetIndirectionKeeps ==
  ASSUME IInv, NEW w \in Workers, NEW t \in Terms, NEW to \in Terms, SetIndirection(w, t, to)
  PROVE  IInv'
<1>0. Evaluating(w) /\ UNCHANGED gc
  BY DEF SetIndirection
<1>1. Kept = Live /\ Kept' = Live' /\ ~Unmarking' /\ Phases' /\ Serial' /\ GlobalMarking'
  BY <1>0, EvalFrame
<1>2. /\ phase[w] = "run" /\ {t, to} \subseteq roots[w] /\ Born(t)
      /\ global[t] => global[to]
      /\ ref' = [ref EXCEPT ![t] = {to}]
      /\ ind' = [ind EXCEPT ![t] = TRUE]
      /\ UNCHANGED <<list, global, m_marked, roots, queue, marking, phase, serial>>
  BY DEF SetIndirection, Usable, Evaluating, gc
<1>3. list[t] # "free" /\ {t, to} \subseteq Live \cap Sees(w) /\ Live' = Live
  BY <1>1, <1>2 DEF IInv, Held, Live
<1>4. global[t] \/ Home[t] = w
  BY <1>3 DEF Sees
<1>5. to \in SeenFrom(t)
  BY <1>2, <1>3 DEF SeenFrom, Sees
<1>6. TypeOK'
  BY <1>2, <1>3 DEF IInv, TypeOK
<1>7. Lists'
  BY <1>2 DEF IInv, TypeOK, Lists, Born
<1>8. Closed'
  <2> SUFFICES ASSUME NEW u \in Kept' PROVE ref'[u] \subseteq Kept' \cap SeenFrom(u)'
    BY DEF Closed
  <2>1. SeenFrom(u)' = SeenFrom(u)
    BY <1>2 DEF SeenFrom
  <2>2. CASE u = t
    BY <1>1, <1>2, <1>3, <1>5, <2>1, <2>2 DEF IInv, TypeOK
  <2>3. CASE u # t
    BY <1>1, <1>2, <1>3, <2>1, <2>3 DEF IInv, TypeOK, Closed
  <2> QED BY <2>2, <2>3
<1>9. Held'
  BY <1>1, <1>2, <1>3 DEF IInv, Held, Sees
<1>10. Ends'
  <2>1. t \notin Indirections(to)
    BY DEF SetIndirection
  <2> QED BY <1>2, <2>1, EndsIndirection DEF IInv
<1>11. Marks'
  BY <1>1, <1>2 DEF IInv, Marks
<1>12. LocalMarking'
  BY <1>2, <1>4 DEF IInv, TypeOK, LocalMarking, LocalSeen
<1> QED BY <1>1, <1>6, <1>7, <1>8, <1>9, <1>10, <1>11, <1>12 DEF IInv

(* Pointers move between the stacks and the queue.                          *)
LEMMA RootsMove ==
  ASSUME IInv, NEW w \in Workers, Evaluating(w), UNCHANGED <<heap, gc>>,
         NEW S \in SUBSET (Live \cap Sees(w)), roots' = [roots EXCEPT ![w] = S],
         queue' \subseteq {t \in Live : global[t]}
  PROVE  IInv'
<1>1. Kept = Live /\ Kept' = Live' /\ ~Unmarking' /\ Phases' /\ Serial' /\ GlobalMarking'
  BY EvalFrame
<1>2. /\ phase[w] = "run"
      /\ UNCHANGED <<list, global, m_marked, ref, ind, marking, phase, serial>>
  BY DEF Evaluating, heap, gc
<1>3. Live' = Live /\ Live \subseteq Terms
  BY <1>2 DEF Live
<1>4. TypeOK'
  BY <1>2, <1>3 DEF IInv, TypeOK
<1>5. Lists'
  BY <1>2 DEF IInv, Lists, Born
<1>6. Closed'
  BY <1>1, <1>2, <1>3 DEF IInv, Closed, SeenFrom
<1>7. Held'
  BY <1>1, <1>2, <1>3 DEF IInv, TypeOK, Held, Sees
<1>8. Ends'
  BY <1>2, EndsFrame DEF IInv
<1>9. Marks'
  BY <1>1, <1>2 DEF IInv, Marks
<1>10. LocalMarking'
  BY <1>2 DEF IInv, TypeOK, LocalMarking, LocalSeen
<1> QED BY <1>1, <1>4, <1>5, <1>6, <1>7, <1>8, <1>9, <1>10 DEF IInv

LEMMA EvaluateKeeps ==
  ASSUME IInv, NEW w \in Workers, Evaluate(w)
  PROVE  IInv'
<1>1. PICK t \in Terms :
        \/ New(w, t) \/ Construct(w, t) \/ MarkBirth(w, t)
        \/ \E u \in Terms : SetIndirection(w, t, u) \/ Load(w, t, u)
        \/ Drop(w, t) \/ Push(w, t) \/ Pop(w, t)
  BY DEF Evaluate
<1> DEFINE Global == {x \in Live : global[x]}
<1>2. roots \in [Workers -> SUBSET Terms] /\ queue \in SUBSET Terms
  BY DEF IInv, TypeOK
<1>3. Evaluating(w) => Kept = Live
  BY KeptIsLive DEF Sweeping, Evaluating
<1>4. Evaluating(w) => roots[w] \subseteq Live \cap Sees(w) /\ queue \subseteq Global
  BY <1>3 DEF IInv, Held
<1>5. ASSUME NEW u \in Terms, Load(w, t, u) PROVE IInv'
  <2>1. t \in Kept \cap Sees(w) /\ u \in Kept /\ u \in SeenFrom(t)
    BY <1>5 DEF Load, Usable, IInv, Held, Closed
  <2>2. u \in Sees(w)
    BY <2>1 DEF SeenFrom, Sees
  <2>3. roots[w] \cup {u} \in SUBSET (Live \cap Sees(w)) /\ queue' \subseteq Global
    BY <1>3, <1>4, <1>5, <2>1, <2>2 DEF Load
  <2>4. roots' = [roots EXCEPT ![w] = roots[w] \cup {u}]
    BY <1>5 DEF Load
  <2> QED BY <1>5, <2>3, <2>4, RootsMove DEF Load
<1>6. ASSUME Drop(w, t) PROVE IInv'
  <2>1. roots[w] \ {t} \in SUBSET (Live \cap Sees(w)) /\ queue' \subseteq Global
    BY <1>4, <1>6 DEF Drop
  <2>2. roots' = [roots EXCEPT ![w] = roots[w] \ {t}]
    BY <1>6 DEF Drop
  <2> QED BY <1>6, <2>1, <2>2, RootsMove DEF Drop
<1>7. ASSUME Push(w, t) PROVE IInv'
  <2>1. roots[w] \in SUBSET (Live \cap Sees(w)) /\ queue' \subseteq Global
    BY <1>4, <1>7 DEF Push, Usable, Evaluating
  <2>2. roots' = [roots EXCEPT ![w] = roots[w]]
    BY <1>2, <1>7 DEF Push
  <2> QED BY <1>7, <2>1, <2>2, RootsMove DEF Push
<1>8. ASSUME Pop(w, t) PROVE IInv'
  <2>1. t \in Live \cap Sees(w)
    BY <1>4, <1>8 DEF Pop, Sees
  <2>2. roots[w] \cup {t} \in SUBSET (Live \cap Sees(w)) /\ queue' \subseteq Global
    BY <1>4, <1>8, <2>1 DEF Pop
  <2>3. roots' = [roots EXCEPT ![w] = roots[w] \cup {t}]
    BY <1>8 DEF Pop
  <2> QED BY <1>8, <2>2, <2>3, RootsMove DEF Pop
<1> QED BY <1>1, <1>5, <1>6, <1>7, <1>8, NewKeeps, ConstructKeeps, MarkBirthKeeps,
           SetIndirectionKeeps

-----------------------------------------------------------------------------
(* Collection.  When only phase, marking and serial change, and nobody      *)
(* sweeps, what is kept stays kept.                                         *)
LEMMA HeapRests ==
  ASSUME IInv, UNCHANGED <<heap, roots, queue>>, ~Sweeping, ~Sweeping',
         \A t \in Terms : phase'[Home[t]] = "gc3" => phase[Home[t]] = "gc3",
         \A w \in Workers : marking'[w] \subseteq marking[w] \cup roots[w] \cup queue
  PROVE  Kept' = Kept /\ Lists' /\ Closed' /\ Held' /\ Ends'
<1>1. UNCHANGED <<list, global, m_marked, ref, ind>>
  BY DEF heap
<1>2. Kept' = Kept
  BY <1>1 DEF Kept
<1>3. Lists'
  BY <1>1 DEF IInv, Lists, Born
<1>4. Closed'
  BY <1>1, <1>2 DEF IInv, Closed, SeenFrom
<1>5. Held'
  <2>1. \A w \in Workers : Sees(w)' = Sees(w) /\ queue \subseteq Kept \cap Sees(w)
    BY <1>1 DEF IInv, Held, Sees, Kept
  <2> QED BY <1>1, <1>2, <2>1 DEF IInv, Held
<1>6. Ends'
  BY <1>1, EndsFrame DEF IInv
<1> QED BY <1>2, <1>3, <1>4, <1>5, <1>6

LEMMA StartLocalKeeps ==
  ASSUME IInv, NEW w \in Workers, StartLocal(w)
  PROVE  IInv'
<1>1. /\ phase[w] = "run" /\ phase' = [phase EXCEPT ![w] = "lmark"]
      /\ marking' = [marking EXCEPT ![w] = roots[w]]
      /\ UNCHANGED <<list, global, m_marked, ref, ind, roots, queue, serial>>
  BY DEF StartLocal, Evaluating, Goto, heap
<1>2. phase'[w] = "lmark" /\ \A v \in Workers : v # w => phase'[v] = phase[v]
  BY <1>1 DEF IInv, TypeOK
<1>3. ~Sweeping /\ ~Sweeping' /\ ~Marking /\ ~Marking' /\ ~Unmarking'
  BY <1>1, <1>2 DEF Sweeping, Marking, Unmarking
<1>4. marking'[w] = roots[w] /\ \A v \in Workers : v # w => marking'[v] = marking[v]
  BY <1>1 DEF IInv, TypeOK
<1>5. Kept' = Kept /\ Lists' /\ Closed' /\ Held' /\ Ends'
  <2>1. \A v \in Workers : marking'[v] \subseteq marking[v] \cup roots[v] \cup queue
    BY <1>4
  <2>2. \A t \in Terms : phase'[Home[t]] = "gc3" => phase[Home[t]] = "gc3"
    BY <1>2, HeapAssumption
  <2> QED BY <1>1, <1>3, <2>1, <2>2, HeapRests DEF heap
<1>6. TypeOK'
  BY <1>1 DEF IInv, TypeOK
<1>7. Phases' /\ Serial'
  BY <1>1, <1>2, <1>3 DEF IInv, Phases, Serial, Unmarking, Marking, Sweeping
<1>8. Marks'
  BY <1>1, <1>2, <1>3, HeapAssumption DEF IInv, Marks
<1>9. LocalMarking'
  <2>1. \A t \in Terms : Home[t] = w /\ ~global[t] => m_marked[t] # "active"
    BY <1>1 DEF IInv, Marks
  <2>2. roots[w] \subseteq LocalSeen(w)'
    BY <1>1, <1>4 DEF LocalSeen, IInv, TypeOK
  <2>3. \A v \in Workers : v # w => LocalSeen(v)' = LocalSeen(v)
    BY <1>1, <1>4 DEF LocalSeen
  <2> QED BY <1>1, <1>2, <2>1, <2>2, <2>3 DEF IInv, LocalMarking
<1>10. GlobalMarking'
  BY <1>3 DEF GlobalMarking
<1> QED BY <1>5, <1>6, <1>7, <1>8, <1>9, <1>10 DEF IInv

LEMMA StartGlobalKeeps ==
  ASSUME IInv, NEW w \in Workers, StartGlobal(w)
  PROVE  IInv'
<1>1. /\ phase[w] = "run" /\ phase' = [phase EXCEPT ![w] = "gc1"]
      /\ UNCHANGED <<list, global, m_marked, ref, ind, roots, queue, marking, serial>>
  BY DEF StartGlobal, Evaluating, Goto, heap
<1>2. phase'[w] = "gc1" /\ \A v \in Workers : v # w => phase'[v] = phase[v]
  BY <1>1 DEF IInv, TypeOK
<1>3. ~Sweeping /\ ~Sweeping' /\ ~Marking /\ ~Marking' /\ ~Unmarking
  BY <1>1, <1>2 DEF Sweeping, Marking, Unmarking
<1>4. \A v \in Workers : phase[v] \in {"run", "lmark", "gc1", "gc4"}
  BY <1>3 DEF IInv, Phases
<1>5. Kept' = Kept /\ Lists' /\ Closed' /\ Held' /\ Ends'
  <2>1. \A t \in Terms : phase'[Home[t]] = "gc3" => phase[Home[t]] = "gc3"
    BY <1>2, HeapAssumption
  <2> QED BY <1>1, <1>3, <2>1, HeapRests DEF heap
<1>6. TypeOK'
  BY <1>1 DEF IInv, TypeOK, Waiting
<1>7. Phases' /\ Serial'
  BY <1>1, <1>2, <1>3, <1>4 DEF IInv, Phases, Serial
<1>8. Marks'
  BY <1>1, <1>2, <1>4, HeapAssumption DEF IInv, Marks
<1>9. LocalMarking'
  BY <1>1, <1>2 DEF IInv, LocalMarking, LocalSeen
<1>10. GlobalMarking'
  BY <1>3 DEF GlobalMarking
<1> QED BY <1>5, <1>6, <1>7, <1>8, <1>9, <1>10 DEF IInv

LEMMA UnmarkKeeps ==
  ASSUME IInv, NEW w \in Workers, Unmark(w)
  PROVE  IInv'
<1>1. /\ phase[w] = "gc1" /\ phase' = [phase EXCEPT ![w] = "gc2"]
      /\ m_marked' = [t \in Terms |-> IF t \in Unmarked(w) THEN "old" ELSE m_marked[t]]
      /\ UNCHANGED <<list, global, ref, ind, roots, queue, marking, serial>>
  BY DEF Unmark, MarkOld, Goto
<1>2. phase'[w] = "gc2" /\ \A v \in Workers : v # w => phase'[v] = phase[v]
  BY <1>1 DEF IInv, TypeOK
<1>3. Unmarking /\ Unmarking'
  BY <1>2 DEF Unmark, Arrived, Unmarking
<1>4. ~Sweeping /\ ~Sweeping' /\ ~Marking
  BY <1>1, <1>2 DEF Sweeping, Marking
<1>5. \A t \in Terms : /\ Born(t)' <=> Born(t)
                       /\ m_marked'[t] = "active" => m_marked[t] = "active" /\ t \notin Unmarked(w)
  BY <1>1 DEF Unmarked, Born
<1>6. Kept' = Kept
  BY <1>1, <1>4 DEF Kept
<1>7. TypeOK'
  BY <1>1 DEF IInv, TypeOK, Waiting
<1>8. Phases'
  BY <1>3 DEF Phases
<1>9. serial = NoWorker
  BY <1>4 DEF IInv, Serial
<1>10. Serial'
  BY <1>1, <1>2, <1>9 DEF Serial
<1>11. Lists'
  BY <1>1, <1>2, <1>5, HeapAssumption DEF IInv, Lists
<1>12. Closed' /\ Held'
  BY <1>1, <1>6 DEF IInv, Closed, Held, SeenFrom, Sees
<1>13. Ends'
  BY <1>1, EndsFrame DEF IInv
<1>14. Marks'
  <2> SUFFICES ASSUME NEW t \in Terms, m_marked'[t] = "active"
               PROVE  global[t] /\ phase'[Home[t]] # "gc2"
    BY <1>1 DEF Marks
  <2>1. m_marked[t] = "active" /\ t \notin Unmarked(w) /\ Home[t] \in Workers
    BY <1>5, HeapAssumption
  <2>2. global[t] /\ phase[Home[t]] # "gc2"
    BY <1>3, <2>1 DEF IInv, Marks, Unmarking
  <2>3. Home[t] # w
    <3> SUFFICES ASSUME Home[t] = w PROVE FALSE
      OBVIOUS
    <3>1. Born(t) /\ list[t] \notin {"global", "new"}
      BY <2>1 DEF Unmarked, Own, Born
    <3> QED BY <2>2, <3>1 DEF IInv, Lists, TypeOK
  <2> QED BY <1>2, <2>1, <2>2, <2>3
<1>15. LocalMarking'
  BY <1>3 DEF LocalMarking, Unmarking
<1>16. GlobalMarking'
  <2> SUFFICES ASSUME Marking' PROVE GlobalMarking'
    BY DEF GlobalMarking
  <2>1. \A v \in Workers : phase'[v] = "gc2"
    BY <1>3 DEF Unmarking, Marking
  <2>2. \A t \in Terms : m_marked'[t] # "active" /\ ~Swept(t)'
    BY <1>3, <1>14, <2>1, HeapAssumption DEF Marks, Swept
  <2> QED BY <1>1, <1>9, <2>1, <2>2 DEF GlobalMarking
<1> QED BY <1>7, <1>8, <1>10, <1>11, <1>12, <1>13, <1>14, <1>15, <1>16 DEF IInv

LEMMA MarkRootsKeeps ==
  ASSUME IInv, NEW w \in Workers, MarkRoots(w)
  PROVE  IInv'
<1>1. /\ phase[w] = "gc2" /\ phase' = [phase EXCEPT ![w] = "mark"]
      /\ UNCHANGED <<list, global, m_marked, ref, ind, roots, queue>>
  BY DEF MarkRoots, Goto, heap
<1>2. phase'[w] = "mark" /\ \A v \in Workers : v # w => phase'[v] = phase[v]
  BY <1>1 DEF IInv, TypeOK
<1>3. Marking /\ Marking' /\ ~Unmarking' /\ ~Sweeping /\ ~Sweeping'
  BY <1>1, <1>2 DEF MarkRoots, Arrived, Marking, Unmarking, Sweeping
<1>4. /\ roots[w] \subseteq marking'[w] /\ marking'[w] \subseteq roots[w] \cup queue
      /\ marking[w] = {} /\ \A v \in Workers : v # w => marking'[v] = marking[v]
      /\ marking' \in [Workers -> SUBSET Terms]
  BY <1>1 DEF MarkRoots, IInv, TypeOK
<1>5. \/ serial = NoWorker /\ serial' = w /\ queue \subseteq marking'[w]
      \/ serial' = serial /\ (serial # NoWorker \/ \E v \in Workers \ {w} : phase[v] = "gc2")
  BY DEF MarkRoots, IInv, TypeOK
<1>6. Kept' = Kept /\ Lists' /\ Closed' /\ Held' /\ Ends'
  <2>1. \A t \in Terms : phase'[Home[t]] = "gc3" => phase[Home[t]] = "gc3"
    BY <1>2, HeapAssumption
  <2>2. \A v \in Workers : marking'[v] \subseteq marking[v] \cup roots[v] \cup queue
    BY <1>4
  <2> QED BY <1>1, <1>3, <2>1, <2>2, HeapRests DEF heap
<1>7. TypeOK'
  <2>1. phase' \in [Workers -> {"run", "lmark", "mark"} \cup Waiting]
    BY <1>1 DEF IInv, TypeOK
  <2>2. \A v \in Workers : marking'[v] # {} => phase'[v] \in {"lmark", "mark"}
    BY <1>2, <1>4 DEF IInv, TypeOK
  <2> QED BY <1>1, <1>4, <1>5, <2>1, <2>2 DEF IInv, TypeOK
<1>8. Phases'
  BY <1>3 DEF Phases
<1>9. Serial'
  BY <1>2, <1>3, <1>5, HeapAssumption DEF IInv, Serial
<1>10. Marks'
  BY <1>1, <1>2, <1>3, HeapAssumption DEF IInv, Marks
<1>11. LocalMarking'
  BY <1>1, <1>2, <1>4 DEF IInv, Marks, LocalMarking, LocalSeen
<1>12. GlobalMarking'
  <2>1. \A t \in Terms : Swept(t)' <=> Swept(t)
    BY <1>1, <1>2, HeapAssumption DEF Swept
  <2>2. Seen \subseteq Seen' /\ marking'[w] \subseteq Seen'
    BY <1>1, <1>4, <2>1 DEF Seen, Born
  <2>3. \A v \in Workers : phase'[v] \in {"mark", "gc3"} => roots'[v] \subseteq Seen'
    BY <1>1, <1>2, <1>3, <1>4, <2>2 DEF IInv, GlobalMarking
  <2>4. serial' # NoWorker => queue' \subseteq Seen'
    BY <1>1, <1>3, <1>5, <2>2 DEF IInv, GlobalMarking
  <2>5. \A t \in Terms : m_marked'[t] = "active" \/ Swept(t)' => ref'[t] \subseteq Seen'
    BY <1>1, <1>3, <2>1, <2>2 DEF IInv, GlobalMarking
  <2> QED BY <2>3, <2>4, <2>5 DEF GlobalMarking
<1> QED BY <1>6, <1>7, <1>8, <1>9, <1>10, <1>11, <1>12 DEF IInv

(* Nothing but marking changes, by a term that needs no mark.               *)
LEMMA MarkActiveSkips ==
  ASSUME IInv, NEW w \in Workers, NEW t \in marking[w], m_marked[t] # "old",
         marking' = [marking EXCEPT ![w] = @ \ {t}],
         UNCHANGED <<list, global, m_marked, ref, ind, roots, queue, phase, serial>>
  PROVE  IInv'
<1>1. /\ marking'[w] = marking[w] \ {t}
      /\ \A v \in Workers : marking'[v] \subseteq marking[v]
      /\ \A v \in Workers : v # w => marking'[v] = marking[v]
  BY DEF IInv, TypeOK
<1>2. t \in Terms /\ t \in Kept \cap Sees(w) /\ (m_marked[t] = "active" \/ ~Born(t))
  BY DEF IInv, TypeOK, Held, Born
<1>3. TypeOK'
  BY <1>1 DEF IInv, TypeOK
<1>4. Phases' /\ Serial' /\ Lists' /\ Marks'
  BY DEF IInv, Phases, Serial, Unmarking, Marking, Sweeping, Lists, Born, Marks
<1>5. Kept' = Kept
  BY DEF Kept, Sweeping
<1>6. Closed' /\ Held'
  BY <1>1, <1>5 DEF IInv, Closed, Held, SeenFrom, Sees
<1>7. Ends'
  BY EndsFrame DEF IInv
<1>8. LocalMarking'
  <2>1. t \in LocalSeen(w)'
    BY <1>2 DEF LocalSeen, IInv, Lists, Kept
  <2>2. \A v \in Workers : LocalSeen(v) \subseteq LocalSeen(v)'
    BY <1>1, <2>1 DEF LocalSeen
  <2> QED BY <2>2 DEF IInv, LocalMarking
<1>9. GlobalMarking'
  <2>1. Seen \subseteq Seen'
    BY <1>1, <1>2 DEF Seen, Swept, Born
  <2> QED BY <2>1 DEF IInv, GlobalMarking, Marking, Swept
<1> QED BY <1>3, <1>4, <1>6, <1>7, <1>8, <1>9 DEF IInv

(* A term is marked, its indirections shortened.                            *)
LEMMA MarkActiveMarks ==
  ASSUME IInv, NEW w \in Workers, NEW t \in marking[w], m_marked[t] = "old", NEW next,
         next = IF ind[t] THEN {FollowFullIndirection(t)} ELSE ref[t],
         m_marked' = [m_marked EXCEPT ![t] = "active"],
         ref' = [ref EXCEPT ![t] = next],
         marking' = [marking EXCEPT ![w] = (@ \ {t}) \cup next],
         UNCHANGED <<list, global, ind, roots, queue, phase, serial>>
  PROVE  IInv'
<1>1. t \in Terms /\ t \in Kept \cap Sees(w) /\ Born(t) /\ phase[w] \in {"lmark", "mark"}
  BY DEF IInv, TypeOK, Held, Born
<1>2. next \subseteq Kept \cap SeenFrom(t)
  BY <1>1, NextKept DEF IInv
<1>3. next \subseteq Kept \cap Sees(w) /\ next \subseteq Terms /\ (~global[t] => Home[t] = w)
  BY <1>1, <1>2 DEF SeenFrom, Sees, Kept
<1>4. /\ ref'[t] = next /\ \A u \in Terms : u # t => ref'[u] = ref[u]
      /\ m_marked'[t] = "active" /\ \A u \in Terms : u # t => m_marked'[u] = m_marked[u]
      /\ marking'[w] = (marking[w] \ {t}) \cup next
      /\ \A v \in Workers : v # w => marking'[v] = marking[v]
  BY <1>1 DEF IInv, TypeOK
<1>5. ~Unmarking /\ ~Sweeping
  BY <1>1 DEF Unmarking, Sweeping
<1>6. /\ Unmarking' = Unmarking /\ Sweeping' = Sweeping /\ Marking' = Marking
      /\ \A u \in Terms : (Born(u)' <=> Born(u)) /\ (Swept(u)' <=> Swept(u))
  BY <1>1, <1>4 DEF Unmarking, Sweeping, Marking, Born, Swept
<1>7. TypeOK'
  <2>1. list[t] # "free"
    BY <1>1 DEF Kept
  <2> QED BY <1>1, <1>3, <2>1 DEF IInv, TypeOK
<1>8. Phases' /\ Serial'
  BY <1>6 DEF IInv, Phases, Serial
<1>9. Lists'
  BY <1>1, <1>4, <1>6 DEF IInv, Lists
<1>10. Kept' = Kept
  BY <1>5, <1>6 DEF Kept
<1>11. Closed'
  <2> SUFFICES ASSUME NEW u \in Kept PROVE ref'[u] \subseteq Kept \cap SeenFrom(u)
    BY <1>10 DEF Closed, SeenFrom
  <2> QED BY <1>2, <1>4 DEF IInv, Closed, Kept
<1>12. Held'
  BY <1>3, <1>4, <1>10 DEF IInv, Held, Sees
<1>13. Ends'
  <2>1. CASE ~ind[t]
    BY <1>4, <2>1, EndsFrame DEF IInv
  <2>2. CASE ind[t]
    <3> SUFFICES ASSUME NEW C \in SUBSET Terms, C # {}, IndClosed(C)', \A u \in C : ind[u]
                 PROVE  FALSE
      BY DEF Ends
    <3>1. CASE t \in C
      <4>1. FollowFullIndirection(t) \in C
        BY <1>4, <2>2, <3>1 DEF IndClosed
      <4>2. ~ind[FollowFullIndirection(t)]
        BY <1>1, FollowEnds DEF IInv
      <4> QED BY <4>1, <4>2
    <3>2. CASE t \notin C
      <4>1. IndClosed(C)
        BY <1>4, <3>2 DEF IndClosed
      <4> QED BY <4>1 DEF IInv, Ends
    <3> QED BY <3>1, <3>2
  <2> QED BY <2>1, <2>2
<1>14. Marks'
  BY <1>1, <1>3, <1>4, <1>5, <1>6 DEF IInv, Marks
<1>15. LocalMarking'
  <2>1. \A v \in Workers : LocalSeen(v) \subseteq LocalSeen(v)'
    BY <1>4 DEF LocalSeen
  <2>2. next \subseteq LocalSeen(w)'
    BY <1>3, <1>4 DEF LocalSeen
  <2> SUFFICES ASSUME NEW v \in Workers, phase[v] \in {"lmark", "mark"}
               PROVE  /\ roots[v] \subseteq LocalSeen(v)'
                      /\ \A x \in Terms :
                           Home[x] = v /\ ~global[x] /\ m_marked'[x] = "active" =>
                             ref'[x] \subseteq LocalSeen(v)'
    BY DEF LocalMarking
  <2>3. roots[v] \subseteq LocalSeen(v)'
    BY <2>1 DEF IInv, LocalMarking
  <2>4. ASSUME NEW x \in Terms, Home[x] = v, ~global[x], m_marked'[x] = "active"
        PROVE  ref'[x] \subseteq LocalSeen(v)'
    <3>1. CASE x = t
      BY <1>3, <1>4, <2>2, <2>4, <3>1
    <3>2. CASE x # t
      BY <1>4, <2>1, <2>4, <3>2 DEF IInv, LocalMarking
    <3> QED BY <3>1, <3>2
  <2> QED BY <2>3, <2>4
<1>16. GlobalMarking'
  <2>1. Seen \subseteq Seen' /\ next \subseteq Seen'
    BY <1>3, <1>4, <1>6 DEF Seen
  <2> QED BY <1>4, <1>6, <2>1 DEF IInv, GlobalMarking
<1> QED BY <1>7, <1>8, <1>9, <1>11, <1>12, <1>13, <1>14, <1>15, <1>16 DEF IInv

LEMMA MarkActiveKeeps ==
  ASSUME IInv, NEW w \in Workers, NEW t \in Terms, MarkActive(w, t)
  PROVE  IInv'
<1>1. CASE m_marked[t] = "old"
  <2> DEFINE next == IF ind[t] THEN {FollowFullIndirection(t)} ELSE ref[t]
  <2>1. /\ t \in marking[w] /\ m_marked' = [m_marked EXCEPT ![t] = "active"]
        /\ ref' = [ref EXCEPT ![t] = next]
        /\ marking' = [marking EXCEPT ![w] = (@ \ {t}) \cup next]
        /\ UNCHANGED <<list, global, ind, roots, queue, phase, serial>>
    BY <1>1 DEF MarkActive
  <2> HIDE DEF next
  <2>2. next = IF ind[t] THEN {FollowFullIndirection(t)} ELSE ref[t]
    BY DEF next
  <2> QED BY <1>1, <2>1, <2>2, MarkActiveMarks
<1>2. CASE m_marked[t] # "old"
  BY <1>2, MarkActiveSkips DEF MarkActive
<1> QED BY <1>1, <1>2

LEMMA ResumeKeeps ==
  ASSUME IInv, NEW w \in Workers, Resume(w)
  PROVE  IInv'
<1>1. /\ phase[w] = "gc4" /\ phase' = [phase EXCEPT ![w] = "run"]
      /\ UNCHANGED <<list, global, m_marked, ref, ind, roots, queue, marking, serial>>
  BY DEF Resume, Goto, heap
<1>2. phase'[w] = "run" /\ \A v \in Workers : v # w => phase'[v] = phase[v]
  BY <1>1 DEF IInv, TypeOK
<1>3. \A v \in Workers : phase[v] \in {"gc4", "run", "lmark", "gc1"}
  BY DEF Resume, Arrived
<1>4. ~Marking /\ ~Marking' /\ ~Unmarking' /\ ~Sweeping'
  BY <1>1, <1>2 DEF Marking, Unmarking, Sweeping
<1>5. Kept' = Kept
  BY <1>1, <1>3, <1>4, HeapAssumption DEF Kept
<1>6. TypeOK'
  BY <1>1 DEF IInv, TypeOK
<1>7. Phases' /\ Serial'
  BY <1>1, <1>2, <1>3, <1>4 DEF IInv, Phases, Serial
<1>8. Lists' /\ Marks'
  BY <1>1, <1>2, <1>4, HeapAssumption DEF IInv, Lists, Born, Marks
<1>9. Closed' /\ Held'
  BY <1>1, <1>5 DEF IInv, Closed, Held, SeenFrom, Sees
<1>10. Ends'
  BY <1>1, EndsFrame DEF IInv
<1>11. LocalMarking' /\ GlobalMarking'
  BY <1>1, <1>2, <1>4 DEF IInv, LocalMarking, LocalSeen, GlobalMarking
<1> QED BY <1>6, <1>7, <1>8, <1>9, <1>10, <1>11 DEF IInv

-----------------------------------------------------------------------------
(* Sweeping.  What has been freed, and what has not.                        *)
Dead(swept) == {t \in swept : m_marked[t] = "old"}

LEMMA SweepFacts ==
  ASSUME IInv, NEW swept \in SUBSET Live, NEW kept \in SUBSET Live, Sweep(swept, kept),
         swept \cap kept = {}, \A t \in swept \cup kept : Born(t)
  PROVE  /\ UNCHANGED <<roots, queue, marking>>
         /\ Live' = Live \ Dead(swept)
         /\ \A t \in Dead(swept) :
              list'[t] = "free" /\ ~Born(t)' /\ ~global'[t] /\ ~ind'[t] /\ ref'[t] = {}
         /\ \A t \in Terms \ Dead(swept) :
              ref'[t] = ref[t] /\ global'[t] = global[t] /\ ind'[t] = ind[t] /\ (Born(t)' <=> Born(t))
         /\ \A t \in (swept \ Dead(swept)) \cup kept :
              list'[t] = IF global[t] THEN "global" ELSE "local"
         /\ \A t \in Terms \ (swept \cup kept) : list'[t] = list[t]
         /\ \A t \in swept \ Dead(swept) : m_marked[t] = "active" /\ m_marked'[t] = "old"
         /\ \A t \in Terms \ swept : m_marked'[t] = m_marked[t]
         /\ list' \in [Terms -> {"free", "new", "local", "global"}]
         /\ global' \in [Terms -> BOOLEAN] /\ ind' \in [Terms -> BOOLEAN]
         /\ m_marked' \in [Terms -> {"unborn", "active", "old"}]
         /\ ref' \in [Terms -> SUBSET Terms]
         /\ \A t \in Terms : list'[t] = "free" => ref'[t] = {} /\ ~ind'[t]
<1> USE DEF Live
<1>1. /\ list' = [t \in Terms |->
            IF t \in Dead(swept) THEN "free"
            ELSE IF t \in swept \cup kept
            THEN IF global[t] THEN "global" ELSE "local"
            ELSE list[t]]
      /\ m_marked' = [t \in Terms |->
            IF t \in Dead(swept) THEN "unborn"
            ELSE IF t \in swept THEN "old" ELSE m_marked[t]]
      /\ global' = [t \in Terms |-> global[t] /\ t \notin Dead(swept)]
      /\ ind' = [t \in Terms |-> ind[t] /\ t \notin Dead(swept)]
      /\ ref' = [t \in Terms |-> IF t \in Dead(swept) THEN {} ELSE ref[t]]
      /\ UNCHANGED <<roots, queue, marking>>
  BY DEF Sweep, MarkOld, Dead
<1>2. \A t \in Dead(swept) : t \in Terms /\ t \in swept /\ m_marked[t] = "old"
  BY DEF Dead
<1>3. \A t \in swept \ Dead(swept) : m_marked[t] = "active"
  BY DEF Dead, Born, IInv, TypeOK
<1>4. \A t \in swept \cup kept : t \in Terms /\ m_marked[t] # "unborn" /\ list[t] # "free"
  BY DEF Born
<1>5. list' \in [Terms -> {"free", "new", "local", "global"}]
  BY <1>1 DEF IInv, TypeOK
<1>6. global' \in [Terms -> BOOLEAN] /\ ind' \in [Terms -> BOOLEAN]
  BY <1>1 DEF IInv, TypeOK
<1>7. m_marked' \in [Terms -> {"unborn", "active", "old"}]
  BY <1>1 DEF IInv, TypeOK
<1>8. ref' \in [Terms -> SUBSET Terms]
  BY <1>1 DEF IInv, TypeOK
<1>9. Live' = Live \ Dead(swept)
  BY <1>1, <1>2, <1>4
<1>10. \A t \in Dead(swept) :
         list'[t] = "free" /\ ~Born(t)' /\ ~global'[t] /\ ~ind'[t] /\ ref'[t] = {}
  BY <1>1, <1>2 DEF Born
<1>11. \A t \in Terms \ Dead(swept) :
         ref'[t] = ref[t] /\ global'[t] = global[t] /\ ind'[t] = ind[t] /\ (Born(t)' <=> Born(t))
  BY <1>1, <1>4 DEF Born, IInv, TypeOK
<1>12. \A t \in (swept \ Dead(swept)) \cup kept :
         list'[t] = IF global[t] THEN "global" ELSE "local"
  BY <1>1, <1>2, <1>4
<1>13. \A t \in Terms \ (swept \cup kept) : list'[t] = list[t]
  BY <1>1, <1>2
<1>14. \A t \in swept \ Dead(swept) : m_marked'[t] = "old"
  BY <1>1
<1>15. \A t \in Terms \ swept : m_marked'[t] = m_marked[t]
  BY <1>1, <1>2
<1>16. \A t \in Terms : list'[t] = "free" => ref'[t] = {} /\ ~ind'[t]
  BY <1>9, <1>10, <1>11 DEF IInv, TypeOK
<1> QED BY <1>1, <1>3, <1>5, <1>6, <1>7, <1>8, <1>9, <1>10, <1>11, <1>12, <1>13, <1>14,
           <1>15, <1>16

(* A local collection frees the local terms that it has not marked.  Nobody *)
(* refers to them.                                                          *)
LEMMA UnmarkedLocalIsUnused ==
  ASSUME IInv, ~Sweeping, NEW w \in Workers, phase[w] \in {"lmark", "mark"}, marking[w] = {},
         NEW d \in Live, Home[d] = w, ~global[d], m_marked[d] = "old"
  PROVE  /\ \A v \in Workers : d \notin roots[v] \cup marking[v]
         /\ d \notin queue
         /\ \A u \in Live : d \in ref[u] => Home[u] = w /\ ~global[u] /\ m_marked[u] = "old"
<1>1. Kept = Live /\ d \in Terms /\ d \notin LocalSeen(w)
  BY KeptIsLive DEF LocalSeen, Live
<1>2. ASSUME NEW v \in Workers PROVE d \notin roots[v] \cup marking[v]
  <2>1. CASE v = w
    BY <1>1, <2>1 DEF IInv, LocalMarking
  <2>2. CASE v # w
    BY <2>2 DEF IInv, Held, Sees
  <2> QED BY <2>1, <2>2
<1>3. d \notin queue
  BY DEF IInv, Held
<1>4. ASSUME NEW u \in Live, d \in ref[u]
      PROVE  Home[u] = w /\ ~global[u] /\ m_marked[u] = "old"
  <2>1. d \in SeenFrom(u) /\ u \in Terms
    BY <1>1, <1>4 DEF IInv, Closed, Live
  <2>2. Home[u] = w /\ ~global[u]
    BY <2>1 DEF SeenFrom
  <2>3. m_marked[u] # "active"
    BY <1>1, <1>4, <2>1, <2>2 DEF IInv, LocalMarking
  <2>4. m_marked[u] # "unborn"
    BY <1>4, <2>1 DEF IInv, Lists, Born
  <2> QED BY <2>1, <2>2, <2>3, <2>4 DEF IInv, TypeOK
<1> QED BY <1>2, <1>3, <1>4

(* When the last worker has swept its local terms, all have marked: what is *)
(* left refers to what will be left.                                        *)
LEMMA SweepLocalKeeps ==
  ASSUME IInv, NEW w \in Workers, SweepLocal(w)
  PROVE  /\ IInv' /\ UNCHANGED <<roots, queue>>
         /\ Marking' => /\ Marking
                        /\ \A t \in Terms : Visited(t) => Visited(t)' /\ ref'[t] = ref[t]
                        /\ \A t \in Terms : Reached(t)' => Reached(t)
<1> DEFINE new == {t \in Own(w, "new") : Born(t)}
           swept == Own(w, "local") \cup {t \in new : ~global[t]}
           kept == {t \in new : global[t]}
<1>1. /\ marking[w] = {} /\ phase[w] \in {"lmark", "mark"} /\ serial' = serial
      /\ phase' = [phase EXCEPT ![w] = IF phase[w] = "lmark" THEN "run" ELSE "gc3"]
      /\ Sweep(swept, kept)
  BY DEF SweepLocal, MarkedAll, Goto
<1>2. \A t \in Terms : t \in swept <=> Home[t] = w /\ t \in Live /\ Born(t) /\ ~global[t]
  BY DEF Own, Live, IInv, Lists, TypeOK
<1>3. \A t \in Terms : t \in kept <=> Home[t] = w /\ list[t] = "new" /\ Born(t) /\ global[t]
  BY DEF Own
<1>4. /\ swept \in SUBSET Live /\ kept \in SUBSET Live /\ swept \cap kept = {}
      /\ \A t \in swept \cup kept : Born(t)
  BY <1>2, <1>3 DEF Own, Live
<1> HIDE DEF new, swept, kept
<1> DEFINE dead == Dead(swept)
<1>5. dead \subseteq swept /\ \A t \in swept : t \in dead <=> m_marked[t] = "old"
  BY DEF Dead
<1>6. /\ Live' = Live \ dead /\ UNCHANGED <<roots, queue, marking>>
      /\ \A t \in dead : ~Born(t)' /\ ref'[t] = {} /\ ~global[t] /\ ~global'[t] /\ ~ind'[t]
      /\ \A t \in Terms \ dead :
           ref'[t] = ref[t] /\ global'[t] = global[t] /\ ind'[t] = ind[t] /\ (Born(t)' <=> Born(t))
  <2>1. /\ Live' = Live \ dead /\ UNCHANGED <<roots, queue, marking>>
        /\ \A t \in dead : ~Born(t)' /\ ref'[t] = {} /\ ~global'[t] /\ ~ind'[t]
        /\ \A t \in Terms \ dead :
             ref'[t] = ref[t] /\ global'[t] = global[t] /\ ind'[t] = ind[t] /\ (Born(t)' <=> Born(t))
    BY <1>1, <1>4, SweepFacts
  <2>2. \A t \in dead : ~global[t]
    BY <1>2, <1>4, <1>5 DEF Live
  <2> QED BY <2>1, <2>2
<1>7. /\ \A t \in dead : list'[t] = "free"
      /\ \A t \in swept \ dead : list'[t] = "local" /\ m_marked[t] = "active" /\ m_marked'[t] = "old"
      /\ \A t \in kept : list'[t] = "global"
      /\ \A t \in Terms \ (swept \cup kept) : list'[t] = list[t]
      /\ \A t \in Terms \ swept : m_marked'[t] = m_marked[t]
  BY <1>1, <1>2, <1>3, <1>4, <1>5, SweepFacts DEF Live
<1> HIDE DEF dead
<1>8. \A t \in Terms : global'[t] <=> global[t]
  BY <1>6
<1>9. ~Sweeping /\ Kept = Live
  BY <1>1, KeptIsLive DEF Sweeping
<1>10. \A d \in dead : Home[d] = w /\ d \in Live /\ ~global[d] /\ m_marked[d] = "old"
  BY <1>2, <1>4, <1>5 DEF Live
<1>11. /\ \A v \in Workers, d \in dead : d \notin roots[v] \cup marking[v]
       /\ \A d \in dead : d \notin queue
       /\ \A u \in Live \ dead, d \in dead : d \notin ref[u]
  <2>1. \A u \in Live : Home[u] = w /\ ~global[u] /\ m_marked[u] = "old" => u \in dead
    BY <1>2, <1>5 DEF Born, Live
  <2> QED BY <1>1, <1>9, <1>10, <2>1, UnmarkedLocalIsUnused
<1>12. /\ \A v \in Workers : v # w => phase'[v] = phase[v]
       /\ phase[w] = "lmark" => phase'[w] = "run"
       /\ phase[w] = "mark" => phase'[w] = "gc3"
       /\ phase' \in [Workers -> {"run", "lmark", "mark"} \cup Waiting]
  BY <1>1 DEF IInv, TypeOK, Waiting
<1>13. ~Unmarking' /\ (Marking' => Marking /\ phase[w] = "mark" /\ phase'[w] = "gc3")
  BY <1>1, <1>12 DEF Unmarking, Marking
<1>14. TypeOK'
  <2>1. \A v \in Workers : marking'[v] # {} => phase'[v] \in {"lmark", "mark"}
    BY <1>1, <1>6, <1>12 DEF IInv, TypeOK
  <2>2. serial' \in Workers \cup {NoWorker} /\ roots' \in [Workers -> SUBSET Terms]
        /\ queue' \in SUBSET Terms /\ marking' \in [Workers -> SUBSET Terms]
    BY <1>1, <1>6 DEF IInv, TypeOK
  <2> QED BY <1>1, <1>4, <1>12, <2>1, <2>2, SweepFacts DEF TypeOK
<1>15. Phases' /\ Serial'
  <2>1. CASE phase[w] = "lmark"
    <3>1. \A v \in Workers : phase[v] \in {"run", "lmark", "gc1", "gc4"}
      BY <2>1 DEF IInv, Phases, Unmarking, Marking, Sweeping
    <3>2. ~Marking /\ ~Marking'
      BY <1>13, <2>1 DEF Marking
    <3> QED BY <1>1, <1>12, <2>1, <3>1, <3>2 DEF IInv, Phases, Serial
  <2>2. CASE phase[w] = "mark"
    <3>1. Marking /\ Marking'
      BY <1>12, <2>2 DEF IInv, Phases, Unmarking, Marking, Sweeping
    <3> QED BY <1>1, <1>12, <2>2, <3>1 DEF IInv, Phases, Serial
  <2> QED BY <1>1, <2>1, <2>2
<1>16. Lists'
  <2> SUFFICES ASSUME NEW t \in Terms
               PROVE  /\ list'[t] = "free" => ~Born(t)' /\ ~global'[t]
                      /\ list'[t] = "local" => ~global'[t]
                      /\ list'[t] = "global" => global'[t]
                      /\ ~Born(t)' => ref'[t] = {} /\ ~ind'[t] /\ list'[t] \in {"free", "new"}
                      /\ ~Born(t)' /\ list'[t] = "new" => global'[t]
                      /\ list'[t] = "new" /\ phase'[Home[t]] = "gc3" => ~Born(t)'
    BY DEF Lists
  <2>1. CASE t \in dead
    BY <1>6, <1>7, <2>1
  <2>2. CASE t \in swept \ dead
    BY <1>2, <1>6, <1>7, <2>2
  <2>3. CASE t \in kept
    BY <1>3, <1>4, <1>5, <1>6, <1>7, <2>3
  <2>4. CASE t \in Terms \ (swept \cup kept)
    <3>1. list'[t] = list[t] /\ t \notin dead
      BY <1>5, <1>7, <2>4
    <3>2. ref'[t] = ref[t] /\ global'[t] = global[t] /\ ind'[t] = ind[t] /\ (Born(t)' <=> Born(t))
      BY <1>6, <3>1
    <3>3. Home[t] = w /\ list[t] = "new" => ~Born(t)
      BY <1>2, <1>3, <2>4 DEF Live
    <3> QED BY <1>12, <3>1, <3>2, <3>3, HeapAssumption DEF IInv, Lists
  <2> QED BY <2>1, <2>2, <2>3, <2>4
<1>17. Ends'
  BY <1>6, EndsFrame DEF IInv
<1>18. Marks'
  <2> SUFFICES ASSUME NEW t \in Terms, m_marked'[t] = "active", ~global'[t]
               PROVE  phase'[Home[t]] \in {"lmark", "mark"}
    BY <1>13 DEF Marks
  <2>1. t \notin swept
    BY <1>6, <1>7 DEF Born
  <2>2. m_marked[t] = "active" /\ ~global[t]
    BY <1>7, <1>8, <2>1
  <2>3. Home[t] # w
    BY <1>2, <2>1, <2>2 DEF Born, Live, IInv, Lists
  <2> QED BY <1>12, <2>2, <2>3, HeapAssumption DEF IInv, Marks
<1>19. LocalMarking'
  <2> SUFFICES ASSUME NEW v \in Workers, phase'[v] \in {"lmark", "mark"}
               PROVE  /\ roots'[v] \subseteq LocalSeen(v)'
                      /\ \A t \in Terms :
                           Home[t] = v /\ ~global'[t] /\ m_marked'[t] = "active" =>
                             ref'[t] \subseteq LocalSeen(v)'
    BY DEF LocalMarking
  <2>1. v # w /\ phase[v] \in {"lmark", "mark"}
    BY <1>1, <1>12
  <2>2. ASSUME NEW u \in LocalSeen(v), global[u] \/ Home[u] = v PROVE u \in LocalSeen(v)'
    <3>1. u \in Terms
      BY DEF LocalSeen
    <3>2. CASE global[u]
      BY <1>8, <3>1, <3>2 DEF LocalSeen
    <3>3. CASE Home[u] = v
      BY <1>2, <1>6, <1>7, <1>8, <2>1, <3>1, <3>3 DEF LocalSeen
    <3> QED BY <2>2, <3>2, <3>3
  <2>3. roots'[v] \subseteq LocalSeen(v)'
    BY <1>6, <2>1, <2>2 DEF IInv, LocalMarking, Held, Sees
  <2>4. ASSUME NEW t \in Terms, Home[t] = v, ~global'[t], m_marked'[t] = "active"
        PROVE  ref'[t] \subseteq LocalSeen(v)'
    <3>1. t \notin swept /\ t \notin dead
      BY <1>2, <1>5, <2>1, <2>4
    <3>2. m_marked[t] = "active" /\ ~global[t] /\ ref'[t] = ref[t]
      BY <1>6, <1>7, <1>8, <2>4, <3>1
    <3>3. t \in Live
      BY <3>2 DEF Live, Born, IInv, Lists
    <3>4. ref[t] \subseteq LocalSeen(v) /\ ref[t] \subseteq SeenFrom(t)
      BY <1>9, <2>1, <2>4, <3>2, <3>3 DEF IInv, LocalMarking, Closed
    <3> QED BY <2>2, <2>4, <3>2, <3>4 DEF SeenFrom
  <2> QED BY <2>3, <2>4
<1>20. Marking' => /\ Seen \subseteq Seen'
                   /\ \A t \in Terms : m_marked'[t] = "active" \/ Swept(t)' => ref'[t] \subseteq Seen
  <2> SUFFICES ASSUME Marking' PROVE /\ Seen \subseteq Seen'
                                     /\ \A t \in Terms : m_marked'[t] = "active" \/ Swept(t)' =>
                                          ref'[t] \subseteq Seen
    OBVIOUS
  <2>1. Marking /\ phase[w] = "mark" /\ phase'[w] = "gc3"
    BY <1>13
  <2>2. \A t \in Terms : Swept(t) \/ t \in swept => Swept(t)'
    BY <1>2, <1>8, <1>12, <2>1, HeapAssumption DEF Swept
  <2>3. ASSUME NEW t \in Seen PROVE t \in Seen'
    <3>1. t \in Terms
      BY DEF Seen
    <3>2. CASE t \in swept
      BY <2>2, <3>1, <3>2 DEF Seen
    <3>3. CASE t \notin swept
      BY <1>5, <1>6, <1>7, <2>2, <3>1, <3>3 DEF Seen
    <3> QED BY <3>2, <3>3
  <2>4. ASSUME NEW t \in Terms, m_marked'[t] = "active" \/ Swept(t)'
        PROVE  ref'[t] \subseteq Seen
    <3>1. CASE t \in dead
      BY <1>6, <3>1
    <3>2. CASE t \notin dead
      <4>1. ref'[t] = ref[t]
        BY <1>6, <3>2
      <4>2. CASE m_marked[t] = "active" \/ Swept(t)
        BY <2>1, <4>1, <4>2 DEF IInv, GlobalMarking
      <4>3. CASE m_marked[t] # "active" /\ ~Swept(t)
        <5>1. m_marked'[t] # "active"
          BY <1>6, <1>7, <3>2, <4>3
        <5>2. ~global[t] /\ Home[t] = w
          BY <1>8, <1>12, <2>4, <4>3, <5>1, HeapAssumption DEF Swept
        <5>3. ~Born(t)
          BY <1>2, <1>5, <1>7, <3>2, <4>3, <5>2 DEF IInv, Lists, Live
        <5> QED BY <4>1, <5>3 DEF IInv, Lists
      <4> QED BY <4>2, <4>3
    <3> QED BY <3>1, <3>2
  <2> QED BY <2>3, <2>4
<1>21. GlobalMarking'
  BY <1>1, <1>6, <1>12, <1>13, <1>20 DEF IInv, GlobalMarking
<1>22. ASSUME ~Sweeping' PROVE IInv'
  <2>1. Kept' = Live'
    BY <1>22 DEF Kept, Live
  <2>2. Closed'
    <3> SUFFICES ASSUME NEW u \in Live' PROVE ref'[u] \subseteq Live' \cap SeenFrom(u)'
      BY <2>1 DEF Closed
    <3>1. u \in Live \ dead /\ u \in Terms
      BY <1>6 DEF Live
    <3>2. ref'[u] \subseteq Live \cap SeenFrom(u)
      BY <1>6, <1>9, <3>1 DEF IInv, Closed
    <3>3. SeenFrom(u)' = SeenFrom(u)
      BY <1>8, <3>1 DEF SeenFrom
    <3> QED BY <1>6, <1>11, <3>1, <3>2, <3>3
  <2>3. Held'
    BY <1>6, <1>8, <1>9, <1>11, <2>1 DEF IInv, Held, Sees, Live
  <2> QED BY <1>14, <1>15, <1>16, <1>17, <1>18, <1>19, <1>21, <2>2, <2>3 DEF IInv
<1>23. ASSUME Sweeping' PROVE IInv'
  <2>1. Marking' /\ phase'[w] = "gc3" /\ \A v \in Workers : phase'[v] = "gc3"
    <3>1. phase[w] = "mark" /\ phase'[w] = "gc3"
      BY <1>1, <1>12, <1>23 DEF Sweeping
    <3>2. Marking
      BY <3>1 DEF IInv, Phases, Unmarking, Marking, Sweeping
    <3> QED BY <1>12, <1>23, <3>1, <3>2 DEF Marking, Sweeping
  <2>2. Kept' = {t \in Live' : list'[t] = "global" => m_marked'[t] = "active"}
    BY <1>23, <2>1, HeapAssumption DEF Kept, Live
  <2>3. \A v \in Workers : marking'[v] = {}
    BY <1>14, <2>1 DEF TypeOK
  <2>4. Seen' \cap Live' \subseteq Kept'
    <3> SUFFICES ASSUME NEW t \in Seen', t \in Live', list'[t] = "global"
                 PROVE  m_marked'[t] = "active"
      BY <2>2
    <3>1. t \in Terms /\ Born(t)' /\ global'[t]
      BY <1>16 DEF Live, Lists
    <3> QED BY <2>3, <3>1 DEF Seen, Swept
  <2>5. Closed'
    <3> SUFFICES ASSUME NEW u \in Kept' PROVE ref'[u] \subseteq Kept' \cap SeenFrom(u)'
      BY DEF Closed
    <3>1. u \in Live \ dead /\ u \in Terms /\ u \in Live'
      BY <1>6, <2>2 DEF Live
    <3>2. ref'[u] \subseteq Live \cap SeenFrom(u)
      BY <1>6, <1>9, <3>1 DEF IInv, Closed
    <3>3. SeenFrom(u)' = SeenFrom(u)
      BY <1>8, <3>1 DEF SeenFrom
    <3>4. ref'[u] \subseteq Live'
      BY <1>6, <1>11, <3>1, <3>2
    <3>5. m_marked'[u] = "active" \/ Swept(u)' \/ ~Born(u)'
      BY <1>14, <1>16, <2>1, <2>2, <3>1, HeapAssumption DEF Lists, Swept, Live, TypeOK
    <3>6. ref'[u] \subseteq Seen'
      BY <1>16, <1>20, <2>1, <3>1, <3>5 DEF Lists
    <3> QED BY <2>4, <3>2, <3>3, <3>4, <3>6
  <2>6. Held'
    <3>1. \A v \in Workers : roots'[v] \subseteq Seen' \cap Live' \cap Sees(v)'
      BY <1>6, <1>8, <1>9, <1>11, <1>21, <2>1 DEF IInv, Held, Sees, GlobalMarking
    <3>2. serial' # NoWorker
      BY <1>15, <2>1, HeapAssumption DEF Serial
    <3>3. \A t \in queue' : t \in Seen' \cap Live' /\ global'[t]
      BY <1>6, <1>8, <1>9, <1>11, <1>21, <2>1, <3>2 DEF IInv, Held, GlobalMarking, Live
    <3> QED BY <2>3, <2>4, <3>1, <3>3 DEF Held
  <2> QED BY <1>14, <1>15, <1>16, <1>17, <1>18, <1>19, <1>21, <2>5, <2>6 DEF IInv
<1>24. ASSUME Marking'
       PROVE  /\ \A t \in Terms : Visited(t) => Visited(t)' /\ ref'[t] = ref[t]
              /\ \A t \in Terms : Reached(t)' => Reached(t)
  <2>1. phase[w] = "mark" /\ phase'[w] = "gc3"
    BY <1>13, <1>24
  <2>2. ASSUME NEW t \in Terms, Visited(t) PROVE Visited(t)' /\ ref'[t] = ref[t]
    <3>1. t \notin dead
      BY <1>10, <2>1, <2>2 DEF Visited, Swept
    <3>2. CASE t \in swept
      BY <1>2, <1>6, <1>8, <2>1, <3>1, <3>2 DEF Visited, Swept
    <3>3. CASE t \notin swept
      BY <1>6, <1>7, <1>8, <1>12, <2>1, <2>2, <3>1, <3>3, HeapAssumption DEF Visited, Swept
    <3> QED BY <3>2, <3>3
  <2>3. ASSUME NEW t \in Terms, Reached(t)' PROVE Reached(t)
    <3>1. CASE m_marked'[t] = "active"
      <4>1. t \notin swept
        BY <1>6, <1>7, <3>1 DEF Born
      <4> QED BY <1>7, <3>1, <4>1 DEF Reached
    <3>2. CASE t \in Live' /\ Swept(t)'
      <4>1. t \in Live /\ t \notin dead /\ ~global[t]
        BY <1>6, <1>8, <3>2 DEF Swept
      <4>2. CASE Home[t] = w
        BY <1>2, <1>7, <4>1, <4>2 DEF Reached, IInv, Lists, Live
      <4>3. CASE Home[t] # w
        BY <1>12, <3>2, <4>1, <4>3, HeapAssumption DEF Reached, Swept
      <4> QED BY <4>2, <4>3
    <3>3. CASE \E v \in Workers : t \in marking'[v]
      BY <1>6, <3>3 DEF Reached
    <3> QED BY <2>3, <3>1, <3>2, <3>3 DEF Reached
  <2> QED BY <2>2, <2>3
<1> QED BY <1>6, <1>13, <1>22, <1>23, <1>24

(* Global terms without a mark are in nobody's way when they are freed.     *)
LEMMA SweepGlobalKeeps ==
  ASSUME IInv, NEW w \in Workers, SweepGlobal(w)
  PROVE  /\ IInv' /\ Sweeping /\ ~Marking' /\ Kept' = Kept /\ UNCHANGED <<roots, queue>>
         /\ \A t \in Kept : ref'[t] = ref[t] /\ (Born(t)' => Born(t))
<1> DEFINE swept == Own(w, "global")
           dead == Dead(swept)
<1>1. /\ phase[w] = "gc3" /\ phase' = [phase EXCEPT ![w] = "gc4"]
      /\ Sweep(swept, {}) /\ serial' = NoWorker
  BY DEF SweepGlobal, Goto
<1>2. phase'[w] = "gc4" /\ \A v \in Workers : v # w => phase'[v] = phase[v]
  BY <1>1 DEF IInv, TypeOK
<1>3. Sweeping /\ Sweeping' /\ ~Marking' /\ ~Unmarking'
  BY <1>1, <1>2 DEF SweepGlobal, Arrived, Sweeping, Marking, Unmarking
<1>4. /\ \A t \in Terms : t \in swept <=> Home[t] = w /\ list[t] = "global"
      /\ swept \in SUBSET Live /\ {} \in SUBSET Live /\ swept \cap {} = {}
      /\ \A t \in swept \cup {} : Born(t)
  BY DEF Own, Live, IInv, Lists
<1> HIDE DEF swept
<1>5. /\ Live' = Live \ dead /\ UNCHANGED <<roots, queue, marking>>
      /\ \A t \in dead : list'[t] = "free" /\ ~Born(t)' /\ ref'[t] = {} /\ ~global'[t] /\ ~ind'[t]
      /\ \A t \in Terms \ dead :
           ref'[t] = ref[t] /\ global'[t] = global[t] /\ ind'[t] = ind[t] /\ (Born(t)' <=> Born(t))
      /\ \A t \in swept \ dead :
           list'[t] = (IF global[t] THEN "global" ELSE "local") /\ m_marked[t] = "active"
      /\ \A t \in Terms \ swept : list'[t] = list[t] /\ m_marked'[t] = m_marked[t]
  BY <1>1, <1>4, SweepFacts
<1>6. dead \subseteq swept /\ \A t \in swept : t \in dead <=> m_marked[t] = "old"
  BY DEF Dead
<1> HIDE DEF dead
<1>7. \A t \in swept \ dead : list'[t] = list[t]
  BY <1>4, <1>5 DEF Live, IInv, Lists
<1>8. Kept' = Kept
  <2>1. ASSUME NEW t \in Terms PROVE t \in Kept' <=> t \in Kept
    <3>1. CASE t \in dead
      BY <1>1, <1>3, <1>4, <1>5, <1>6, <3>1 DEF Kept
    <3>2. CASE t \in swept \ dead
      BY <1>2, <1>4, <1>5, <1>7, <3>2 DEF Kept, Live
    <3>3. CASE t \notin swept
      BY <1>2, <1>3, <1>4, <1>5, <3>3, HeapAssumption DEF Kept
    <3> QED BY <3>1, <3>2, <3>3
  <2> QED BY <2>1 DEF Kept
<1>9. \A t \in Kept : t \in Terms /\ t \notin dead
  BY <1>8, <1>5 DEF Kept
<1>10. TypeOK'
  <2>1. phase' \in [Workers -> {"run", "lmark", "mark"} \cup Waiting]
    BY <1>1 DEF IInv, TypeOK, Waiting
  <2>2. \A v \in Workers : marking'[v] # {} => phase'[v] \in {"lmark", "mark"}
    BY <1>2, <1>3, <1>5 DEF IInv, TypeOK, Sweeping
  <2>3. roots' \in [Workers -> SUBSET Terms] /\ queue' \in SUBSET Terms
        /\ marking' \in [Workers -> SUBSET Terms] /\ serial' \in Workers \cup {NoWorker}
    BY <1>1, <1>5 DEF IInv, TypeOK
  <2> QED BY <1>1, <1>4, <2>1, <2>2, <2>3, SweepFacts DEF TypeOK
<1>11. Phases' /\ Serial'
  BY <1>1, <1>3 DEF Phases, Serial
<1>12. Lists'
  <2> SUFFICES ASSUME NEW t \in Terms
               PROVE  /\ list'[t] = "free" => ~Born(t)' /\ ~global'[t]
                      /\ list'[t] = "local" => ~global'[t]
                      /\ list'[t] = "global" => global'[t]
                      /\ ~Born(t)' => ref'[t] = {} /\ ~ind'[t] /\ list'[t] \in {"free", "new"}
                      /\ ~Born(t)' /\ list'[t] = "new" => global'[t]
                      /\ list'[t] = "new" /\ phase'[Home[t]] = "gc3" => ~Born(t)'
    BY DEF Lists
  <2>1. CASE t \in dead
    BY <1>5, <2>1
  <2>2. CASE t \notin dead
    <3>1. list'[t] = list[t]
      BY <1>5, <1>7, <2>2
    <3> QED BY <1>2, <1>5, <2>2, <3>1, HeapAssumption DEF IInv, Lists
  <2> QED BY <2>1, <2>2
<1>13. Closed'
  <2> SUFFICES ASSUME NEW u \in Kept PROVE ref'[u] \subseteq Kept \cap SeenFrom(u)'
    BY <1>8 DEF Closed
  <2>1. ref'[u] = ref[u] /\ ref[u] \subseteq Kept \cap SeenFrom(u)
    BY <1>5, <1>9 DEF IInv, Closed
  <2> QED BY <1>5, <1>9, <2>1 DEF SeenFrom
<1>14. Held'
  BY <1>5, <1>8, <1>9 DEF IInv, Held, Sees
<1>15. Ends'
  BY <1>5, EndsFrame DEF IInv
<1>16. Marks'
  <2> SUFFICES ASSUME NEW t \in Terms, m_marked'[t] = "active" PROVE global'[t]
    BY <1>3 DEF Marks
  <2>1. t \notin dead
    BY <1>5 DEF Born
  <2>2. CASE t \in swept
    BY <1>4, <1>5, <2>1, <2>2 DEF IInv, Lists
  <2>3. CASE t \notin swept
    BY <1>3, <1>5, <2>1, <2>3, HeapAssumption DEF IInv, Marks, Sweeping
  <2> QED BY <2>2, <2>3
<1>17. LocalMarking' /\ GlobalMarking'
  BY <1>3 DEF LocalMarking, GlobalMarking, Sweeping
<1>18. \A t \in Kept : ref'[t] = ref[t] /\ (Born(t)' => Born(t))
  BY <1>5, <1>9
<1> QED BY <1>3, <1>5, <1>8, <1>10, <1>11, <1>12, <1>13, <1>14, <1>15, <1>16, <1>17, <1>18 DEF IInv

-----------------------------------------------------------------------------
(* Every step preserves the invariant.                                      *)
LEMMA NextIInv == IInv /\ [Next]_vars => IInv'
<1> SUFFICES ASSUME IInv, [Next]_vars PROVE IInv'
  OBVIOUS
<1>1. ASSUME NEW w \in Workers, DoGC(w) PROVE IInv'
  BY <1>1, StartLocalKeeps, StartGlobalKeeps, UnmarkKeeps, MarkRootsKeeps, MarkActiveKeeps,
     SweepLocalKeeps, SweepGlobalKeeps, ResumeKeeps DEF DoGC
<1>2. CASE UNCHANGED vars
  <2>1. UNCHANGED <<list, global, m_marked, ref, ind, roots, queue, marking, phase, serial>>
    BY <1>2 DEF vars, heap, gc
  <2>2. Kept' = Kept /\ Unmarking' = Unmarking /\ Marking' = Marking /\ Sweeping' = Sweeping
    BY <2>1 DEF Kept, Unmarking, Marking, Sweeping
  <2>3. TypeOK' /\ Phases' /\ Serial' /\ Lists'
    BY <2>1, <2>2 DEF IInv, TypeOK, Phases, Serial, Lists, Born
  <2>4. Closed' /\ Held' /\ Marks'
    BY <2>1, <2>2 DEF IInv, Closed, SeenFrom, Held, Sees, Marks
  <2>5. Ends'
    BY <2>1, EndsFrame DEF IInv
  <2>6. LocalMarking' /\ GlobalMarking'
    BY <2>1, <2>2 DEF IInv, LocalMarking, LocalSeen, GlobalMarking, Seen, Swept, Born
  <2> QED BY <2>3, <2>4, <2>5, <2>6 DEF IInv
<1> QED BY <1>1, <1>2, EvaluateKeeps DEF Next

LEMMA AlwaysIInv == Spec => []IInv
BY InitIInv, NextIInv, PTL DEF Spec

(* For any number of workers, any heaps and any terms: the variables have   *)
(* their types (gc_marksweep.h:376-475, term.h:640-694).                    *)
THEOREM TypeCorrect == Spec => []TypeOK
<1>1. IInv => TypeOK
  BY DEF IInv
<1> QED BY <1>1, AlwaysIInv, PTL

(* What the program can still reach is kept.                                *)
LEMMA ReachableIsKept == IInv => Reachable(InUse) \subseteq Kept
<1> SUFFICES ASSUME IInv PROVE Reachable(InUse) \subseteq Kept
  OBVIOUS
<1>1. InUse \subseteq Kept
  <2>1. \A w \in Workers : roots[w] \subseteq Kept
    BY DEF IInv, Held
  <2>2. \A t \in queue : t \in Kept
    BY DEF IInv, Held
  <2> QED BY <2>1, <2>2 DEF InUse
<1>2. Kept \in SUBSET Terms /\ \A u \in Kept : ref[u] \subseteq Kept
  BY DEF Kept, IInv, Closed
<1> QED BY <1>1, <1>2, ReachableIn

(* The collector frees nothing that the program can reach, whatever local   *)
(* and global collections overlap with (gc_marksweep.h:376-475).            *)
THEOREM NothingIsLost == Spec => []NothingLost
<1>1. IInv => NothingLost
  BY ReachableIsKept DEF NothingLost, Kept
<1> QED BY <1>1, AlwaysIInv, PTL

-----------------------------------------------------------------------------
(* Garbage is collected, since nothing is marked that has not been reached. *)
LEMMA TraceIs ==
  Trace = {t \in Terms : \A C \in SUBSET Terms :
             InUse \subseteq C /\ (\A u \in C : Visited(u) => ref[u] \subseteq C) => t \in C}
BY DEF Trace, Closure

LEMMA ReachableIs ==
  Reachable(InUse) = {t \in Terms : \A C \in SUBSET Terms :
             InUse \subseteq C /\ (\A u \in C : ref[u] \subseteq C) => t \in C}
BY DEF Reachable, Closure

LEMMA TraceIsReachable == Trace \subseteq Reachable(InUse)
BY TraceIs, ReachableIs

LEMMA TraceGrows ==
  ASSUME UNCHANGED InUse, \A u \in Terms : Visited(u) => Visited(u)' /\ ref'[u] = ref[u]
  PROVE  Trace \subseteq Trace'
<1>1. Trace' = {t \in Terms : \A C \in SUBSET Terms :
             InUse' \subseteq C /\ (\A u \in C : Visited(u)' => ref'[u] \subseteq C) => t \in C}
  BY DEF Trace, Closure
<1> SUFFICES ASSUME NEW t \in Trace, NEW C \in SUBSET Terms, InUse \subseteq C,
                    \A u \in C : Visited(u)' => ref'[u] \subseteq C
             PROVE  t \in C
  BY <1>1, TraceIs
<1>2. \A u \in C : Visited(u) => ref[u] \subseteq C
  OBVIOUS
<1> QED BY <1>2, TraceIs

LEMMA InitTracing == Init => Tracing
<1> SUFFICES ASSUME Init PROVE Tracing
  OBVIOUS
<1>1. ~Marking /\ ~Sweeping
  BY HeapAssumption DEF Init, Marking, Sweeping
<1> QED BY <1>1 DEF Tracing, Reached

(* The phases in which nothing is claimed.                                  *)
LEMMA IdleTraces ==
  ASSUME NEW w \in Workers, phase'[w] \in {"run", "lmark", "gc1"} PROVE Tracing'
<1>1. ~Marking' /\ ~Sweeping'
  BY DEF Marking, Sweeping
<1> QED BY <1>1 DEF Tracing, Reached

LEMMA UnmarkTraces ==
  ASSUME IInv, IInv', NEW w \in Workers, Unmark(w) PROVE Tracing'
<1>1. phase'[w] = "gc2" /\ Unmarking'
  BY DEF Unmark, Arrived, Unmarking, Goto, IInv, TypeOK
<1>2. ~Sweeping'
  BY <1>1 DEF Sweeping
<1> SUFFICES ASSUME Marking' PROVE Tracing'
  BY <1>2 DEF Tracing, Reached
<1>3. \A v \in Workers : phase'[v] = "gc2" /\ marking'[v] = {}
  BY <1>1 DEF Unmarking, Marking, IInv, TypeOK
<1>4. \A t \in Terms : m_marked'[t] # "active" /\ ~Swept(t)'
  BY <1>1, <1>3, HeapAssumption DEF IInv, Marks, Swept
<1> QED BY <1>2, <1>3, <1>4 DEF Tracing, Reached

LEMMA MarkRootsTraces ==
  ASSUME IInv, Tracing, NEW w \in Workers, MarkRoots(w) PROVE Tracing'
<1>1. /\ phase[w] = "gc2" /\ phase' = [phase EXCEPT ![w] = "mark"]
      /\ UNCHANGED <<list, global, m_marked, ref, ind, roots, queue>>
  BY DEF MarkRoots, Goto, heap
<1>2. phase'[w] = "mark" /\ \A v \in Workers : v # w => phase'[v] = phase[v]
  BY <1>1 DEF IInv, TypeOK
<1>3. Marking /\ ~Sweeping'
  BY <1>2 DEF MarkRoots, Arrived, Marking, Sweeping
<1>4. /\ marking'[w] \subseteq roots[w] \cup queue
      /\ \A v \in Workers : v # w => marking'[v] = marking[v]
  BY <1>1 DEF MarkRoots, IInv, TypeOK
<1>5. /\ \A t \in Terms : Swept(t)' <=> Swept(t)
      /\ Live' = Live /\ InUse' = InUse
  BY <1>1, <1>2, HeapAssumption DEF Swept, Live, InUse
<1>6. Trace \subseteq Trace'
  BY <1>1, <1>5, TraceGrows DEF Visited
<1>7. \A t \in Terms : t \in marking'[w] => t \in Trace
  BY <1>4, TraceIs DEF InUse
<1> QED BY <1>1, <1>3, <1>4, <1>5, <1>6, <1>7 DEF Tracing, Reached

LEMMA MarkActiveTraces ==
  ASSUME IInv, Tracing, NEW w \in Workers, NEW t \in Terms, MarkActive(w, t) PROVE Tracing'
<1>1. t \in marking[w] /\ UNCHANGED <<list, global, ind, roots, queue, phase, serial>>
  BY DEF MarkActive
<1>2. phase[w] \in {"lmark", "mark"}
  BY <1>1 DEF IInv, TypeOK
<1>3. /\ Marking' = Marking /\ ~Sweeping' /\ UNCHANGED <<Live, InUse>>
      /\ \A u \in Terms : Swept(u)' <=> Swept(u)
  BY <1>1, <1>2 DEF Marking, Sweeping, Live, InUse, Swept
<1> SUFFICES ASSUME Marking PROVE Tracing'
  BY <1>3 DEF Tracing, Reached
<1>4. t \in Trace /\ ~Swept(t)
  BY <1>1, <1>2 DEF Tracing, Reached, Swept, IInv, Held, Sees
<1>5. CASE m_marked[t] # "old"
  <2>1. UNCHANGED <<m_marked, ref>> /\ \A v \in Workers : marking'[v] \subseteq marking[v]
    BY <1>5 DEF MarkActive, IInv, TypeOK
  <2>2. Trace \subseteq Trace'
    BY <1>3, <2>1, TraceGrows DEF Visited
  <2> QED BY <1>3, <2>1, <2>2 DEF Tracing, Reached
<1>6. CASE m_marked[t] = "old"
  <2>1. /\ m_marked'[t] = "active" /\ \A u \in Terms : u # t => m_marked'[u] = m_marked[u]
        /\ \A u \in Terms : u # t => ref'[u] = ref[u]
        /\ marking'[w] \subseteq marking[w] \cup ref'[t]
        /\ \A v \in Workers : v # w => marking'[v] = marking[v]
    BY <1>6 DEF MarkActive, IInv, TypeOK
  <2>2. Trace \subseteq Trace'
    BY <1>3, <1>4, <1>6, <2>1, TraceGrows DEF Visited
  <2>3. Visited(t)' /\ t \in Trace'
    BY <1>4, <2>1, <2>2 DEF Visited
  <2>4. \A u \in Terms : u \in ref'[t] => u \in Trace'
    <3>1. Trace' = {x \in Terms : \A C \in SUBSET Terms :
             InUse' \subseteq C /\ (\A u \in C : Visited(u)' => ref'[u] \subseteq C) => x \in C}
      BY DEF Trace, Closure
    <3> QED BY <2>3, <3>1
  <2> QED BY <1>3, <1>4, <2>1, <2>2, <2>3, <2>4 DEF Tracing, Reached
<1> QED BY <1>5, <1>6

LEMMA SweepLocalTraces ==
  ASSUME IInv, IInv', Tracing, NEW w \in Workers, SweepLocal(w) PROVE Tracing'
<1>1. /\ InUse' = InUse
      /\ Marking' => /\ Marking
                     /\ \A t \in Terms : Visited(t) => Visited(t)' /\ ref'[t] = ref[t]
                     /\ \A t \in Terms : Reached(t)' => Reached(t)
  BY SweepLocalKeeps DEF InUse
<1>2. Marking' => \A t \in Terms : Reached(t)' => t \in Trace'
  BY <1>1, TraceGrows DEF Tracing
<1>3. ASSUME Sweeping', NEW t \in Kept', Born(t)' PROVE t \in Reachable(InUse)'
  <2>1. phase'[w] \in {"run", "gc3"}
    BY DEF SweepLocal, Goto, IInv, TypeOK
  <2>2. phase'[w] = "gc3"
    BY <1>3, <2>1 DEF Sweeping
  <2>3. Marking' /\ \A v \in Workers : phase'[v] = "gc3"
    <3>1. \A v \in Workers : v # w => phase'[v] = phase[v]
      BY DEF SweepLocal, Goto, IInv, TypeOK
    <3>2. phase[w] = "mark"
      BY <2>2 DEF SweepLocal, Goto, IInv, TypeOK
    <3>3. Marking
      BY <3>2 DEF IInv, Phases, Unmarking, Marking, Sweeping
    <3> QED BY <1>3, <2>2, <3>1, <3>3 DEF Marking, Sweeping
  <2>4. t \in Terms /\ phase'[Home[t]] = "gc3" /\ t \in Live'
    BY <1>3, <2>3, HeapAssumption DEF Kept, Live
  <2>5. Reached(t)'
    BY <1>3, <2>4 DEF Reached, Kept, Swept, IInv, Lists, TypeOK
  <2>6. t \in Trace'
    BY <1>2, <2>3, <2>4, <2>5
  <2>7. Trace' \subseteq Reachable(InUse)'
    BY DEF Trace, Reachable, Closure
  <2> QED BY <2>6, <2>7
<1> QED BY <1>2, <1>3 DEF Tracing

LEMMA SweepGlobalTraces ==
  ASSUME IInv, Tracing, NEW w \in Workers, SweepGlobal(w) PROVE Tracing'
<1>1. /\ Sweeping /\ ~Marking' /\ Kept' = Kept /\ UNCHANGED InUse
      /\ \A t \in Kept : ref'[t] = ref[t] /\ (Born(t)' => Born(t))
  BY SweepGlobalKeeps DEF InUse
<1>2. Reachable(InUse) \subseteq Reachable(InUse)'
  <2>1. Reachable(InUse)' = {t \in Terms : \A C \in SUBSET Terms :
             InUse' \subseteq C /\ (\A u \in C : ref'[u] \subseteq C) => t \in C}
    BY DEF Reachable, Closure
  <2> SUFFICES ASSUME NEW t \in Reachable(InUse), NEW C \in SUBSET Terms, InUse \subseteq C,
                      \A u \in C : ref'[u] \subseteq C
               PROVE  t \in C
    BY <1>1, <2>1, ReachableIs
  <2>2. InUse \subseteq C \cap Kept
    <3>1. Kept \in SUBSET Terms /\ InUse \subseteq Reachable(InUse)
      <4>1. InUse \subseteq Terms
        BY DEF InUse, IInv, TypeOK
      <4> QED BY <4>1, ReachableIs DEF Kept
    <3> QED BY <3>1, ReachableIsKept
  <2>3. \A u \in C \cap Kept : ref[u] \subseteq C \cap Kept
    BY <1>1 DEF IInv, Closed
  <2> QED BY <2>2, <2>3, ReachableIs
<1> QED BY <1>1, <1>2 DEF Tracing

LEMMA NextTracing == IInv /\ IInv' /\ Tracing /\ [Next]_vars => Tracing'
<1> SUFFICES ASSUME IInv, IInv', Tracing, [Next]_vars PROVE Tracing'
  OBVIOUS
<1>1. ASSUME NEW w \in Workers, Evaluate(w) PROVE Tracing'
  <2>1. Evaluating(w) /\ phase' = phase
    BY <1>1 DEF Evaluate, New, Construct, MarkBirth, SetIndirection, Load, Drop, Push, Pop, gc
  <2> QED BY <2>1, IdleTraces DEF Evaluating
<1>2. ASSUME NEW w \in Workers, StartLocal(w) \/ StartGlobal(w) \/ Resume(w) PROVE Tracing'
  BY <1>2, IdleTraces DEF StartLocal, StartGlobal, Resume, Goto, IInv, TypeOK
<1>3. ASSUME NEW w \in Workers, DoGC(w) PROVE Tracing'
  BY <1>2, <1>3, UnmarkTraces, MarkRootsTraces, MarkActiveTraces, SweepLocalTraces,
     SweepGlobalTraces DEF DoGC
<1>4. CASE UNCHANGED vars
  <2>1. UNCHANGED <<list, global, m_marked, ref, ind, roots, queue, marking, phase, serial>>
    BY <1>4 DEF vars, heap, gc
  <2>2. /\ UNCHANGED <<Kept, Live, InUse, Marking, Sweeping>>
        /\ \A t \in Terms : (Swept(t)' <=> Swept(t)) /\ (Born(t)' <=> Born(t))
    BY <2>1 DEF Kept, Live, InUse, Marking, Sweeping, Swept, Born
  <2>3. Trace \subseteq Trace'
    BY <2>1, <2>2, TraceGrows DEF Visited
  <2>4. Reachable(InUse)' = Reachable(InUse)
    BY <2>1, <2>2 DEF Reachable, Closure
  <2>5. \A t \in Terms : Reached(t)' => Reached(t)
    BY <2>1, <2>2 DEF Reached
  <2> QED BY <2>2, <2>3, <2>4, <2>5 DEF Tracing, Kept
<1> QED BY <1>1, <1>3, <1>4 DEF Next

(* After a global collection nothing is left that the program cannot reach, *)
(* circles over several heaps included (gc_marksweep.h:420-475).            *)
THEOREM GarbageIsCollected == Spec => []Collected
<1>1. Init => IInv /\ Tracing
  BY InitIInv, InitTracing
<1>2. IInv /\ Tracing /\ [Next]_vars => (IInv /\ Tracing)'
  BY NextIInv, NextTracing
<1>3. IInv /\ Tracing => Collected
  <2> SUFFICES ASSUME IInv, Tracing, Arrived({"gc4"}),
                      NEW t \in Terms, list[t] # "free", Born(t)
               PROVE  t \in Reachable(InUse)
    BY DEF Collected
  <2>1. Sweeping /\ phase[Home[t]] = "gc4"
    BY HeapAssumption DEF Arrived, Sweeping
  <2>2. t \in Kept
    BY <2>1 DEF Kept
  <2> QED BY <2>1, <2>2 DEF Tracing
<1> QED BY <1>1, <1>2, <1>3, PTL DEF Spec

-----------------------------------------------------------------------------
(* What a worker can reach lives in its own heap or is global, and what the *)
(* queue leads to is global (term.h:836-850): no way leads out of either.   *)
THEOREM ReachesOwnOrGlobal == Spec => []OwnOrGlobal
<1>1. IInv => OwnOrGlobal
  <2> SUFFICES ASSUME IInv PROVE OwnOrGlobal
    OBVIOUS
  <2> DEFINE Global == {t \in Kept : global[t]}
  <2>1. ASSUME NEW w \in Workers
        PROVE  Reachable(roots[w]) \subseteq Kept \cap Sees(w)
    <3>1. Kept \cap Sees(w) \in SUBSET Terms /\ roots[w] \subseteq Kept \cap Sees(w)
      BY DEF Kept, IInv, Held
    <3>2. \A u \in Kept \cap Sees(w) : ref[u] \subseteq Kept \cap Sees(w)
      BY DEF IInv, Closed, SeenFrom, Sees
    <3> QED BY <3>1, <3>2, ReachableIn
  <2>2. Reachable(queue) \subseteq Global
    <3>1. Global \in SUBSET Terms /\ queue \subseteq Global
      BY DEF Kept, IInv, Held
    <3>2. \A u \in Global : ref[u] \subseteq Global
      BY DEF IInv, Closed, SeenFrom
    <3> QED BY <3>1, <3>2, ReachableIn
  <2> QED BY <2>1, <2>2 DEF OwnOrGlobal, Sees
<1> QED BY <1>1, AlwaysIInv, PTL

-----------------------------------------------------------------------------
(* Garbage of one worker.  What is marked of its local terms, or to be      *)
(* marked, has been reached from its own pointers, over its own local terms *)
(* that are marked already.                                                 *)
LocalVisited(w, t) == Home[t] = w /\ ~global[t] /\ m_marked[t] = "active"
LocalReached(w, t) ==
  Home[t] = w /\ ~global[t] /\ (m_marked[t] = "active" \/ t \in marking[w])
LocalTrace(w) ==
  {t \in Terms : \A D \in SUBSET Terms :
     roots[w] \subseteq D /\ (\A u \in D : LocalVisited(w, u) => ref[u] \subseteq D) => t \in D}
LocalTracing ==
  \A w \in Workers :
    phase[w] \in {"lmark", "mark"} =>
      \A t \in Terms : LocalReached(w, t) => t \in LocalTrace(w)

LEMMA LocalTraceGrows ==
  ASSUME NEW w \in Workers, roots'[w] = roots[w],
         \A u \in Terms : LocalVisited(w, u) => LocalVisited(w, u)' /\ ref'[u] = ref[u]
  PROVE  LocalTrace(w) \subseteq LocalTrace(w)'
<1> SUFFICES ASSUME NEW t \in LocalTrace(w), NEW D \in SUBSET Terms, roots[w] \subseteq D,
                    \A u \in D : LocalVisited(w, u)' => ref'[u] \subseteq D
             PROVE  t \in D
  BY DEF LocalTrace
<1>1. \A u \in D : LocalVisited(w, u) => ref[u] \subseteq D
  OBVIOUS
<1> QED BY <1>1 DEF LocalTrace

(* A worker that is marking, and of which another one changes nothing.      *)
LEMMA OthersTrace ==
  ASSUME LocalTracing, NEW w \in Workers, phase[w] \in {"lmark", "mark"},
         roots'[w] = roots[w], marking'[w] = marking[w],
         \A u \in Terms : Home[u] = w /\ (~global[u] \/ ~global'[u]) =>
           global'[u] = global[u] /\ m_marked'[u] = m_marked[u] /\ ref'[u] = ref[u]
  PROVE  \A t \in Terms : LocalReached(w, t)' => t \in LocalTrace(w)'
<1>1. \A u \in Terms : LocalVisited(w, u) => LocalVisited(w, u)' /\ ref'[u] = ref[u]
  BY DEF LocalVisited
<1>2. \A t \in Terms : LocalReached(w, t)' => LocalReached(w, t)
  BY DEF LocalReached
<1> QED BY <1>1, <1>2, LocalTraceGrows DEF LocalTracing

(* A worker changes terms of its own heap and global ones; local terms of   *)
(* others are out of its sight.                                             *)
LEMMA EvaluateTracesLocal ==
  ASSUME IInv, LocalTracing, NEW v \in Workers, Evaluate(v) PROVE LocalTracing'
<1> SUFFICES ASSUME NEW w \in Workers, phase'[w] \in {"lmark", "mark"}
             PROVE  \A t \in Terms : LocalReached(w, t)' => t \in LocalTrace(w)'
  BY DEF LocalTracing
<1>1. phase[v] = "run" /\ phase' = phase /\ marking' = marking
  BY DEF Evaluate, New, Construct, MarkBirth, SetIndirection, Load, Drop, Push, Pop, gc, heap,
         Evaluating
<1>2. w # v /\ phase[w] \in {"lmark", "mark"}
  BY <1>1
<1>3. PICK t \in Terms :
        \/ New(v, t) \/ Construct(v, t) \/ MarkBirth(v, t)
        \/ \E u \in Terms : SetIndirection(v, t, u) \/ Load(v, t, u)
        \/ Drop(v, t) \/ Push(v, t) \/ Pop(v, t)
  BY DEF Evaluate
<1>4. roots'[w] = roots[w]
  BY <1>2, <1>3 DEF New, Construct, MarkBirth, SetIndirection, Load, Drop, Push, Pop, IInv, TypeOK
<1> DEFINE Rests == \A u \in Terms : Home[u] = w /\ (~global[u] \/ ~global'[u]) =>
              global'[u] = global[u] /\ m_marked'[u] = m_marked[u] /\ ref'[u] = ref[u]
<1>5. CASE New(v, t) \/ Construct(v, t) \/ MarkBirth(v, t)
  <2>1. Home[t] # w
    BY <1>2, <1>5 DEF New, Construct, MarkBirth, Own
  <2>2. \A u \in Terms : u # t =>
          global'[u] = global[u] /\ m_marked'[u] = m_marked[u] /\ ref'[u] = ref[u]
    BY <1>5 DEF New, Construct, MarkBirth, IInv, TypeOK
  <2>3. Rests
    BY <2>1, <2>2
  <2> QED BY <1>1, <1>2, <1>4, <2>3, OthersTrace
<1>6. ASSUME NEW u \in Terms, SetIndirection(v, t, u) PROVE Rests
  <2>1. t \in Sees(v) /\ global' = global /\ m_marked' = m_marked
    BY <1>6 DEF SetIndirection, Usable, IInv, Held
  <2>2. \A x \in Terms : x # t => ref'[x] = ref[x]
    BY <1>6 DEF SetIndirection, IInv, TypeOK
  <2> QED BY <1>2, <2>1, <2>2 DEF Sees
<1>7. UNCHANGED heap => Rests
  BY DEF heap
<1>8. CASE ~(New(v, t) \/ Construct(v, t) \/ MarkBirth(v, t))
  <2> HIDE DEF Rests
  <2>1. Rests
    <3>1. ASSUME NEW u \in Terms, Load(v, t, u) PROVE Rests
      BY <1>7, <3>1 DEF Load
    <3> QED BY <1>3, <1>6, <1>7, <1>8, <3>1 DEF Drop, Push, Pop
  <2> QED BY <1>1, <1>2, <1>4, <2>1, OthersTrace DEF Rests
<1> QED BY <1>5, <1>8

(* Marking begins with what is pointed to, and no local mark is left then.  *)
LEMMA StartTracesLocal ==
  ASSUME IInv, LocalTracing, NEW v \in Workers, StartLocal(v) \/ MarkRoots(v)
  PROVE  LocalTracing'
<1> SUFFICES ASSUME NEW w \in Workers, phase'[w] \in {"lmark", "mark"}
             PROVE  \A t \in Terms : LocalReached(w, t)' => t \in LocalTrace(w)'
  BY DEF LocalTracing
<1>1. /\ phase[v] \in {"run", "gc2"} /\ \A x \in Workers : x # v => phase'[x] = phase[x]
      /\ UNCHANGED <<list, global, m_marked, ref, ind, roots, queue>>
  BY DEF StartLocal, MarkRoots, Evaluating, Goto, heap, IInv, TypeOK
<1>2. /\ marking'[v] \subseteq roots[v] \cup queue
      /\ \A x \in Workers : x # v => marking'[x] = marking[x]
  BY DEF StartLocal, MarkRoots, IInv, TypeOK
<1>3. CASE w = v
  <2>1. \A t \in Terms : LocalReached(w, t)' => t \in roots'[w]
    BY <1>1, <1>2, <1>3 DEF LocalReached, IInv, Marks, Held
  <2> QED BY <2>1 DEF LocalTrace
<1>4. CASE w # v
  BY <1>1, <1>2, <1>4, OthersTrace
<1> QED BY <1>3, <1>4

LEMMA MarkActiveTracesLocal ==
  ASSUME IInv, LocalTracing, NEW v \in Workers, NEW t \in Terms, MarkActive(v, t)
  PROVE  LocalTracing'
<1> SUFFICES ASSUME NEW w \in Workers, phase'[w] \in {"lmark", "mark"}
             PROVE  \A u \in Terms : LocalReached(w, u)' => u \in LocalTrace(w)'
  BY DEF LocalTracing
<1>1. /\ t \in marking[v] /\ UNCHANGED <<list, global, ind, roots, queue, phase, serial>>
      /\ t \in Kept \cap Sees(v) /\ phase[w] \in {"lmark", "mark"}
  BY DEF MarkActive, IInv, Held
<1> DEFINE next == IF ind[t] THEN {FollowFullIndirection(t)} ELSE ref[t]
<1>2. next \subseteq SeenFrom(t)
  BY <1>1, NextKept DEF IInv
<1> HIDE DEF next
<1>3. /\ \A x \in Workers : x # v => marking'[x] = marking[x]
      /\ \A u \in Terms : u # t => m_marked'[u] = m_marked[u] /\ ref'[u] = ref[u]
  BY DEF MarkActive, IInv, TypeOK
<1>4. CASE w # v
  <2>1. \A u \in Terms : Home[u] = w /\ (~global[u] \/ ~global'[u]) => u # t
    BY <1>1, <1>4 DEF Sees
  <2> QED BY <1>1, <1>3, <1>4, <2>1, OthersTrace
<1>5. CASE w = v /\ m_marked[t] # "old"
  <2>1. UNCHANGED <<m_marked, ref>> /\ marking'[v] \subseteq marking[v]
    BY <1>5 DEF MarkActive, IInv, TypeOK
  <2>2. LocalTrace(w) \subseteq LocalTrace(w)'
    BY <1>1, <2>1, LocalTraceGrows DEF LocalVisited
  <2> QED BY <1>1, <1>5, <2>1, <2>2 DEF LocalTracing, LocalReached
<1>6. CASE w = v /\ m_marked[t] = "old"
  <2>1. /\ m_marked'[t] = "active" /\ ref'[t] = next
        /\ marking'[v] \subseteq marking[v] \cup next
    BY <1>6 DEF MarkActive, IInv, TypeOK, next
  <2>2. LocalTrace(w) \subseteq LocalTrace(w)'
    <3>1. \A u \in Terms : LocalVisited(w, u) => LocalVisited(w, u)' /\ ref'[u] = ref[u]
      BY <1>1, <1>3, <1>6 DEF LocalVisited
    <3> QED BY <1>1, <3>1, LocalTraceGrows
  <2>3. CASE global[t]
    <3>1. \A u \in next : global[u]
      BY <1>2, <2>3 DEF SeenFrom
    <3>2. \A u \in Terms : LocalReached(w, u)' => LocalReached(w, u)
      BY <1>1, <1>3, <1>6, <2>1, <2>3, <3>1 DEF LocalReached
    <3> QED BY <1>1, <2>2, <3>2 DEF LocalTracing
  <2>4. CASE ~global[t]
    <3>1. LocalReached(w, t)
      BY <1>1, <1>6, <2>4 DEF LocalReached, Sees
    <3>2. t \in LocalTrace(w)' /\ LocalVisited(w, t)'
      BY <1>1, <2>1, <2>2, <2>4, <3>1 DEF LocalTracing, LocalVisited, LocalReached
    <3>3. \A u \in Terms : u \in next => u \in LocalTrace(w)'
      BY <2>1, <3>2 DEF LocalTrace
    <3>4. \A u \in Terms : LocalReached(w, u)' => LocalReached(w, u) \/ u = t \/ u \in next
      BY <1>1, <1>3, <1>6, <2>1 DEF LocalReached
    <3> QED BY <1>1, <2>2, <3>2, <3>3, <3>4 DEF LocalTracing
  <2> QED BY <2>3, <2>4
<1> QED BY <1>4, <1>5, <1>6

(* A worker sweeps its own local terms.                                     *)
LEMMA SweepLocalTracesLocal ==
  ASSUME IInv, LocalTracing, NEW v \in Workers, SweepLocal(v) PROVE LocalTracing'
<1> SUFFICES ASSUME NEW w \in Workers, phase'[w] \in {"lmark", "mark"}
             PROVE  \A t \in Terms : LocalReached(w, t)' => t \in LocalTrace(w)'
  BY DEF LocalTracing
<1>1. /\ phase'[v] \in {"run", "gc3"} /\ \A x \in Workers : x # v => phase'[x] = phase[x]
      /\ UNCHANGED <<roots, queue, marking>>
  BY DEF SweepLocal, Sweep, Goto, IInv, TypeOK
<1>2. \A u \in Terms : Home[u] # v =>
        global'[u] = global[u] /\ m_marked'[u] = m_marked[u] /\ ref'[u] = ref[u]
  BY DEF SweepLocal, Sweep, Own, IInv, TypeOK
<1> QED BY <1>1, <1>2, OthersTrace

LEMMA NextLocalTracing == IInv /\ LocalTracing /\ [Next]_vars => LocalTracing'
<1> SUFFICES ASSUME IInv, LocalTracing, [Next]_vars PROVE LocalTracing'
  OBVIOUS
<1>1. ASSUME NEW v \in Workers, StartGlobal(v) \/ Resume(v) PROVE LocalTracing'
  <2>1. /\ phase'[v] \in {"gc1", "run"} /\ \A x \in Workers : x # v => phase'[x] = phase[x]
        /\ UNCHANGED <<list, global, m_marked, ref, ind, roots, queue, marking>>
    BY <1>1 DEF StartGlobal, Resume, Goto, heap, IInv, TypeOK
  <2> SUFFICES ASSUME NEW w \in Workers, phase'[w] \in {"lmark", "mark"}
               PROVE  \A t \in Terms : LocalReached(w, t)' => t \in LocalTrace(w)'
    BY DEF LocalTracing
  <2> QED BY <2>1, OthersTrace
<1>2. ASSUME NEW v \in Workers, Unmark(v) \/ SweepGlobal(v) PROVE LocalTracing'
  <2>1. \A x \in Workers : phase'[x] \in {"gc1", "gc2", "gc3", "gc4"}
    BY <1>2 DEF Unmark, SweepGlobal, Arrived, Goto, IInv, TypeOK
  <2> QED BY <2>1 DEF LocalTracing
<1>3. ASSUME NEW v \in Workers, DoGC(v) PROVE LocalTracing'
  BY <1>1, <1>2, <1>3, StartTracesLocal, MarkActiveTracesLocal, SweepLocalTracesLocal DEF DoGC
<1>4. CASE UNCHANGED vars
  <2>1. UNCHANGED <<list, global, m_marked, ref, ind, roots, queue, marking, phase, serial>>
    BY <1>4 DEF vars, heap, gc
  <2> SUFFICES ASSUME NEW w \in Workers, phase'[w] \in {"lmark", "mark"}
               PROVE  \A t \in Terms : LocalReached(w, t)' => t \in LocalTrace(w)'
    BY DEF LocalTracing
  <2> QED BY <2>1, OthersTrace
<1> QED BY <1>3, <1>4, EvaluateTracesLocal DEF Next

LEMMA AlwaysLocalTracing == Spec => []LocalTracing
<1>1. Init => LocalTracing
  BY DEF Init, LocalTracing
<1> QED BY <1>1, AlwaysIInv, NextLocalTracing, PTL DEF Spec

(* What the sweep leaves of the local terms of its worker is marked.        *)
LEMMA LeftIsMarked ==
  ASSUME IInv, NEW w \in Workers, SweepLocal(w), NEW t \in Terms,
         Home[t] = w, list'[t] # "free", ~global'[t]
  PROVE  LocalVisited(w, t)
<1> DEFINE new == {x \in Own(w, "new") : Born(x)}
           swept == Own(w, "local") \cup {x \in new : ~global[x]}
           kept == {x \in new : global[x]}
<1>1. Sweep(swept, kept)
  BY DEF SweepLocal
<1>2. /\ list'[t] = IF t \in swept /\ m_marked[t] = "old" THEN "free"
                    ELSE IF t \in swept \cup kept
                    THEN IF global[t] THEN "global" ELSE "local" ELSE list[t]
      /\ global'[t] = (global[t] /\ ~(t \in swept /\ m_marked[t] = "old"))
  BY <1>1 DEF Sweep
<1>3. ~(t \in swept /\ m_marked[t] = "old")
  BY <1>2
<1>4. ~global[t] /\ list[t] # "free"
  BY <1>2, <1>3 DEF Own
<1>5. Born(t) /\ list[t] \in {"new", "local"}
  BY <1>4 DEF IInv, Lists, TypeOK
<1>6. t \in swept
  BY <1>4, <1>5 DEF Own
<1> QED BY <1>3, <1>4, <1>5, <1>6 DEF LocalVisited, Born, IInv, TypeOK

(* For any heaps and any graph of terms: a collection by one worker, while  *)
(* the others go on, leaves none of its local terms that it cannot reach    *)
(* (gc_marksweep.h:404-443).                                                *)
THEOREM LocalGarbageIsCollected == Spec => LocalCollected
<1> DEFINE Left == \A w \in Workers :
             phase[w] \in {"lmark", "mark"} /\ phase'[w] # phase[w] =>
               \A t \in Terms :
                 Home[t] = w /\ list'[t] # "free" /\ ~global'[t] => t \in Reachable(roots[w])'
<1>1. ASSUME IInv, LocalTracing, [Next]_vars PROVE Left
  <2> SUFFICES ASSUME NEW w \in Workers,
                      phase[w] \in {"lmark", "mark"}, phase'[w] # phase[w],
                      NEW t \in Terms, Home[t] = w, list'[t] # "free", ~global'[t]
               PROVE  t \in Reachable(roots[w])'
    OBVIOUS
  <2>1. SweepLocal(w)
    <3>1. phase' # phase
      OBVIOUS
    <3>2. ASSUME NEW v \in Workers, Evaluate(v) PROVE FALSE
      BY <3>1, <3>2 DEF Evaluate, New, Construct, MarkBirth, SetIndirection, Load, Drop, Push,
                        Pop, gc
    <3>3. ASSUME NEW v \in Workers, DoGC(v) PROVE v = w
      <4>1. UNCHANGED phase \/ \E p : Goto(v, p)
        BY <3>3 DEF DoGC, StartLocal, StartGlobal, Unmark, MarkRoots, MarkActive, SweepLocal,
                    SweepGlobal, Resume
      <4>2. phase \in [Workers -> {"run", "lmark", "mark"} \cup Waiting]
        BY <1>1 DEF IInv, TypeOK
      <4> QED BY <4>1, <4>2 DEF Goto
    <3>4. DoGC(w)
      BY <1>1, <3>1, <3>2, <3>3 DEF Next, vars, gc
    <3> QED BY <3>4 DEF DoGC, StartLocal, StartGlobal, Unmark, MarkRoots, MarkActive,
                        SweepGlobal, Resume, Evaluating
  <2>2. LocalVisited(w, t) /\ t \in LocalTrace(w)
    BY <1>1, <2>1, LeftIsMarked DEF LocalTracing, LocalReached, LocalVisited
  <2>3. roots' = roots /\ \A u \in Terms : LocalVisited(w, u) => ref'[u] = ref[u]
    BY <2>1, <1>1 DEF SweepLocal, Sweep, LocalVisited, IInv, TypeOK
  <2>4. Reachable(roots[w])' =
          {x \in Terms : \A D \in SUBSET Terms :
             roots'[w] \subseteq D /\ (\A u \in D : ref'[u] \subseteq D) => x \in D}
    BY DEF Reachable, Closure
  <2> SUFFICES ASSUME NEW D \in SUBSET Terms, roots[w] \subseteq D,
                      \A u \in D : ref'[u] \subseteq D
               PROVE  t \in D
    BY <2>3, <2>4
  <2>5. \A u \in D : LocalVisited(w, u) => ref[u] \subseteq D
    BY <2>3
  <2> QED BY <2>2, <2>5 DEF LocalTrace
<1> QED BY <1>1, AlwaysIInv, AlwaysLocalTracing, PTL DEF Spec, LocalCollected

-----------------------------------------------------------------------------
(* The collector goes through the phases in the order that Worker is shown  *)
(* to keep (WorkerProofs, ImplementsCollection): with the barriers by their *)
(* contract nothing else is assumed of the other workers.                   *)
THEOREM ImplementsCollection == Spec => IsCollection
<1> DEFINE part == [w \in Workers |-> IF phase[w] = "lmark" THEN "run" ELSE phase[w]]
<1>1. Init => Order!Init
  BY DEF Init, Order!Init
<1>2. ASSUME TypeOK, [Next]_vars PROVE [Order!Next]_part
  <2>1. ASSUME NEW w \in Workers, NEW from, NEW to, phase[w] = from,
               phase' = [phase EXCEPT ![w] = to]
        PROVE  /\ part[w] = IF from = "lmark" THEN "run" ELSE from
               /\ part' = [part EXCEPT ![w] = IF to = "lmark" THEN "run" ELSE to]
    BY <1>2, <2>1 DEF TypeOK
  <2>2. ASSUME NEW w \in Workers, SweepLocal(w) \/ StartLocal(w) PROVE [Order!Next]_part
    <3>1. CASE phase[w] = "mark"
      BY <2>1, <2>2, <3>1 DEF SweepLocal, StartLocal, Evaluating, Goto, Order!Next,
                              Order!SweepLocal, Order!Go
    <3>2. CASE phase[w] # "mark"
      <4>1. part' = part
        BY <1>2, <2>2, <3>2 DEF SweepLocal, StartLocal, Evaluating, Goto, TypeOK
      <4> QED BY <4>1
    <3> QED BY <3>1, <3>2
  <2>3. ASSUME NEW w \in Workers, StartGlobal(w) PROVE Order!Enter(w)
    BY <2>1, <2>3 DEF StartGlobal, Evaluating, Goto, Order!Enter, Order!Go
  <2>4. ASSUME NEW w \in Workers, Unmark(w) PROVE Order!Unmark(w)
    BY <2>1, <2>4 DEF Unmark, Goto, Arrived, Order!Unmark, Order!Go, Order!Arrived
  <2>5. ASSUME NEW w \in Workers, MarkRoots(w) PROVE Order!Mark(w)
    BY <2>1, <2>5 DEF MarkRoots, Goto, Arrived, Order!Mark, Order!Go, Order!Arrived
  <2>6. ASSUME NEW w \in Workers, SweepGlobal(w) PROVE Order!SweepGlobal(w)
    BY <2>1, <2>6 DEF SweepGlobal, Goto, Arrived, Order!SweepGlobal, Order!Go, Order!Arrived
  <2>7. ASSUME NEW w \in Workers, Resume(w) PROVE Order!Resume(w)
    BY <2>1, <2>7 DEF Resume, Goto, Arrived, Order!Resume, Order!Go, Order!Arrived
  <2>8. CASE phase' = phase
    BY <2>8
  <2> QED BY <1>2, <2>2, <2>3, <2>4, <2>5, <2>6, <2>7, <2>8
          DEF Next, DoGC, Evaluate, New, Construct, MarkBirth, SetIndirection, Load, Drop, Push,
              Pop, MarkActive, Order!Next, vars, gc
<1> QED BY <1>1, <1>2, TypeCorrect, PTL DEF Spec, IsCollection, Order!Spec
=============================================================================
