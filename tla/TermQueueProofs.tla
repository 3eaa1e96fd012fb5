--------------------------- MODULE TermQueueProofs ---------------------------
(***************************************************************************)
(* Proofs about TermQueue, for every number of workers, terms, slots and   *)
(* priorities.  The inductive invariant adds to the properties of the runs *)
(* what the locals of a worker in Push or Pop mean.                        *)
(***************************************************************************)
EXTENDS TermQueue, SequenceTheorems, TLAPS

(* What a worker in the middle of Push or Pop remembers.                   *)
Locals ==
  \A w \in Workers :
    /\ pc[w] \in PushPC => t[w] \in roots /\ top[w] < N
    /\ pc[w] \in {"pop_slot", "pop_top"} => top[w] > 0

IInv == TypeOK /\ Locals /\ QueueAlive /\ InFlightAlive /\ PopAlive

(* What the assumptions say of the constants.                              *)
LEMMA Facts == N \in Nat /\ N > 0 /\ P \in Nat /\ P > 0 /\ NULL \notin Terms
  BY NAssumption, PAssumption, NullAssumption

(* The initial state: nothing is queued and nobody is in Push or Pop.      *)
LEMMA InitIInv == Init => IInv
  BY Facts DEF Init, IInv, TypeOK, Locals, QueueAlive, InFlightAlive, PopAlive,
     Queued, Prios, Slots, PushPC, PopPC, InFlight

(* Types are preserved; the bound of m_top rests on what Push remembers.   *)
LEMMA NextTypeOK == IInv /\ [Next]_vars => TypeOK'
<1> SUFFICES ASSUME IInv, [Next]_vars PROVE TypeOK'
  OBVIOUS
<1> USE Facts DEF IInv, TypeOK, Locals, Prios, Slots, PushPC, PopPC,
        queueVars, localVars, heapVars
<1>1. ASSUME NEW w \in Workers, NEW p \in Prios, NEW x \in Terms, PushRead(w, p, x)
      PROVE TypeOK'
  BY <1>1 DEF PushRead, Lock, Goto, Room
<1>2. ASSUME NEW w \in Workers, NEW p \in Prios, NEW x \in Terms, PushOverflow(w, p, x)
      PROVE TypeOK'
  BY <1>2 DEF PushOverflow, vars
<1>3. ASSUME NEW w \in Workers, PushSlot(w) PROVE TypeOK'
  BY <1>3 DEF PushSlot, Goto
<1>4. ASSUME NEW w \in Workers, PushTop(w) PROVE TypeOK'
  BY <1>4 DEF PushTop, Unlock, Return, Goto
<1>5. ASSUME NEW w \in Poppers, Pop(w) PROVE TypeOK'
  <2> w \in Workers
    BY PoppersAssumption
  <2>1. CASE PopStart(w)
    BY <2>1 DEF PopStart, Goto
  <2>2. CASE PopNext(w)
    <3> prio[w] + 1 \in 0 .. P-1
      BY <2>2 DEF PopNext
    <3> QED
      BY <2>2 DEF PopNext
  <2>3. CASE PopNull(w)
    BY <2>3 DEF PopNull, Return, Goto
  <2>4. CASE PopRead(w)
    BY <2>4 DEF PopRead, Lock, Goto
  <2>5. CASE PopSlot(w)
    BY <2>5 DEF PopSlot, Goto
  <2>6. CASE PopTop(w)
    BY <2>6 DEF PopTop, Unlock, Return, Goto, PopAlive
  <2> QED
    BY <1>5, <2>1, <2>2, <2>3, <2>4, <2>5, <2>6 DEF Pop
<1>6. ASSUME NEW x \in Terms, NewTerm(x) \/ Drop(x) PROVE TypeOK'
  BY <1>6 DEF NewTerm, Drop
<1>7. CASE GlobalGC
  BY <1>7 DEF GlobalGC
<1>8. CASE UNCHANGED vars
  BY <1>8 DEF vars
<1> QED
  BY <1>1, <1>2, <1>3, <1>4, <1>5, <1>6, <1>7, <1>8 DEF Next, Push

(* What the locals mean, what is queued and what is in flight.  A slot is  *)
(* written only with a term the pusher holds, and terms are freed only     *)
(* when nothing is in flight.                                              *)
LEMMA NextIInv == IInv /\ [Next]_vars => IInv'
<1> SUFFICES ASSUME IInv, [Next]_vars PROVE IInv'
  OBVIOUS
<1> USE Facts DEF TypeOK, Prios, Slots, PushPC, PopPC, InFlight
<1>a. TypeOK /\ TypeOK'
  BY NextTypeOK DEF IInv
<1>b. Locals /\ QueueAlive /\ InFlightAlive /\ PopAlive
  BY DEF IInv
<1> DEFINE Rest == Locals /\ QueueAlive /\ InFlightAlive /\ PopAlive
<1>1. ASSUME NEW w \in Workers, NEW p \in Prios, NEW x \in Terms, PushRead(w, p, x)
      PROVE Rest'
  BY <1>1, <1>a, <1>b DEF PushRead, Lock, Goto, Room, heapVars, Locals, QueueAlive, Queued, InFlightAlive, PopAlive
<1>2. ASSUME NEW w \in Workers, NEW p \in Prios, NEW x \in Terms, PushOverflow(w, p, x)
      PROVE Rest'
  BY <1>2, <1>a, <1>b DEF PushOverflow, vars, Locals, QueueAlive, Queued, InFlightAlive, PopAlive
<1>3. ASSUME NEW w \in Workers, PushSlot(w) PROVE Rest'
  BY <1>3, <1>a, <1>b DEF PushSlot, Goto, heapVars, Locals, QueueAlive, Queued, InFlightAlive, PopAlive
<1>4. ASSUME NEW w \in Workers, PushTop(w) PROVE Rest'
  BY <1>4, <1>a, <1>b DEF PushTop, Unlock, Return, Goto, heapVars, Locals, QueueAlive, Queued, InFlightAlive, PopAlive
<1>5. ASSUME NEW w \in Poppers, Pop(w) PROVE Rest'
  <2> w \in Workers
    BY PoppersAssumption
  <2>1. CASE PopStart(w)
    BY <2>1, <1>a, <1>b DEF PopStart, Goto, queueVars, heapVars, Locals, QueueAlive, Queued, InFlightAlive, PopAlive
  <2>2. CASE PopNext(w)
    BY <2>2, <1>a, <1>b DEF PopNext, queueVars, heapVars, Locals, QueueAlive, Queued, InFlightAlive, PopAlive
  <2>3. CASE PopNull(w)
    BY <2>3, <1>a, <1>b DEF PopNull, Return, Goto, queueVars, heapVars, Locals, QueueAlive, Queued, InFlightAlive, PopAlive
  <2>4. CASE PopRead(w)
    BY <2>4, <1>a, <1>b DEF PopRead, Lock, Goto, heapVars, Locals, QueueAlive, Queued, InFlightAlive, PopAlive
  <2>5. CASE PopSlot(w)
    BY <2>5, <1>a, <1>b DEF PopSlot, Goto, queueVars, heapVars, Locals, QueueAlive, Queued, InFlightAlive, PopAlive
  <2>6. CASE PopTop(w)
    BY <2>6, <1>a, <1>b DEF PopTop, Unlock, Return, Goto, Locals, QueueAlive, Queued, InFlightAlive, PopAlive
  <2> QED
    BY <1>5, <2>1, <2>2, <2>3, <2>4, <2>5, <2>6 DEF Pop
<1>6. ASSUME NEW x \in Terms, NewTerm(x) \/ Drop(x) PROVE Rest'
  BY <1>6, <1>a, <1>b DEF NewTerm, Drop, queueVars, localVars, Locals, QueueAlive, Queued, InFlightAlive, PopAlive
<1>7. ASSUME GlobalGC PROVE Rest'
  BY <1>7, <1>a, <1>b DEF GlobalGC, Stopped, MarkActive, queueVars, localVars, Locals, QueueAlive, Queued, InFlightAlive, PopAlive
<1>8. ASSUME UNCHANGED vars PROVE Rest'
  BY <1>8, <1>a, <1>b DEF vars, Locals, QueueAlive, Queued, InFlightAlive, PopAlive
<1> QED
  BY <1>a, <1>1, <1>2, <1>3, <1>4, <1>5, <1>6, <1>7, <1>8 DEF Next, Push, IInv

(* The inductive invariant holds in every reachable state.                 *)
THEOREM Invariance == Spec => []IInv
  BY InitIInv, NextIInv, PTL DEF Spec

(* Push and Pop keep every variable of the queue in its type; in           *)
(* particular no race drives m_top outside the array (worker.h:96-99).     *)
THEOREM TypeCorrect == Spec => []TypeOK
<1> IInv => TypeOK
  BY DEF IInv
<1> QED
  BY Invariance, PTL

(* The lossy queue is memory safe: whatever races, every entry below m_top *)
(* is a live term, so that MarkActive never meets NULL (worker.h:130).     *)
THEOREM QueueSafe == Spec => []QueueAlive
<1> IInv => QueueAlive
  BY DEF IInv
<1> QED
  BY Invariance, PTL

(* ... and so is everything a Pop returns (worker.h:117-121), although the *)
(* collector may run while a Pop holds a top that others have passed.      *)
THEOREM PopsAlive == Spec => []PopAlive
<1> IInv => PopAlive
  BY DEF IInv
<1> QED
  BY Invariance, PTL

(* What a delayed write of m_top restores is still allocated.              *)
THEOREM InFlightSafe == Spec => []InFlightAlive
<1> IInv => InFlightAlive
  BY DEF IInv
<1> QED
  BY Invariance, PTL

-----------------------------------------------------------------------------
(* The atomic build.  A pusher that has written its slot finds its term    *)
(* there when it writes m_top.                                             *)
Written ==
  term_queue_atomic =>
    \A w \in Workers : pc[w] = "push_top" => m_queue[prio[w]][top[w]] = t[w]

AtomicIInv == IInv /\ Exclusive /\ Written

(* Initially nobody is in the critical section.                            *)
LEMMA InitAtomicIInv == Init => AtomicIInv
  BY InitIInv DEF AtomicIInv, Init, Exclusive, Written, InFlight, PushPC

(* Only the owner of a mutex touches its priority.                         *)
LEMMA NextAtomicIInv == AtomicIInv /\ [Next]_vars => AtomicIInv'
<1> SUFFICES ASSUME AtomicIInv, [Next]_vars PROVE Exclusive' /\ Written'
  BY NextIInv DEF AtomicIInv
<1> USE Facts, NobodyAssumption DEF TypeOK, Prios, Slots, PushPC, PopPC, InFlight, Locals
<1>a. TypeOK /\ TypeOK' /\ Locals /\ Locals'
  BY NextIInv DEF AtomicIInv, IInv
<1>b. Exclusive /\ Written
  BY DEF AtomicIInv
<1> DEFINE Rest == Exclusive /\ Written
<1>1. ASSUME NEW w \in Workers, NEW p \in Prios, NEW x \in Terms, PushRead(w, p, x)
      PROVE Rest'
  BY <1>1, <1>a, <1>b DEF PushRead, Free, Lock, Goto, heapVars, Exclusive, Written
<1>2. ASSUME NEW w \in Workers, NEW p \in Prios, NEW x \in Terms, PushOverflow(w, p, x)
      PROVE Rest'
  BY <1>2, <1>a, <1>b DEF PushOverflow, vars, Exclusive, Written
<1>3. ASSUME NEW w \in Workers, PushSlot(w) PROVE Rest'
  BY <1>3, <1>a, <1>b DEF PushSlot, Goto, heapVars, Exclusive, Written
<1>4. ASSUME NEW w \in Workers, PushTop(w) PROVE Rest'
  BY <1>4, <1>a, <1>b DEF PushTop, Unlock, Return, Goto, heapVars, Exclusive, Written
<1>5. ASSUME NEW w \in Poppers, Pop(w) PROVE Rest'
  <2> w \in Workers
    BY PoppersAssumption
  <2>1. CASE PopStart(w)
    BY <2>1, <1>a, <1>b DEF PopStart, Goto, queueVars, heapVars, Exclusive, Written
  <2>2. CASE PopNext(w)
    BY <2>2, <1>a, <1>b DEF PopNext, queueVars, heapVars, Exclusive, Written
  <2>3. CASE PopNull(w)
    BY <2>3, <1>a, <1>b DEF PopNull, Return, Goto, queueVars, heapVars, Exclusive, Written
  <2>4. CASE PopRead(w)
    BY <2>4, <1>a, <1>b DEF PopRead, Free, Lock, Goto, heapVars, Exclusive, Written
  <2>5. CASE PopSlot(w)
    BY <2>5, <1>a, <1>b DEF PopSlot, Goto, queueVars, heapVars, Exclusive, Written
  <2>6. CASE PopTop(w)
    BY <2>6, <1>a, <1>b DEF PopTop, Unlock, Return, Goto, Exclusive, Written
  <2> QED
    BY <1>5, <2>1, <2>2, <2>3, <2>4, <2>5, <2>6 DEF Pop
<1>6. ASSUME NEW x \in Terms, NewTerm(x) \/ Drop(x) PROVE Rest'
  BY <1>6, <1>a, <1>b DEF NewTerm, Drop, queueVars, localVars, Exclusive, Written
<1>7. ASSUME GlobalGC PROVE Rest'
  BY <1>7, <1>a, <1>b DEF GlobalGC, queueVars, localVars, Exclusive, Written
<1>8. ASSUME UNCHANGED vars PROVE Rest'
  BY <1>8, <1>a, <1>b DEF vars, Exclusive, Written
<1> QED
  BY <1>1, <1>2, <1>3, <1>4, <1>5, <1>6, <1>7, <1>8 DEF Next, Push

(* In atomic mode the interval between the read and the write of m_top is  *)
(* exclusive per priority.                                                 *)
THEOREM MutualExclusion == Spec => []Exclusive
<1>1. AtomicIInv => Exclusive
  BY DEF AtomicIInv
<1> QED
  BY InitAtomicIInv, NextAtomicIInv, <1>1, PTL DEF Spec

(* In atomic mode at most one worker is in flight at a priority, and a     *)
(* worker that has read a slot read it below m_top.                        *)
LEMMA OneAtATime ==
  ASSUME term_queue_atomic, TypeOK, Locals, Exclusive,
         NEW w \in Workers, pc[w] \in InFlight
  PROVE  /\ top[w] = m_top[prio[w]]
         /\ \A v \in Workers \ {w} : pc[v] \in InFlight => prio[v] # prio[w]
  BY NobodyAssumption DEF Exclusive

(* The height of a stack is between 0 and m_top.                           *)
LEMMA HeightIs ==
  ASSUME term_queue_atomic, TypeOK, Locals, Exclusive, NEW p \in Prios
  PROVE  /\ m_top[p] \in Nat /\ m_top[p] <= N
         /\ Height(p) \in Nat /\ Height(p) <= m_top[p]
<1>1. m_top[p] \in Nat /\ m_top[p] <= N
  BY Facts DEF TypeOK
<1>2. Taken(p) => m_top[p] > 0
  BY OneAtATime DEF Taken, Locals, InFlight
<1> QED
  BY <1>1, <1>2 DEF Height

(* A priority represents a sequence of that length.                        *)
EntriesOK(p) ==
  /\ entries[p] \in Seq(Terms \cup {NULL})
  /\ Len(entries[p]) = Height(p)
  /\ \A i \in 1 .. Height(p) : entries[p][i] = m_queue[p][i-1]

LEMMA EntriesAre ==
  ASSUME term_queue_atomic, TypeOK, Locals, Exclusive, NEW p \in Prios
  PROVE  EntriesOK(p)
<1>1. Height(p) \in Nat /\ \A i \in 1 .. Height(p) : m_queue[p][i-1] \in Terms \cup {NULL}
  BY Facts, HeightIs DEF TypeOK, Slots
<1>2. entries[p] = [i \in 1 .. Height(p) |-> m_queue[p][i-1]]
  BY DEF entries
<1>3. entries[p] \in [1 .. Height(p) -> Terms \cup {NULL}]
  BY <1>1, <1>2
<1> QED
  BY <1>1, <1>2, <1>3, SeqDef DEF EntriesOK

(* A stack whose height and slots stay is the same stack.                  *)
LEMMA SameEntries ==
  ASSUME NEW p \in Prios, Height(p)' = Height(p),
         \A i \in 1 .. Height(p) : m_queue'[p][i-1] = m_queue[p][i-1]
  PROVE  entries'[p] = entries[p]
  BY DEF entries

(* A worker that neither has nor gets a popped term leaves the height to   *)
(* the others.                                                             *)
LEMMA TakenStays ==
  ASSUME NEW w \in Workers, NEW p \in Prios,
         \A v \in Workers \ {w} : pc'[v] = pc[v] /\ prio'[v] = prio[v],
         pc[w] = "pop_top" => prio[w] # p,
         pc'[w] = "pop_top" => prio'[w] # p
  PROVE  Taken(p)' = Taken(p)
  BY DEF Taken

(* What a worker shows depends on its own locals only.                     *)
LEMMA HeldIs ==
  ASSUME NEW w \in Workers,
         \A v \in Workers \ {w} : pc'[v] = pc[v] /\ prio'[v] = prio[v] /\ t'[v] = t[v]
  PROVE  held' = [held EXCEPT ![w] = held'[w]]
<1>1. \A v \in Workers \ {w} : held'[v] = held[v]
  BY DEF held
<1>2. held = [v \in Workers |-> held[v]] /\ held' = [v \in Workers |-> held'[v]]
  BY DEF held
<1> QED
  BY <1>1, <1>2

(* A worker that shows nothing and changes no stack stutters.              *)
LEMMA Hidden ==
  ASSUME NEW w \in Workers, UNCHANGED <<m_top, m_queue>>,
         \A v \in Workers \ {w} : pc'[v] = pc[v] /\ prio'[v] = prio[v] /\ t'[v] = t[v],
         {pc[w], pc'[w]} \cap (PushPC \cup {"pop_top"}) = {}
  PROVE  UNCHANGED <<entries, held>>
<1>1. pc[w] \notin PushPC /\ pc[w] # "pop_top" /\ pc'[w] \notin PushPC /\ pc'[w] # "pop_top"
  OBVIOUS
<1>2. held' = held
  BY <1>1 DEF held
<1>3. ASSUME NEW p \in Prios PROVE entries'[p] = entries[p]
  <2>1. Taken(p)' = Taken(p)
    BY <1>1, TakenStays
  <2>2. Height(p)' = Height(p)
    BY <2>1 DEF Height
  <2> QED
    BY <2>2, SameEntries
<1>4. entries' = entries
  BY <1>3 DEF entries
<1> QED
  BY <1>2, <1>4

(* With room on the array, Push begins with its term in hand.              *)
LEMMA CallStep ==
  ASSUME term_queue_atomic, TypeOK, Locals, Exclusive, TypeOK',
         NEW w \in Workers, NEW p \in Prios, NEW x \in Terms, PushRead(w, p, x)
  PROVE  Stack!Call(w, p, x)
<1>1. /\ pc[w] = "idle" /\ pc'[w] = "push_slot" /\ prio'[w] = p /\ t'[w] = x
      /\ \A v \in Workers \ {w} : pc'[v] = pc[v] /\ prio'[v] = prio[v] /\ t'[v] = t[v]
      /\ m_top' = m_top /\ m_queue' = m_queue /\ m_top[p] < N
  BY DEF PushRead, Goto, Room, TypeOK
<1>2. held[w] = [op |-> "none"] /\ held'[w] = [op |-> "push", prio |-> p, term |-> x]
  BY <1>1 DEF held, PushPC
<1>3. ASSUME NEW q \in Prios PROVE entries'[q] = entries[q]
  <2>1. Taken(q)' = Taken(q)
    BY <1>1, TakenStays
  <2>2. Height(q)' = Height(q)
    BY <1>1, <2>1 DEF Height
  <2> QED
    BY <1>1, <2>2, SameEntries
<1>4. entries' = entries
  BY <1>3 DEF entries
<1>5. Len(entries[p]) < N
  BY <1>1, EntriesAre, HeightIs, Facts DEF EntriesOK
<1> QED
  BY <1>1, <1>2, <1>4, <1>5, HeldIs DEF Stack!Call, Stack!None, Stack!Holding

(* The write of the slot is above the stack.                               *)
LEMMA SlotStep ==
  ASSUME term_queue_atomic, TypeOK, Locals, Exclusive, TypeOK',
         NEW w \in Workers, PushSlot(w)
  PROVE  UNCHANGED <<entries, held>>
<1>1. /\ pc[w] = "push_slot" /\ pc'[w] = "push_top" /\ prio' = prio /\ t' = t /\ m_top' = m_top
      /\ \A v \in Workers \ {w} : pc'[v] = pc[v]
      /\ m_queue' = [m_queue EXCEPT ![prio[w]][top[w]] = t[w]]
  BY DEF PushSlot, Goto, TypeOK
<1>2. held' = held
  BY <1>1 DEF held, PushPC
<1>3. ASSUME NEW p \in Prios PROVE entries'[p] = entries[p]
  <2>1. Taken(p)' = Taken(p)
    BY <1>1, TakenStays
  <2>2. Height(p)' = Height(p)
    BY <1>1, <2>1 DEF Height
  <2>3. top[w] = m_top[prio[w]] /\ Height(p) \in Nat /\ Height(p) <= m_top[p] /\ m_top[p] \in Nat /\ m_top[p] <= N
    BY <1>1, OneAtATime, HeightIs DEF InFlight, PushPC
  <2>4. ASSUME NEW i \in 1 .. Height(p) PROVE m_queue'[p][i-1] = m_queue[p][i-1]
    <3>1. i - 1 \in Slots /\ i - 1 < m_top[p]
      BY <2>3, Facts DEF Slots
    <3>2. p = prio[w] => i - 1 # top[w]
      BY <2>3, <3>1
    <3> QED
      BY <1>1, <3>1, <3>2 DEF TypeOK
  <2> QED
    BY <2>2, <2>4, SameEntries
<1>4. entries' = entries
  BY <1>3 DEF entries
<1> QED
  BY <1>2, <1>4

(* The write of m_top puts the term on the stack and ends Push.            *)
LEMMA PushStep ==
  ASSUME term_queue_atomic, TypeOK, Locals, Exclusive, Written,
         TypeOK', Locals', Exclusive',
         NEW w \in Workers, PushTop(w)
  PROVE  Stack!Push(w)
<1>1. PICK p \in Prios, x \in Terms : p = prio[w] /\ x = t[w]
  BY DEF PushTop, TypeOK, Locals, PushPC
<1>2. /\ pc[w] = "push_top" /\ pc'[w] = "idle" /\ m_queue' = m_queue
      /\ \A v \in Workers \ {w} : pc'[v] = pc[v] /\ prio'[v] = prio[v] /\ t'[v] = t[v]
      /\ m_top' = [m_top EXCEPT ![p] = top[w] + 1]
  BY <1>1 DEF PushTop, Return, Goto, TypeOK
<1>3. /\ top[w] = m_top[p] /\ m_top[p] < N /\ m_queue[p][m_top[p]] = x
      /\ \A v \in Workers \ {w} : pc[v] \in InFlight => prio[v] # p
  BY <1>1, <1>2, OneAtATime DEF InFlight, Locals, PushPC, Written
<1>4. held[w] = [op |-> "push", prio |-> p, term |-> x] /\ held'[w] = [op |-> "none"]
  BY <1>1, <1>2 DEF held, PushPC
<1>5. \A q \in Prios : Taken(q)' = Taken(q)
  BY <1>2, TakenStays
<1>6. ~ Taken(p)
  BY <1>2, <1>3 DEF Taken, InFlight
<1>7. m_top[p] \in Nat /\ Height(p) = m_top[p] /\ Height(p)' = m_top[p] + 1
  BY <1>2, <1>3, <1>5, <1>6, HeightIs DEF Height, TypeOK
<1> DEFINE s == Append(entries[p], x)
<1>8. /\ entries[p] \in Seq(Terms \cup {NULL}) /\ Len(entries[p]) = m_top[p]
      /\ \A i \in 1 .. m_top[p] : entries[p][i] = m_queue[p][i-1]
  BY <1>7, EntriesAre DEF EntriesOK
<1>9. /\ s \in Seq(Terms \cup {NULL}) /\ Len(s) = m_top[p] + 1
      /\ \A i \in 1 .. m_top[p] : s[i] = entries[p][i]
      /\ s[m_top[p] + 1] = x
  BY <1>8, AppendProperties
<1>10. /\ entries'[p] \in Seq(Terms \cup {NULL}) /\ Len(entries'[p]) = m_top[p] + 1
       /\ \A i \in 1 .. m_top[p] + 1 : entries'[p][i] = m_queue[p][i-1]
  <2>1. EntriesOK(p)'
    BY EntriesAre, PTL
  <2> QED
    BY <1>2, <1>7, <2>1 DEF EntriesOK
<1>11. entries'[p] = s
  <2>1. \A i \in 1 .. m_top[p] + 1 : entries'[p][i] = s[i]
    BY <1>3, <1>7, <1>8, <1>9, <1>10
  <2> HIDE DEF s
  <2> QED
    BY <1>7, <1>9, <1>10, <2>1, SeqEqual
<1>12. \A q \in Prios \ {p} : entries'[q] = entries[q]
  <2> TAKE q \in Prios \ {p}
  <2>1. Height(q)' = Height(q)
    BY <1>2, <1>5 DEF Height, TypeOK
  <2> QED
    BY <1>2, <2>1, SameEntries
<1>13. entries' = [entries EXCEPT ![p] = s]
  BY <1>11, <1>12 DEF entries
<1>14. held' = [held EXCEPT ![w] = [op |-> "none"]]
  BY <1>2, <1>4, HeldIs
<1> QED
  BY <1>3, <1>4, <1>8, <1>13, <1>14 DEF Stack!Push, Stack!None, Stack!Holding

(* The read of the slot takes the youngest term off the stack.             *)
LEMMA PopStep ==
  ASSUME term_queue_atomic, TypeOK, Locals, Exclusive, TypeOK', Locals', Exclusive',
         NEW w \in Workers, PopSlot(w)
  PROVE  \E p \in Prios : Stack!Pop(w, p)
<1>1. PICK p \in Prios : p = prio[w]
  BY DEF TypeOK
<1>2. /\ pc[w] = "pop_slot" /\ pc'[w] = "pop_top" /\ m_queue' = m_queue /\ m_top' = m_top
      /\ prio' = prio /\ t'[w] = m_queue[p][top[w] - 1]
      /\ \A v \in Workers \ {w} : pc'[v] = pc[v] /\ prio'[v] = prio[v] /\ t'[v] = t[v]
  BY <1>1 DEF PopSlot, Goto, queueVars, TypeOK
<1>3. /\ top[w] = m_top[p] /\ m_top[p] \in Nat /\ m_top[p] > 0
      /\ \A v \in Workers \ {w} : pc[v] \in InFlight => prio[v] # p
  BY <1>1, <1>2, OneAtATime, HeightIs DEF InFlight, Locals
<1>4. ~ Taken(p) /\ Taken(p)'
  BY <1>1, <1>2, <1>3 DEF Taken, InFlight
<1>5. Height(p) = m_top[p] /\ Height(p)' = m_top[p] - 1
  BY <1>2, <1>4 DEF Height
<1> DEFINE s == SubSeq(entries[p], 1, m_top[p] - 1)
<1>6. /\ entries[p] \in Seq(Terms \cup {NULL}) /\ Len(entries[p]) = m_top[p]
      /\ \A i \in 1 .. m_top[p] : entries[p][i] = m_queue[p][i-1]
  BY <1>5, EntriesAre DEF EntriesOK
<1>7. /\ held[w] = [op |-> "none"]
      /\ held'[w] = [op |-> "pop", prio |-> p, term |-> entries[p][m_top[p]]]
  <2>1. t'[w] = entries[p][m_top[p]]
    BY <1>2, <1>3, <1>6
  <2> QED
    BY <1>1, <1>2, <2>1 DEF held, PushPC
<1>8. \A i \in 1 .. m_top[p] - 1 : entries[p][i] \in Terms \cup {NULL}
  BY <1>3, <1>6, ElementOfSeq
<1>9. /\ s \in Seq(Terms \cup {NULL}) /\ Len(s) = m_top[p] - 1
      /\ \A i \in 1 .. m_top[p] - 1 : s[i] = entries[p][i]
  BY <1>3, <1>8, SubSeqProperties
<1>10. /\ entries'[p] \in Seq(Terms \cup {NULL}) /\ Len(entries'[p]) = m_top[p] - 1
       /\ \A i \in 1 .. m_top[p] - 1 : entries'[p][i] = m_queue[p][i-1]
  <2>1. EntriesOK(p)'
    BY EntriesAre, PTL
  <2> QED
    BY <1>2, <1>5, <2>1 DEF EntriesOK
<1>11. entries'[p] = s
  <2>1. \A i \in 1 .. m_top[p] - 1 : entries'[p][i] = s[i]
    BY <1>3, <1>6, <1>9, <1>10
  <2> HIDE DEF s
  <2> QED
    BY <1>3, <1>9, <1>10, <2>1, SeqEqual
<1>12. \A q \in Prios \ {p} : entries'[q] = entries[q]
  <2> TAKE q \in Prios \ {p}
  <2>1. Taken(q)' = Taken(q)
    BY <1>1, <1>2, TakenStays
  <2>2. Height(q)' = Height(q)
    BY <1>2, <2>1 DEF Height
  <2> QED
    BY <1>2, <2>2, SameEntries
<1>13. entries' = [entries EXCEPT ![p] = s]
  BY <1>11, <1>12 DEF entries
<1>14. held' = [held EXCEPT ![w] = [op |-> "pop", prio |-> p, term |-> entries[p][m_top[p]]]]
  BY <1>2, <1>7, HeldIs
<1>15. entries[p] # << >>
  BY <1>3, <1>6, EmptySeq
<1> QED
  BY <1>6, <1>7, <1>13, <1>14, <1>15 DEF Stack!Pop, Stack!None, Stack!Holding

(* The write of m_top by Pop only gives the slot back; the term is         *)
(* returned.                                                               *)
LEMMA ReturnStep ==
  ASSUME term_queue_atomic, TypeOK, Locals, Exclusive, TypeOK',
         NEW w \in Workers, PopTop(w)
  PROVE  Stack!Return(w)
<1>1. PICK p \in Prios : p = prio[w]
  BY DEF TypeOK
<1>2. /\ pc[w] = "pop_top" /\ pc'[w] = "idle" /\ m_queue' = m_queue
      /\ m_top' = [m_top EXCEPT ![p] = top[w] - 1]
      /\ \A v \in Workers \ {w} : pc'[v] = pc[v] /\ prio'[v] = prio[v] /\ t'[v] = t[v]
  BY <1>1 DEF PopTop, Return, Goto, TypeOK
<1>3. /\ top[w] = m_top[p]
      /\ \A v \in Workers \ {w} : pc[v] \in InFlight => prio[v] # p
  BY <1>1, <1>2, OneAtATime DEF InFlight
<1>4. Taken(p) /\ ~ Taken(p)'
  BY <1>1, <1>2, <1>3 DEF Taken, InFlight
<1>5. ASSUME NEW q \in Prios PROVE entries'[q] = entries[q]
  <2>1. CASE q = p
    <3>1. Height(q)' = Height(q)
      BY <1>2, <1>3, <1>4, <2>1 DEF Height, TypeOK
    <3> QED
      BY <1>2, <3>1, SameEntries
  <2>2. CASE q # p
    <3>1. Taken(q)' = Taken(q)
      BY <1>1, <1>2, <2>2, TakenStays
    <3>2. Height(q)' = Height(q)
      BY <1>2, <2>2, <3>1 DEF Height, TypeOK
    <3> QED
      BY <1>2, <3>2, SameEntries
  <2> QED
    BY <2>1, <2>2
<1>6. entries' = entries
  BY <1>5 DEF entries
<1>7. held[w].op = "pop" /\ held'[w] = [op |-> "none"]
  BY <1>2 DEF held, PushPC
<1>8. held' = [held EXCEPT ![w] = [op |-> "none"]]
  BY <1>2, <1>7, HeldIs
<1> QED
  BY <1>6, <1>7, <1>8 DEF Stack!Return, Stack!None

(* Every step of the locked queue is a step of the stack or a stutter:     *)
(* Push takes effect at its write of m_top, Pop at its read of the slot.   *)
LEMMA StackStep ==
  ASSUME term_queue_atomic, AtomicIInv, [Next]_vars
  PROVE  [Stack!Next]_<<entries, held>>
<1>a. /\ TypeOK /\ TypeOK' /\ Locals /\ Locals'
      /\ Exclusive /\ Exclusive' /\ Written
  BY NextAtomicIInv DEF AtomicIInv, IInv
<1>b. ASSUME UNCHANGED <<queueVars, localVars>> PROVE UNCHANGED <<entries, held>>
  BY <1>b DEF queueVars, localVars, entries, Height, Taken, held
<1>1. ASSUME NEW w \in Workers, NEW p \in Prios, NEW x \in Terms, PushRead(w, p, x)
      PROVE Stack!Next
  BY <1>1, <1>a, CallStep DEF Stack!Next
<1>2. ASSUME NEW w \in Workers, NEW p \in Prios, NEW x \in Terms, PushOverflow(w, p, x)
      PROVE UNCHANGED <<entries, held>>
  BY <1>2, <1>b DEF PushOverflow, vars, queueVars, localVars
<1>3. ASSUME NEW w \in Workers, PushSlot(w) PROVE UNCHANGED <<entries, held>>
  BY <1>3, <1>a, SlotStep
<1>4. ASSUME NEW w \in Workers, PushTop(w) PROVE Stack!Next
  BY <1>4, <1>a, PushStep DEF Stack!Next
<1>5. ASSUME NEW w \in Workers, PopStart(w) \/ PopNext(w) \/ PopNull(w) \/ PopRead(w)
      PROVE UNCHANGED <<entries, held>>
  <2>1. /\ UNCHANGED <<m_top, m_queue>>
        /\ pc[w] \in {"idle", "pop"} /\ pc'[w] \in {"idle", "pop", "pop_slot"}
        /\ \A v \in Workers \ {w} : pc'[v] = pc[v] /\ prio'[v] = prio[v] /\ t'[v] = t[v]
    BY <1>5, <1>a DEF PopStart, PopNext, PopNull, PopRead, Return, Goto, queueVars, TypeOK
  <2>2. {pc[w], pc'[w]} \cap (PushPC \cup {"pop_top"}) = {}
    BY <2>1 DEF PushPC
  <2> QED
    BY <2>1, <2>2, Hidden
<1>6. ASSUME NEW w \in Workers, PopSlot(w) PROVE Stack!Next
  BY <1>6, <1>a, PopStep DEF Stack!Next
<1>7. ASSUME NEW w \in Workers, PopTop(w) PROVE Stack!Next
  BY <1>7, <1>a, ReturnStep DEF Stack!Next
<1>8. ASSUME NEW x \in Terms, NewTerm(x) \/ Drop(x) PROVE UNCHANGED <<entries, held>>
  BY <1>8, <1>b DEF NewTerm, Drop
<1>9. ASSUME GlobalGC PROVE UNCHANGED <<entries, held>>
  BY <1>9, <1>b DEF GlobalGC
<1>10. ASSUME UNCHANGED vars PROVE UNCHANGED <<entries, held>>
  BY <1>10, <1>b DEF vars, queueVars, localVars
<1> QED
  BY <1>1, <1>2, <1>3, <1>4, <1>5, <1>6, <1>7, <1>8, <1>9, <1>10, PoppersAssumption
  DEF Next, Push, Pop

(* With its locks the term queue implements the stack per priority, with   *)
(* the terms its callers push and get: a push with room is not lost, and a *)
(* pop returns the youngest term, which no other pop can return as well.   *)
THEOREM AtomicIsStack == ASSUME term_queue_atomic PROVE Spec => IsStack
<1>1. Init => Stack!Init
  BY Facts DEF Init, Stack!Init, Stack!None, Prios, entries, held, Height, Taken, PushPC
<1>2. AtomicIInv /\ [Next]_vars => [Stack!Next]_<<entries, held>>
  BY StackStep
<1> QED
  BY InitAtomicIInv, NextAtomicIInv, <1>1, <1>2, PTL DEF Spec, IsStack, Stack!Spec, Stack!vars

-----------------------------------------------------------------------------
(* A worker that takes a mutex is in flight with it until it unlocks.      *)
LEMMA NextHolder == TypeOK /\ HolderGoesOn /\ [Next]_vars => HolderGoesOn'
<1> SUFFICES ASSUME TypeOK, HolderGoesOn, term_queue_atomic, [Next]_vars,
                    NEW p \in Prios, m_lock'[p] # NOBODY
             PROVE  /\ m_lock'[p] \in Workers
                    /\ pc'[m_lock'[p]] \in InFlight /\ prio'[m_lock'[p]] = p
  BY DEF HolderGoesOn
<1> USE DEF InFlight, PushPC
<1>0. /\ m_lock \in [Prios -> Workers \cup {NOBODY}]
      /\ pc \in [Workers -> {"idle"} \cup PushPC \cup PopPC]
      /\ prio \in [Workers -> Prios]
  BY DEF TypeOK
<1>1. m_lock[p] # NOBODY => /\ m_lock[p] \in Workers
                            /\ pc[m_lock[p]] \in InFlight /\ prio[m_lock[p]] = p
  BY DEF HolderGoesOn
<1>2. ASSUME NEW w \in Workers, NEW q \in Prios, NEW x \in Terms, PushRead(w, q, x)
      PROVE  /\ m_lock'[p] \in Workers
             /\ pc'[m_lock'[p]] \in InFlight /\ prio'[m_lock'[p]] = p
  BY <1>0, <1>1, <1>2 DEF PushRead, Lock, Goto
<1>3. ASSUME NEW w \in Workers, PushSlot(w) \/ PopSlot(w)
      PROVE  /\ m_lock'[p] \in Workers
             /\ pc'[m_lock'[p]] \in InFlight /\ prio'[m_lock'[p]] = p
  BY <1>0, <1>1, <1>3 DEF PushSlot, PopSlot, Goto, queueVars
<1>4. ASSUME NEW w \in Workers, PushTop(w) \/ PopTop(w)
      PROVE  /\ m_lock'[p] \in Workers
             /\ pc'[m_lock'[p]] \in InFlight /\ prio'[m_lock'[p]] = p
  <2>1. m_lock' = [m_lock EXCEPT ![prio[w]] = NOBODY]
    BY <1>4 DEF PushTop, PopTop, Unlock
  <2>2. p # prio[w] /\ m_lock'[p] = m_lock[p]
    BY <1>0, <2>1
  <2>3. \A v \in Workers \ {w} : pc'[v] = pc[v] /\ prio'[v] = prio[v]
    BY <1>0, <1>4 DEF PushTop, PopTop, Return, Goto
  <2> QED BY <1>1, <2>2, <2>3
<1>5. ASSUME NEW w \in Workers, PopStart(w) \/ PopNext(w) \/ PopNull(w)
      PROVE  /\ m_lock'[p] \in Workers
             /\ pc'[m_lock'[p]] \in InFlight /\ prio'[m_lock'[p]] = p
  <2>1. m_lock' = m_lock /\ pc[w] \notin InFlight
    BY <1>5 DEF PopStart, PopNext, PopNull, queueVars
  <2>2. \A v \in Workers \ {w} : pc'[v] = pc[v] /\ prio'[v] = prio[v]
    BY <1>0, <1>5 DEF PopStart, PopNext, PopNull, Return, Goto
  <2> QED BY <1>1, <2>1, <2>2
<1>6. ASSUME NEW w \in Workers, PopRead(w)
      PROVE  /\ m_lock'[p] \in Workers
             /\ pc'[m_lock'[p]] \in InFlight /\ prio'[m_lock'[p]] = p
  BY <1>0, <1>1, <1>6 DEF PopRead, Lock, Goto
<1>7. CASE UNCHANGED <<m_lock, pc, prio>>
  BY <1>1, <1>7
<1> QED BY <1>2, <1>3, <1>4, <1>5, <1>6, <1>7, PoppersAssumption
        DEF Next, Push, Pop, PushOverflow, NewTerm, Drop, GlobalGC, queueVars, localVars, vars

(* With locks nobody ever waits for a mutex that will not be given back:   *)
(* its owner is about to write m_top and needs no second one               *)
(* (worker.h:94-121), for any number of workers and priorities.            *)
THEOREM LocksAreReturned == Spec => []HolderGoesOn
<1>1. Init => HolderGoesOn
  BY DEF Init, HolderGoesOn
<1> QED BY <1>1, NextHolder, TypeCorrect, PTL DEF Spec

-----------------------------------------------------------------------------
(* The promise of the queue in every build.                                 *)

(* Nothing new comes into the pool but x, if slots that become part of the  *)
(* queue hold terms of the pool, and workers take up terms of the pool.     *)
LEMMA PoolFrom ==
  ASSUME NEW S, pool \subseteq S,
         \A p \in Prios, i \in Slots :
           Covered(p, i)' =>
             \/ Covered(p, i) /\ m_queue'[p][i] = m_queue[p][i]
             \/ m_queue'[p][i] \in S,
         \A w \in Workers : Carries(w)' => (Carries(w) /\ t'[w] = t[w]) \/ t'[w] \in S
  PROVE  pool' \subseteq S
<1> SUFFICES ASSUME NEW x \in pool' PROVE x \in S
  OBVIOUS
<1>1. ASSUME NEW p \in Prios, NEW i \in Slots, Covered(p, i)', m_queue'[p][i] = x PROVE x \in S
  <2>1. CASE Covered(p, i) /\ m_queue'[p][i] = m_queue[p][i]
    BY <1>1, <2>1 DEF pool
  <2> QED BY <1>1, <2>1
<1>2. ASSUME NEW w \in Workers, Carries(w)', t'[w] = x PROVE x \in S
  <2>1. CASE Carries(w) /\ t'[w] = t[w]
    BY <1>2, <2>1 DEF pool
  <2> QED BY <1>2, <2>1
<1> QED BY <1>1, <1>2 DEF pool

(* A worker that goes on with the queue covers no slot that was not covered *)
(* before, if it read m_top now, or covered it itself.                      *)
LEMMA CoveredFrom ==
  ASSUME TypeOK, NEW w \in Workers,
         \A v \in Workers \ {w} : pc'[v] = pc[v] /\ prio'[v] = prio[v] /\ top'[v] = top[v],
         NEW p \in Prios, NEW i \in Slots, Covered(p, i)',
         i < m_top'[p] => Covered(p, i),
         ( /\ pc'[w] \in InFlight /\ prio'[w] = p
           /\ i < top'[w] \/ (pc'[w] = "push_top" /\ i = top'[w]) ) => Covered(p, i)
  PROVE  Covered(p, i)
<1>1. CASE i < m_top'[p]
  BY <1>1
<1>2. CASE ~(i < m_top'[p])
  <2>1. PICK v \in Workers :
          /\ pc'[v] \in InFlight /\ prio'[v] = p
          /\ i < top'[v] \/ (pc'[v] = "push_top" /\ i = top'[v])
    BY <1>2 DEF Covered
  <2>2. CASE v = w
    BY <2>1, <2>2
  <2>3. CASE v # w
    BY <2>1, <2>3 DEF Covered
  <2> QED BY <2>2, <2>3
<1> QED BY <1>1, <1>2

(* Push: the term comes into the pool as Push is called, and only leaves it *)
(* later on.                                                                *)
LEMMA PushesToPool ==
  ASSUME IInv, NEW w \in Workers, NEW p \in Prios, NEW x \in Terms, PushRead(w, p, x)
  PROVE  Pool!Push(x)
<1>1. /\ x \in roots /\ pc[w] = "idle" /\ UNCHANGED <<m_top, m_queue, alive, roots>>
      /\ pc'[w] = "push_slot" /\ prio'[w] = p /\ top'[w] = m_top[p] /\ t'[w] = x
      /\ \A v \in Workers \ {w} :
           pc'[v] = pc[v] /\ prio'[v] = prio[v] /\ top'[v] = top[v] /\ t'[v] = t[v]
  BY DEF PushRead, Goto, heapVars, IInv, TypeOK
<1>2. ASSUME NEW q \in Prios, NEW i \in Slots, Covered(q, i)' PROVE Covered(q, i)
  <2>1. i < m_top'[q] => Covered(q, i)
    BY <1>1 DEF Covered
  <2>2. prio'[w] = q /\ i < top'[w] => Covered(q, i)
    BY <1>1 DEF Covered
  <2> QED BY <1>1, <1>2, <2>1, <2>2, CoveredFrom DEF IInv
<1>3. \A v \in Workers : Carries(v)' => (Carries(v) /\ t'[v] = t[v]) \/ t'[v] \in pool \cup {x}
  BY <1>1 DEF Carries
<1>4. pool' \subseteq pool \cup {x}
  BY <1>1, <1>2, <1>3, PoolFrom
<1> QED BY <1>1, <1>4 DEF Pool!Push

(* Steps that only move terms about: what they write was in the pool.       *)
LEMMA MovesInPool ==
  ASSUME IInv, NEW w \in Workers,
         PushSlot(w) \/ PushTop(w) \/ PopStart(w) \/ PopNext(w) \/ PopNull(w)
           \/ PopRead(w) \/ PopSlot(w)
  PROVE  Pool!Lose
<1>0. /\ UNCHANGED <<alive, roots>> /\ t[w] \in Terms \cup {NULL}
      /\ m_top \in [Prios -> 0 .. N] /\ top \in [Workers -> 0 .. N] /\ prio \in [Workers -> Prios]
  BY DEF PushSlot, PushTop, PopStart, PopNext, PopNull, PopRead, PopSlot, heapVars, IInv, TypeOK
<1>1. CASE PushSlot(w)
  <2>1. /\ pc[w] = "push_slot" /\ pc'[w] = "push_top" /\ UNCHANGED <<m_top, prio, top, t>>
        /\ \A v \in Workers \ {w} : pc'[v] = pc[v]
        /\ m_queue' = [m_queue EXCEPT ![prio[w]][top[w]] = t[w]]
    BY <1>1 DEF PushSlot, Goto, heapVars, IInv, TypeOK
  <2>2. t[w] \in pool
    BY <2>1 DEF pool, Carries, PushPC, IInv, TypeOK, Locals
  <2>3. ASSUME NEW q \in Prios, NEW i \in Slots, Covered(q, i)', ~(q = prio[w] /\ i = top[w])
        PROVE  Covered(q, i)
    <3>1. i < m_top'[q] => Covered(q, i)
      BY <2>1 DEF Covered
    <3>2. prio'[w] = q /\ (i < top'[w] \/ i = top'[w]) => Covered(q, i)
      BY <2>1, <2>3 DEF Covered, InFlight, PushPC
    <3> QED BY <2>1, <2>3, <3>1, <3>2, CoveredFrom DEF IInv
  <2>4. \A q \in Prios, i \in Slots :
          IF q = prio[w] /\ i = top[w] THEN m_queue'[q][i] = t[w]
          ELSE m_queue'[q][i] = m_queue[q][i]
    BY <2>1 DEF IInv, TypeOK
  <2>5. \A v \in Workers : Carries(v)' => Carries(v) /\ t'[v] = t[v]
    BY <2>1 DEF Carries, PushPC
  <2>6. pool' \subseteq pool
    BY <2>2, <2>3, <2>4, <2>5, PoolFrom
  <2> QED BY <1>0, <2>6 DEF Pool!Lose
<1>2. CASE PushTop(w)
  <2>1. /\ pc[w] = "push_top" /\ pc'[w] = "idle" /\ m_queue' = m_queue
        /\ m_top' = [m_top EXCEPT ![prio[w]] = top[w] + 1]
        /\ \A v \in Workers \ {w} :
             pc'[v] = pc[v] /\ prio'[v] = prio[v] /\ top'[v] = top[v] /\ t'[v] = t[v]
    BY <1>2 DEF PushTop, Return, Goto, heapVars, IInv, TypeOK
  <2>2. ASSUME NEW q \in Prios, NEW i \in Slots, Covered(q, i)' PROVE Covered(q, i)
    <3>1. i < m_top'[q] => Covered(q, i)
      <4>1. i \in Int /\ top[w] \in Int
        BY <1>0, Facts DEF Slots
      <4>2. CASE q = prio[w]
        <5>1. m_top'[q] = top[w] + 1
          BY <1>0, <2>1, <4>2
        <5>2. i < m_top'[q] => i < top[w] \/ i = top[w]
          BY <4>1, <5>1
        <5> QED BY <2>1, <4>2, <5>2 DEF Covered, InFlight, PushPC
      <4>3. CASE q # prio[w]
        BY <1>0, <2>1, <4>3 DEF Covered
      <4> QED BY <4>2, <4>3
    <3> QED BY <2>1, <2>2, <3>1, CoveredFrom DEF IInv, InFlight, PushPC
  <2>3. \A v \in Workers : Carries(v)' => Carries(v) /\ t'[v] = t[v]
    BY <2>1 DEF Carries, PushPC
  <2>4. pool' \subseteq pool
    BY <2>1, <2>2, <2>3, PoolFrom
  <2> QED BY <1>0, <2>4 DEF Pool!Lose
<1>3. CASE PopStart(w) \/ PopNext(w) \/ PopNull(w)
  <2>1. /\ pc'[w] \in {"idle", "pop"} /\ UNCHANGED <<m_top, m_queue>>
        /\ \A v \in Workers \ {w} :
             pc'[v] = pc[v] /\ prio'[v] = prio[v] /\ top'[v] = top[v] /\ t'[v] = t[v]
    BY <1>3 DEF PopStart, PopNext, PopNull, Return, Goto, queueVars, heapVars, IInv, TypeOK
  <2>2. ASSUME NEW q \in Prios, NEW i \in Slots, Covered(q, i)' PROVE Covered(q, i)
    <3>1. i < m_top'[q] => Covered(q, i)
      BY <2>1 DEF Covered
    <3> QED BY <2>1, <2>2, <3>1, CoveredFrom DEF IInv, InFlight, PushPC
  <2>3. \A v \in Workers : Carries(v)' => Carries(v) /\ t'[v] = t[v]
    BY <2>1 DEF Carries, PushPC
  <2>4. pool' \subseteq pool
    BY <2>1, <2>2, <2>3, PoolFrom
  <2> QED BY <1>0, <2>4 DEF Pool!Lose
<1>4. CASE PopRead(w)
  <2>1. /\ pc'[w] = "pop_slot" /\ top'[w] = m_top[prio[w]] /\ UNCHANGED <<m_top, m_queue, prio, t>>
        /\ \A v \in Workers \ {w} : pc'[v] = pc[v] /\ top'[v] = top[v]
    BY <1>4 DEF PopRead, Goto, heapVars, IInv, TypeOK
  <2>2. ASSUME NEW q \in Prios, NEW i \in Slots, Covered(q, i)' PROVE Covered(q, i)
    <3>1. i < m_top'[q] => Covered(q, i)
      BY <2>1 DEF Covered
    <3>2. prio'[w] = q /\ i < top'[w] => Covered(q, i)
      BY <2>1 DEF Covered
    <3> QED BY <2>1, <2>2, <3>1, <3>2, CoveredFrom DEF IInv
  <2>3. \A v \in Workers : Carries(v)' => Carries(v) /\ t'[v] = t[v]
    BY <2>1 DEF Carries, PushPC
  <2>4. pool' \subseteq pool
    BY <2>1, <2>2, <2>3, PoolFrom
  <2> QED BY <1>0, <2>4 DEF Pool!Lose
<1>5. CASE PopSlot(w)
  <2>1. /\ pc[w] = "pop_slot" /\ pc'[w] = "pop_top" /\ UNCHANGED <<m_top, m_queue, prio, top>>
        /\ t'[w] = m_queue[prio[w]][top[w] - 1]
        /\ \A v \in Workers \ {w} : pc'[v] = pc[v] /\ t'[v] = t[v]
    BY <1>5 DEF PopSlot, Goto, queueVars, heapVars, IInv, TypeOK
  <2>2. top[w] - 1 \in Slots /\ top[w] - 1 < top[w] /\ top[w] - 1 \in 0 .. top[w] - 1
    BY <1>0, <2>1, Facts DEF IInv, Locals, Slots
  <2>3. t'[w] \in pool
    <3>1. pc[w] \in InFlight /\ prio[w] \in Prios
      BY <1>0, <2>1 DEF InFlight
    <3>2. Covered(prio[w], top[w] - 1)
      BY <2>2, <3>1 DEF Covered
    <3>3. t'[w] \in Terms
      BY <2>1, <2>2, <3>1 DEF IInv, TypeOK, InFlightAlive
    <3> QED BY <2>1, <2>2, <3>1, <3>2, <3>3 DEF pool
  <2>4. ASSUME NEW q \in Prios, NEW i \in Slots, Covered(q, i)' PROVE Covered(q, i)
    <3>1. i < m_top'[q] => Covered(q, i)
      BY <2>1 DEF Covered
    <3>2. prio'[w] = q /\ i < top'[w] => Covered(q, i)
      BY <2>1 DEF Covered, InFlight
    <3> QED BY <2>1, <2>4, <3>1, <3>2, CoveredFrom DEF IInv
  <2>5. \A v \in Workers : Carries(v)' => (Carries(v) /\ t'[v] = t[v]) \/ t'[v] \in pool
    BY <2>1, <2>3 DEF Carries
  <2>6. pool' \subseteq pool
    BY <2>1, <2>4, <2>5, PoolFrom
  <2> QED BY <1>0, <2>6 DEF Pool!Lose
<1> QED BY <1>1, <1>2, <1>3, <1>4, <1>5

(* Pop hands a term of the pool out when it writes m_top.                   *)
LEMMA PopsFromPool ==
  ASSUME IInv, NEW w \in Workers, PopTop(w)
  PROVE  t[w] \in Terms /\ Pool!Pop(t[w])
<1>0. /\ alive' = alive /\ m_queue' = m_queue
      /\ m_top \in [Prios -> 0 .. N] /\ top \in [Workers -> 0 .. N] /\ prio \in [Workers -> Prios]
  BY DEF PopTop, IInv, TypeOK
<1>1. /\ pc[w] = "pop_top" /\ pc'[w] = "idle"
      /\ m_top' = [m_top EXCEPT ![prio[w]] = top[w] - 1]
      /\ \A v \in Workers \ {w} :
           pc'[v] = pc[v] /\ prio'[v] = prio[v] /\ top'[v] = top[v] /\ t'[v] = t[v]
  BY DEF PopTop, Return, Goto, IInv, TypeOK
<1>2. t[w] \in Terms /\ t[w] # NULL /\ roots' = roots \cup {t[w]}
  BY <1>1, Facts DEF PopTop, IInv, TypeOK, PopAlive
<1>3. t[w] \in pool
  BY <1>1, <1>2 DEF pool, Carries
<1>4. ASSUME NEW q \in Prios, NEW i \in Slots, Covered(q, i)' PROVE Covered(q, i)
  <2>1. i < m_top'[q] => Covered(q, i)
    <3>1. i \in Int /\ top[w] \in Int
      BY <1>0, Facts DEF Slots
    <3>2. CASE q = prio[w]
      <4>1. m_top'[q] = top[w] - 1
        BY <1>0, <1>1, <3>2
      <4>2. i < m_top'[q] => i < top[w]
        BY <3>1, <4>1
      <4> QED BY <1>1, <3>2, <4>2 DEF Covered, InFlight
    <3>3. CASE q # prio[w]
      BY <1>0, <1>1, <3>3 DEF Covered
    <3> QED BY <3>2, <3>3
  <2> QED BY <1>1, <1>4, <2>1, CoveredFrom DEF IInv, InFlight, PushPC
<1>5. \A v \in Workers : Carries(v)' => Carries(v) /\ t'[v] = t[v]
  BY <1>1 DEF Carries, PushPC
<1>6. pool' \subseteq pool
  BY <1>0, <1>4, <1>5, PoolFrom
<1> QED BY <1>0, <1>2, <1>3, <1>6 DEF Pool!Pop

(* A collection comes when nobody is in Push or Pop: then the pool is what  *)
(* MarkActive marks.                                                        *)
LEMMA CollectsAroundPool == ASSUME IInv, GlobalGC PROVE Pool!GlobalGC
<1>1. /\ \A w \in Workers : pc[w] = "idle"
      /\ alive' = alive \cap (roots \cup MarkActive)
      /\ UNCHANGED <<m_top, m_queue, pc, prio, top, t, roots>>
  BY DEF GlobalGC, Stopped, queueVars, localVars
<1>2. \A p \in Prios, i \in Slots : Covered(p, i) <=> i < m_top[p]
  BY <1>1 DEF Covered, InFlight, PushPC
<1>3. \A w \in Workers : ~Carries(w)
  BY <1>1 DEF Carries, PushPC
<1>4. ASSUME NEW x \in MarkActive PROVE x \in pool
  <2>0. PICK p \in Prios : x \in Queued(p)
    BY <1>4 DEF MarkActive
  <2>1. PICK i \in 0 .. m_top[p]-1 : x = m_queue[p][i]
    BY <2>0 DEF Queued
  <2>2. i \in Slots /\ i < m_top[p]
    BY <2>1, Facts DEF Slots, IInv, TypeOK
  <2>3. x \in Terms
    BY <2>0 DEF IInv, QueueAlive, TypeOK
  <2> QED BY <1>2, <2>1, <2>2, <2>3 DEF pool
<1>5. ASSUME NEW x \in pool PROVE x \in MarkActive
  <2>1. PICK p \in Prios, i \in Slots : i < m_top[p] /\ m_queue[p][i] = x
    BY <1>2, <1>3, <1>5 DEF pool
  <2>2. i \in 0 .. m_top[p]-1
    BY <2>1, Facts DEF Slots, IInv, TypeOK
  <2> QED BY <2>1, <2>2 DEF MarkActive, Queued
<1>6. MarkActive = pool
  BY <1>4, <1>5
<1>7. UNCHANGED pool
  BY <1>1 DEF pool, Covered, Carries
<1> QED BY <1>1, <1>6, <1>7 DEF Pool!GlobalGC

(* Every step is one of the pool, or changes nothing there.                 *)
LEMMA PoolStep == ASSUME IInv, [Next]_vars PROVE [Pool!Next]_<<pool, alive, roots>>
<1>1. ASSUME NEW w \in Workers, NEW p \in Prios, NEW x \in Terms, PushRead(w, p, x)
      PROVE  Pool!Next
  BY <1>1, PushesToPool DEF Pool!Next
<1>2. ASSUME NEW w \in Workers,
             PushSlot(w) \/ PushTop(w) \/ PopStart(w) \/ PopNext(w) \/ PopNull(w)
               \/ PopRead(w) \/ PopSlot(w)
      PROVE  Pool!Next
  BY <1>2, MovesInPool DEF Pool!Next
<1>3. ASSUME NEW w \in Workers, PopTop(w) PROVE Pool!Next
  BY <1>3, PopsFromPool DEF Pool!Next
<1>4. ASSUME NEW x \in Terms, NewTerm(x) \/ Drop(x) PROVE Pool!Next
  <2>1. UNCHANGED <<m_top, m_queue, pc, prio, top, t>>
    BY <1>4 DEF NewTerm, Drop, queueVars, localVars
  <2>2. UNCHANGED pool
    BY <2>1 DEF pool, Covered, Carries
  <2> QED BY <1>4, <2>2 DEF NewTerm, Drop, Pool!NewTerm, Pool!Drop, Pool!Next
<1>5. CASE GlobalGC
  BY <1>5, CollectsAroundPool DEF Pool!Next
<1>6. CASE UNCHANGED vars
  BY <1>6 DEF vars, pool, Covered, Carries
<1> QED BY <1>1, <1>2, <1>3, <1>4, <1>5, <1>6, PoppersAssumption DEF Next, Push, Pop, PushOverflow

(* In every build, for any number of workers, priorities and slots: what    *)
(* Pop returns was pushed, and everything that can still come out of the    *)
(* queue, by a late write of m_top too, is kept by the collector            *)
(* (worker.h:92-134).                                                       *)
THEOREM ImplementsPool == Spec => IsPool
<1>1. Init => Pool!Init
  <2> SUFFICES ASSUME Init PROVE Pool!Init
    OBVIOUS
  <2>1. \A p \in Prios, i \in Slots : m_queue[p][i] = NULL
    BY DEF Init
  <2>2. \A w \in Workers : ~Carries(w)
    BY DEF Init, Carries, PushPC
  <2> QED BY <2>1, <2>2, Facts DEF Init, pool, Pool!Init
<1>2. IInv /\ [Next]_vars => [Pool!Next]_<<pool, alive, roots>>
  BY PoolStep
<1> QED BY <1>1, <1>2, Invariance, PTL DEF Spec, IsPool, Pool!Spec
==============================================================================
