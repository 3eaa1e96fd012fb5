------------------------------ MODULE TermQueue ------------------------------
(***************************************************************************)
(* The queue of sparks of worker.h: P arrays of N slots, each with a top   *)
(* index, on which every worker pushes (Worker::Enqueue) and the non-main  *)
(* workers pop (Worker::RunQueue).  By default no lock protects it: Push   *)
(* and Pop read m_top, use a slot and write m_top back, and two of them in *)
(* flight lose a term or hand it out twice.  What must hold all the same   *)
(* is that a pop never returns NULL or a term the collector has freed, and *)
(* that the queue empties.  With term_queue_atomic a mutex per priority    *)
(* makes it a real stack (TermStack).                                      *)
(*                                                                         *)
(* Terms are opaque here.  `alive' are the allocated ones and `roots' the  *)
(* ones the workers' evaluations reach; both belong to the environment.    *)
(* An address can be reused: a dead term may be allocated again.           *)
(***************************************************************************)
EXTENDS Integers

CONSTANTS Workers,            \* all workers, the main thread included
          Poppers,            \* the workers that run RunQueue
          Terms,              \* addresses of global terms
          NULL,               \* the null pointer
          NOBODY,             \* "mutex not locked"
          N,                  \* Config::term_queue_size
          P,                  \* template argument of TermQueue (2 in worker.h:141)
          term_queue_atomic   \* Config::term_queue_atomic

ASSUME NAssumption == N \in Nat \ {0}
ASSUME PAssumption == P \in Nat \ {0}
ASSUME PoppersAssumption == Poppers \subseteq Workers
ASSUME NullAssumption == NULL \notin Terms
ASSUME NobodyAssumption == NOBODY \notin Workers
ASSUME AtomicAssumption == term_queue_atomic \in BOOLEAN

VARIABLES m_lock,    \* m_lock[p]: owner of the mutex of priority p
          m_top,     \* m_top[p]: number of terms on priority p
          m_queue,   \* m_queue[p][i]: slot i of priority p
          pc,        \* where each worker is in Push or Pop
          prio,      \* local `prio' of Push and Pop
          top,       \* local `top' of Push and Pop
          t,         \* argument `t' of Push, local `res' of Pop
          alive,     \* terms that are allocated
          roots      \* terms some worker's evaluation holds

queueVars == <<m_lock, m_top, m_queue>>
localVars == <<pc, prio, top, t>>
heapVars  == <<alive, roots>>
vars == <<m_lock, m_top, m_queue, pc, prio, top, t, alive, roots>>

Prios == 0 .. P-1
Slots == 0 .. N-1

PushPC == {"push_slot", "push_top"}
PopPC  == {"pop", "pop_slot", "pop_top"}

(* Types; the bounds of m_top and of the local copies of it are the array  *)
(* bounds of m_queue (worker.h:96-99, 114-116).                            *)
TypeOK ==
  /\ m_lock \in [Prios -> Workers \cup {NOBODY}]
  /\ m_top \in [Prios -> 0 .. N]
  /\ m_queue \in [Prios -> [Slots -> Terms \cup {NULL}]]
  /\ pc \in [Workers -> {"idle"} \cup PushPC \cup PopPC]
  /\ prio \in [Workers -> Prios]
  /\ top \in [Workers -> 0 .. N]
  /\ t \in [Workers -> Terms \cup {NULL}]
  /\ alive \subseteq Terms
  /\ roots \subseteq alive

Init ==
  /\ m_lock = [p \in Prios |-> NOBODY]
  /\ m_top = [p \in Prios |-> 0]
  /\ m_queue = [p \in Prios |-> [i \in Slots |-> NULL]]
  /\ pc = [w \in Workers |-> "idle"]
  /\ prio = [w \in Workers |-> 0]
  /\ top = [w \in Workers |-> 0]
  /\ t = [w \in Workers |-> NULL]
  /\ alive = {}
  /\ roots = {}

-----------------------------------------------------------------------------
(* TermQueueLock<true> is a mutex, TermQueueLock<false> does nothing.      *)
(* Taking it is merged with the read of m_top, releasing it with the write *)
(* of m_top: nobody else can touch the priority in between.                *)
Free_Unlocked(p) == TRUE

Free(p) == term_queue_atomic => m_lock[p] = NOBODY
Lock(p, w) == m_lock' = IF term_queue_atomic THEN [m_lock EXCEPT ![p] = w] ELSE m_lock
Unlock(p) == m_lock' = IF term_queue_atomic THEN [m_lock EXCEPT ![p] = NOBODY] ELSE m_lock

Goto(w, l) == pc' = [pc EXCEPT ![w] = l]

Room_OffByOne(p) == m_top[p] <= N

Room(p) == m_top[p] < N

(* Push(x,p) up to the read of m_top.  The caller holds x in a Term_ref.   *)
PushRead(w, p, x) ==
  /\ pc[w] = "idle" /\ x \in roots
  /\ Free(p) /\ Lock(p, w)
  /\ Room(p)
  /\ top' = [top EXCEPT ![w] = m_top[p]]
  /\ prio' = [prio EXCEPT ![w] = p]
  /\ t' = [t EXCEPT ![w] = x]
  /\ Goto(w, "push_slot")
  /\ UNCHANGED <<m_top, m_queue, heapVars>>

(* Push on a full queue drops the term.                                    *)
PushOverflow(w, p, x) ==
  /\ pc[w] = "idle" /\ x \in roots
  /\ Free(p) /\ ~Room(p)
  /\ UNCHANGED vars

PushSlot(w) ==
  /\ pc[w] = "push_slot"
  /\ m_queue' = [m_queue EXCEPT ![prio[w]][top[w]] = t[w]]
  /\ Goto(w, "push_top")
  /\ UNCHANGED <<m_lock, m_top, prio, top, t, heapVars>>

(* The return of Push or Pop.                                              *)
Return(w) ==
  /\ Goto(w, "idle")
  /\ prio' = [prio EXCEPT ![w] = 0]
  /\ top' = [top EXCEPT ![w] = 0]
  /\ t' = [t EXCEPT ![w] = NULL]

PushTop(w) ==
  /\ pc[w] = "push_top"
  /\ m_top' = [m_top EXCEPT ![prio[w]] = top[w] + 1]
  /\ Unlock(prio[w])
  /\ Return(w)
  /\ UNCHANGED <<m_queue, heapVars>>

-----------------------------------------------------------------------------
PopStart(w) ==
  /\ pc[w] = "idle"
  /\ Goto(w, "pop")
  /\ UNCHANGED <<queueVars, prio, top, t, heapVars>>

(* This priority is empty: try the next one,                               *)
PopNext(w) ==
  /\ pc[w] = "pop" /\ prio[w] + 1 < P
  /\ Free(prio[w]) /\ m_top[prio[w]] = 0
  /\ prio' = [prio EXCEPT ![w] = @ + 1]
  /\ UNCHANGED <<queueVars, pc, top, t, heapVars>>

(* or, if it was the last, return NULL.                                    *)
PopNull(w) ==
  /\ pc[w] = "pop" /\ prio[w] + 1 = P
  /\ Free(prio[w]) /\ m_top[prio[w]] = 0
  /\ Return(w)
  /\ UNCHANGED <<queueVars, heapVars>>

PopRead(w) ==
  /\ pc[w] = "pop"
  /\ Free(prio[w]) /\ Lock(prio[w], w)
  /\ m_top[prio[w]] > 0
  /\ top' = [top EXCEPT ![w] = m_top[prio[w]]]
  /\ Goto(w, "pop_slot")
  /\ UNCHANGED <<m_top, m_queue, prio, t, heapVars>>

PopSlot(w) ==
  /\ pc[w] = "pop_slot"
  /\ t' = [t EXCEPT ![w] = m_queue[prio[w]][top[w] - 1]]
  /\ Goto(w, "pop_top")
  /\ UNCHANGED <<queueVars, prio, top, heapVars>>

PopTop_KeepTop(w) ==
  /\ pc[w] = "pop_top"
  /\ m_top' = [m_top EXCEPT ![prio[w]] = top[w]]
  /\ Unlock(prio[w])
  /\ roots' = roots \cup ({t[w]} \ {NULL})
  /\ Return(w)
  /\ UNCHANGED <<m_queue, alive>>

(* The caller stores the result in a Term_ptr and so holds it (RunQueue).  *)
PopTop(w) ==
  /\ pc[w] = "pop_top"
  /\ m_top' = [m_top EXCEPT ![prio[w]] = top[w] - 1]
  /\ Unlock(prio[w])
  /\ roots' = roots \cup ({t[w]} \ {NULL})
  /\ Return(w)
  /\ UNCHANGED <<m_queue, alive>>

-----------------------------------------------------------------------------
(* The environment: Globalize of a new term, the end of its last use, and  *)
(* the global collection.                                                  *)
NewTerm(x) ==
  /\ x \notin alive
  /\ alive' = alive \cup {x}
  /\ roots' = roots \cup {x}
  /\ UNCHANGED <<queueVars, localVars>>

Drop(x) ==
  /\ x \in roots
  /\ \A w \in Workers : pc[w] \in PushPC => t[w] # x
  /\ roots' = roots \ {x}
  /\ UNCHANGED <<queueVars, localVars, alive>>

(* The terms MarkActive reports to the collector.                          *)
Queued(p) == {m_queue[p][i] : i \in 0 .. m_top[p]-1}

MarkActive_SkipTop == UNION { {m_queue[p][i] : i \in 0 .. m_top[p]-2} : p \in Prios }

MarkActive == UNION { Queued(p) : p \in Prios }

Stopped_MainOnly == \A w \in Workers \ Poppers : pc[w] = "idle"

(* Every worker takes part in a global collection from InspectState, which *)
(* none of them calls from within Push or Pop.                             *)
Stopped == \A w \in Workers : pc[w] = "idle"

GlobalGC ==
  /\ Stopped
  /\ alive' = alive \cap (roots \cup MarkActive)
  /\ UNCHANGED <<queueVars, localVars, roots>>

-----------------------------------------------------------------------------
Push(w) ==
  \/ \E p \in Prios, x \in Terms : PushRead(w, p, x) \/ PushOverflow(w, p, x)
  \/ PushSlot(w)
  \/ PushTop(w)

Pop(w) == PopStart(w) \/ PopNext(w) \/ PopNull(w) \/ PopRead(w) \/ PopSlot(w) \/ PopTop(w)

Next ==
  \/ \E w \in Workers : Push(w)
  \/ \E w \in Poppers : Pop(w)
  \/ \E x \in Terms : NewTerm(x) \/ Drop(x)
  \/ GlobalGC

Spec == Init /\ [][Next]_vars

(* A popper keeps calling Pop as long as the system evaluates, and a       *)
(* worker in Push or Pop runs on.  Nobody has to start a Push.             *)
FairSpec ==
  /\ Spec
  /\ \A w \in Poppers : WF_vars(Pop(w))
  /\ \A w \in Workers : WF_vars(PushSlot(w) \/ PushTop(w))

-----------------------------------------------------------------------------
(* No entry below m_top is NULL or points to freed memory, whatever pushes *)
(* and pops raced: the assertion and the validation of MarkActive          *)
(* (worker.h:130-131) never fail.  A late write of m_top makes entries     *)
(* reappear that were popped before, so this needs the collector to wait   *)
(* for every Push and Pop in flight.                                       *)
QueueAlive == \A p \in Prios : Queued(p) \subseteq alive

(* Every entry that a write of m_top still in flight can bring back into   *)
(* the queue is allocated as well: a worker that read m_top and has not    *)
(* written it yet (worker.h:95-99, 110-116) restores the entries below the *)
(* value it read, those that others popped meanwhile included.             *)
InFlight == PushPC \cup {"pop_slot", "pop_top"}
InFlightAlive ==
  \A w \in Workers :
    /\ pc[w] \in InFlight => \A i \in 0 .. top[w]-1 : m_queue[prio[w]][i] \in alive
    /\ pc[w] = "push_top" => m_queue[prio[w]][top[w]] \in alive

(* What a Pop is about to return is an allocated term, never NULL or a     *)
(* dangling pointer: RunQueue calls FullReduce on it (worker.h:254).       *)
PopAlive == \A w \in Workers : pc[w] = "pop_top" => t[w] \in alive

(* Once nobody pushes any more the queue empties for good, although a      *)
(* pop that was overtaken raises m_top again.                              *)
Quiet == \A w \in Workers : pc[w] \notin PushPC
Empty == \A p \in Prios : m_top[p] = 0
QueueDrains == <>[]Quiet => <>[]Empty

(* The slots that belong to the queue: those below m_top, and those that a *)
(* write of m_top in flight will put below it.                             *)
Covered(p, i) ==
  \/ i < m_top[p]
  \/ \E w \in Workers :
       /\ pc[w] \in InFlight /\ prio[w] = p
       /\ i < top[w] \/ (pc[w] = "push_top" /\ i = top[w])
Carries(w) == pc[w] \in PushPC \cup {"pop_top"}
pool ==
  {x \in Terms :
     \/ \E p \in Prios, i \in Slots : Covered(p, i) /\ m_queue[p][i] = x
     \/ \E w \in Workers : Carries(w) /\ t[w] = x}

(* With locks or without, whatever pushes and pops race (worker.h:92-134): *)
(* nothing comes out that was not pushed, and nothing that can still come  *)
(* out is freed.                                                           *)
Pool == INSTANCE SparkPool
IsPool == Pool!Spec

(* In atomic mode a worker between its read and its write of m_top owns    *)
(* the mutex and its copy of m_top is current.                             *)
Exclusive ==
  term_queue_atomic =>
    \A w \in Workers : pc[w] \in InFlight => m_lock[prio[w]] = w /\ top[w] = m_top[prio[w]]

(* In atomic mode a mutex is held by a worker that will write the m_top of *)
(* its priority, and by nobody who looks for another one: Push on a full   *)
(* array and Pop from an empty one have given it back (worker.h:94-121).   *)
HolderGoesOn ==
  term_queue_atomic =>
    \A p \in Prios : m_lock[p] # NOBODY =>
      m_lock[p] \in Workers /\ pc[m_lock[p]] \in InFlight /\ prio[m_lock[p]] = p

(* What TermStack shows of a worker: the term it pushes from the read of   *)
(* m_top on, and the term a Pop has read from its slot (worker.h:115)      *)
(* until it returns it.  A push on a full array and a pop that finds       *)
(* nothing are stuttering steps.                                           *)
held ==
  [w \in Workers |->
     CASE pc[w] \in PushPC -> [op |-> "push", prio |-> prio[w], term |-> t[w]]
       [] pc[w] = "pop_top" -> [op |-> "pop", prio |-> prio[w], term |-> t[w]]
       [] OTHER -> [op |-> "none"]]

(* The stack of a priority: its entries, without the one that a Pop has    *)
(* read and not yet removed.                                               *)
Taken(p) == \E w \in Workers : pc[w] = "pop_top" /\ prio[w] = p
Height(p) == IF Taken(p) THEN m_top[p] - 1 ELSE m_top[p]
entries == [p \in Prios |-> [i \in 1 .. Height(p) |-> m_queue[p][i-1]]]

(* In atomic mode the queue is a stack per priority: every term pushed     *)
(* with room is on it when Push returns, every term a Pop returns is the   *)
(* youngest, and it is off the stack before anybody else can see it.       *)
Stack == INSTANCE TermStack WITH stack <- entries, hand <- held
IsStack == Stack!Spec
==============================================================================
