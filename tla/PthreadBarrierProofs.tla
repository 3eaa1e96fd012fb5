------------------------ MODULE PthreadBarrierProofs ------------------------
(***************************************************************************)
(* barrier.h implements the native barrier for any number of threads, as   *)
(* long as pthread_cond_wait returns only when it is woken.                *)
(***************************************************************************)
EXTENDS PthreadBarrier, FiniteSetTheorems, TLAPS

PCs == {"out", "locked", "waiting", "woken", "ret_0", "ret_serial"}

(* A thread that is in the critical section owns the mutex.                *)
Owner == \A w \in Threads : pc[w] = "locked" => mutex = w

IInv == TypeOK /\ Owner /\ CountWaiting

(* The constants: there is a first thread, and NOBODY is none.             *)
LEMMA Facts == /\ IsFiniteSet(Threads) /\ NOBODY \notin Threads
               /\ tripCount \in Nat /\ tripCount > 0
<1>1. IsFiniteSet(Threads) /\ Threads # {} /\ NOBODY \notin Threads
  BY ThreadsAssumption, NobodyAssumption
<1> QED
  BY <1>1, FS_CardinalityType, FS_EmptySet DEF tripCount

(* Every set of threads at a place is finite.                              *)
LEMMA AtFinite == ASSUME NEW l PROVE IsFiniteSet(At(l)) /\ Cardinality(At(l)) \in Nat
<1>1. At(l) \subseteq Threads
  BY DEF At
<1> QED
  BY <1>1, Facts, FS_Subset, FS_CardinalityType

(* Initially nobody is blocked.                                            *)
LEMMA InitIInv == Init => IInv
<1> SUFFICES ASSUME Init PROVE IInv
  OBVIOUS
<1>1. At("waiting") = {}
  BY DEF Init, At
<1> QED
  BY <1>1, Facts, FS_EmptySet DEF Init, IInv, TypeOK, Owner, CountWaiting

(* The counter follows the set of blocked threads.                         *)
LEMMA NextIInv == IInv /\ [Next]_vars => IInv'
<1> SUFFICES ASSUME IInv, [Next]_vars PROVE IInv'
  OBVIOUS
<1> USE Facts DEF IInv, TypeOK, Owner
<1>1. ASSUME NEW w \in Threads, Lock(w) \/ Relock(w) \/ Return(w) PROVE IInv'
  <2>1. At("waiting")' = At("waiting") /\ count' = count
    BY <1>1 DEF Lock, Relock, Return, At
  <2>2. TypeOK' /\ Owner'
    BY <1>1 DEF Lock, Relock, Return
  <2> QED
    BY <2>1, <2>2 DEF CountWaiting
<1>2. ASSUME NEW w \in Threads, Wait(w) PROVE IInv'
  <2>1. At("waiting")' = At("waiting") \cup {w} /\ w \notin At("waiting")
    BY <1>2 DEF Wait, At
  <2>2. Cardinality(At("waiting")') = Cardinality(At("waiting")) + 1
    BY <2>1, AtFinite, FS_AddElement
  <2>3. TypeOK' /\ Owner'
    BY <1>2 DEF Wait, Full
  <2> QED
    BY <1>2, <2>2, <2>3 DEF Wait, CountWaiting
<1>3. ASSUME NEW w \in Threads, Trip(w) PROVE IInv'
  <2>1. At("waiting")' = {}
    BY <1>3 DEF Trip, Broadcast, At
  <2>2. TypeOK' /\ Owner'
    BY <1>3 DEF Trip, Broadcast, Reset
  <2> QED
    BY <1>3, <2>1, <2>2, FS_EmptySet DEF Trip, Reset, CountWaiting
<1>4. CASE UNCHANGED vars
  BY <1>4 DEF vars, CountWaiting, At
<1> QED
  BY <1>1, <1>2, <1>3, <1>4 DEF Next, Step

(* barrier->count is the number of blocked threads in every state.         *)
THEOREM CountIsWaiting == Spec => []CountWaiting
<1>1. IInv => CountWaiting
  BY DEF IInv
<1> QED
  BY InitIInv, NextIInv, <1>1, PTL DEF Spec

(* The counter stays below tripCount outside of the critical section.      *)
THEOREM TypeCorrect == Spec => []TypeOK
<1>1. IInv => TypeOK
  BY DEF IInv
<1> QED
  BY InitIInv, NextIInv, <1>1, PTL DEF Spec

-----------------------------------------------------------------------------
(* The counter says whether everybody else is blocked.                     *)
LEMMA FullIsLast ==
  ASSUME IInv, NEW w \in Threads, pc[w] = "locked"
  PROVE  Full <=> At("waiting") \cup {w} = Threads
<1>1. At("waiting") \cup {w} \subseteq Threads /\ w \notin At("waiting")
  BY DEF At
<1>2. Cardinality(At("waiting") \cup {w}) = count + 1
  BY <1>1, AtFinite, FS_AddElement DEF IInv, CountWaiting
<1>3. CASE At("waiting") \cup {w} = Threads
  <2>1. tripCount = count + 1
    BY <1>2, <1>3 DEF tripCount
  <2> QED
    BY <1>3, <2>1, Facts DEF Full
<1>4. CASE At("waiting") \cup {w} # Threads
  <2>1. count + 1 < tripCount
    <3>1. /\ Cardinality(At("waiting") \cup {w}) <= Cardinality(Threads)
          /\ Cardinality(At("waiting") \cup {w}) # Cardinality(Threads)
      BY <1>1, <1>4, Facts, FS_Subset
    <3> QED
      BY <1>2, <3>1, Facts DEF tripCount, IInv, TypeOK
  <2>2. ~Full
    BY <2>1, Facts DEF Full, IInv, TypeOK
  <2> QED
    BY <1>4, <2>2
<1> QED
  BY <1>3, <1>4

(* Every step is a step of the native barrier or changes nothing there.    *)
LEMMA BarrierStep ==
  ASSUME IInv, [Next]_vars
  PROVE  [Native!Next]_(Native!barrierVars)
<1> USE DEF IInv, TypeOK
<1>1. ASSUME NEW w \in Threads, Lock(w) \/ Relock(w)
      PROVE  UNCHANGED Native!barrierVars
  BY <1>1 DEF Lock, Relock, At, Native!barrierVars
<1>2. ASSUME NEW w \in Threads, Wait(w) PROVE Native!Arrive(w)
  <2>1. ~(At("waiting") \cup {w} = Threads)
    BY <1>2, FullIsLast DEF Wait
  <2>2. At("waiting")' = At("waiting") \cup {w}
    BY <1>2 DEF Wait, At
  <2>3. UNCHANGED <<At("woken"), At("ret_0"), At("ret_serial")>>
    BY <1>2 DEF Wait, At
  <2>4. w \notin At("waiting") \cup At("woken") \cup At("ret_0") \cup At("ret_serial")
    BY <1>2 DEF Wait, At
  <2> QED
    BY <2>1, <2>2, <2>3, <2>4 DEF Native!Arrive, Native!Last
<1>3. ASSUME NEW w \in Threads, Trip(w) PROVE Native!Trip(w)
  <2>1. At("waiting") \cup {w} = Threads
    BY <1>3, FullIsLast DEF Trip
  <2>2. \A v \in Threads : v = w \/ pc[v] = "waiting"
    BY <2>1 DEF At
  <2>3. /\ At("waiting")' = {} /\ At("ret_serial")' = {w}
        /\ (At("woken") \cup At("ret_0") \cup At("ret_serial"))' = Threads
    BY <1>3, <2>2 DEF Trip, Broadcast, At
  <2>4. w \notin At("waiting") \cup At("woken") \cup At("ret_0") \cup At("ret_serial")
    BY <1>3 DEF Trip, At
  <2>5. At("woken") = {} /\ At("ret_0") = {} /\ At("ret_serial") = {}
    BY <1>3, <2>2 DEF Trip, At
  <2> QED
    BY <2>1, <2>3, <2>4, <2>5 DEF Native!Trip, Native!Last
<1>4. ASSUME NEW w \in Threads, Return(w) PROVE Native!Leave(w)
  BY <1>4 DEF Return, At, Native!Leave
<1>5. CASE UNCHANGED vars
  BY <1>5 DEF vars, At, Native!barrierVars
<1> QED
  BY <1>1, <1>2, <1>3, <1>4, <1>5 DEF Next, Step, Native!Next

(* Without spurious wake-ups barrier.h is the native barrier.              *)
THEOREM ImplementsNative == Spec => IsBarrier
<1>1. Init => Native!Init
  BY DEF Init, Native!Init, At
<1>2. IInv /\ [Next]_vars => [Native!Next]_(Native!barrierVars)
  BY BarrierStep
<1> QED
  BY InitIInv, NextIInv, <1>1, <1>2, PTL DEF Spec, IsBarrier, Native!Spec

-----------------------------------------------------------------------------
(* The mutex belongs to the thread in the critical section.                *)
Held == mutex # NOBODY => pc[mutex] = "locked"

LEMMA AlwaysHeld == Spec => []Held
<1>1. Init => Held
  BY DEF Init, Held
<1>2. TypeOK /\ Held /\ [Next]_vars => Held'
  <2> SUFFICES ASSUME TypeOK, Held, [Next]_vars PROVE Held'
    OBVIOUS
  <2> USE DEF TypeOK, Held
  <2>1. ASSUME NEW w \in Threads, Lock(w) PROVE Held'
    BY <2>1 DEF Lock
  <2>2. ASSUME NEW w \in Threads, Wait(w) \/ Trip(w) PROVE Held'
    BY <2>2 DEF Wait, Trip
  <2>3. ASSUME NEW w \in Threads, Relock(w) \/ Return(w) PROVE Held'
    BY <2>3, NobodyAssumption DEF Relock, Return
  <2>4. CASE UNCHANGED vars
    BY <2>4 DEF vars
  <2> QED BY <2>1, <2>2, <2>3, <2>4 DEF Next, Step
<1> QED BY <1>1, <1>2, TypeCorrect, PTL DEF Spec

(* Any number of threads never all wait in barrier.h: the counter leaves   *)
(* no room for the last one to block (barrier.h:57-76).                    *)
THEOREM NobodyIsStuck == Spec => []NobodyStuck
<1>1. IInv /\ Held => NobodyStuck
  <2> SUFFICES ASSUME IInv, Held PROVE NobodyStuck
    OBVIOUS
  <2>1. CASE mutex # NOBODY
    BY <2>1 DEF NobodyStuck, CanStep, Held, IInv, TypeOK
  <2>2. CASE mutex = NOBODY
    <3>1. At("waiting") # Threads
      BY Facts DEF IInv, TypeOK, CountWaiting, tripCount
    <3>2. PICK w \in Threads : pc[w] # "waiting"
      BY <3>1 DEF At
    <3> QED BY <2>2, <3>2 DEF NobodyStuck, CanStep, IInv, TypeOK
  <2> QED BY <2>1, <2>2
<1> QED BY InitIInv, NextIInv, AlwaysHeld, <1>1, PTL DEF Spec
==============================================================================
