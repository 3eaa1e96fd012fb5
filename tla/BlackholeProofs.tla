---------------------------- MODULE BlackholeProofs ----------------------------
(* Proofs about the blackholes, for any number of workers and any acyclic  *)
(* graph of terms.                                                         *)
EXTENDS Blackhole, WellFoundedInduction, TLAPS

(* With the compare-and-swap, who calculates a blackhole holds its mark,   *)
(* and nobody else calculates it.                                          *)
Marked ==
  atomic_indir => \A w \in Workers, h \in Holes : Calculates(w, h) => m_result[h] = "calculating"

IInv == TypeOK /\ MarkOwned /\ Marked /\ OneCalculator

(* Initially nobody calculates and nothing is marked.                      *)
LEMMA InitIInv == Init => IInv
<1> SUFFICES ASSUME Init PROVE IInv
  OBVIOUS
<1>1. TypeOK
  BY MainAssumption DEF Init, TypeOK, Frames
<1>2. MarkOwned
  BY DEF Init, MarkOwned
<1>3. Marked /\ OneCalculator
  BY DEF Init, Marked, OneCalculator, Calculates
<1> QED BY <1>1, <1>2, <1>3 DEF IInv

(* A step that moves one frame of one worker and leaves the results alone, *)
(* to or from the calculation only where the mark has been dealt with,     *)
(* preserves the invariant.                                                *)
LEMMA MoveFrame ==
  ASSUME IInv, NEW w \in Workers, NEW h \in Holes, NEW l \in Frames,
         Goto(w, h, l), UNCHANGED <<m_result, atomic_indir>>,
         forced' \in [Workers -> [Holes -> BOOLEAN]],
         \A v \in Workers, d \in Holes :
           (v # w \/ d # h) => (at[v][d] = "check" => forced'[v][d] = forced[v][d]),
         l = "check" => ~forced'[w][h],
         l \in {"calc", "finish", "set_done"} => Calculates(w, h),
         Calculates(w, h) => l \in {"calc", "finish", "set_done"} \/ m_result[h] = "done"
  PROVE  IInv'
<1>1. at' \in [Workers -> [Holes -> Frames]]
  BY DEF IInv, TypeOK, Goto
<1>2. /\ at'[w][h] = l
      /\ \A v \in Workers, d \in Holes : (v # w \/ d # h) => at'[v][d] = at[v][d]
  BY DEF IInv, TypeOK, Goto
<1>3. \A v \in Workers, d \in Holes : Calculates(v, d)' => Calculates(v, d)
  BY <1>2 DEF Calculates
<1>4. \A v \in Workers, d \in Holes : Calculates(v, d) /\ m_result[d] # "done" => Calculates(v, d)'
  BY <1>2 DEF Calculates
<1>5. TypeOK'
  BY <1>1, <1>2 DEF IInv, TypeOK
<1>6. MarkOwned'
  BY <1>4 DEF IInv, MarkOwned
<1>7. Marked' /\ OneCalculator'
  BY <1>3 DEF IInv, Marked, OneCalculator
<1> QED BY <1>5, <1>6, <1>7 DEF IInv

(* Setting the mark: by compare-and-swap only where there was none, so     *)
(* that, atomically, nobody can have been calculating.                     *)
LEMMA SetCalculatingIInv ==
  ASSUME IInv, NEW w \in Workers, NEW h \in Holes, SetCalculating(w, h)
  PROVE  IInv'
<1>1. CASE UNCHANGED m_result /\ Goto(w, h, "stall")
  <2>1. "stall" \in Frames /\ ~Calculates(w, h)
    BY DEF Frames, Calculates, SetCalculating, Top
  <2>2. UNCHANGED <<forced, atomic_indir>>
    BY DEF SetCalculating
  <2> QED BY <1>1, <2>1, <2>2, MoveFrame DEF IInv, TypeOK
<1>2. CASE /\ atomic_indir => m_result[h] = "noresult"
           /\ m_result' = [m_result EXCEPT ![h] = "calculating"]
           /\ Goto(w, h, "calc")
  <2>1. /\ at' \in [Workers -> [Holes -> Frames]]
        /\ at'[w][h] = "calc"
        /\ \A v \in Workers, d \in Holes : (v # w \/ d # h) => at'[v][d] = at[v][d]
    BY <1>2 DEF IInv, TypeOK, Goto, Frames
  <2>2. /\ m_result' \in [Holes -> {"noresult", "calculating", "done"}]
        /\ m_result'[h] = "calculating"
        /\ \A d \in Holes : d # h => m_result'[d] = m_result[d]
    BY <1>2 DEF IInv, TypeOK
  <2>0. UNCHANGED <<forced, atomic_indir>>
    BY DEF SetCalculating
  <2>3. TypeOK'
    BY <2>1, <2>2, <2>0 DEF IInv, TypeOK
  <2>4. Calculates(w, h)'
    BY <2>1 DEF Calculates
  <2>5. \A v \in Workers, d \in Holes : (v # w \/ d # h) => (Calculates(v, d)' <=> Calculates(v, d))
    BY <2>1 DEF Calculates
  <2>6. MarkOwned'
    <3> SUFFICES ASSUME NEW d \in Holes, m_result'[d] = "calculating"
                 PROVE  \E v \in Workers : Calculates(v, d)'
      BY DEF MarkOwned
    <3>1. CASE d = h
      BY <3>1, <2>4
    <3>2. CASE d # h
      BY <3>2, <2>2, <2>5 DEF IInv, MarkOwned
    <3> QED BY <3>1, <3>2
  <2>7. Marked'
    BY <2>2, <2>5, <2>0 DEF IInv, Marked
  <2>8. OneCalculator'
    <3> SUFFICES ASSUME atomic_indir, NEW d \in Holes, NEW u \in Workers, NEW v \in Workers,
                        Calculates(u, d)', Calculates(v, d)'
                 PROVE  u = v
      BY <2>0 DEF OneCalculator
    <3>1. CASE d = h
      <4>1. \A x \in Workers : ~Calculates(x, h)
        BY <1>2, <2>0 DEF IInv, Marked
      <4> QED BY <3>1, <4>1, <2>5
    <3>2. CASE d # h
      BY <3>2, <2>5, <2>0 DEF IInv, OneCalculator
    <3> QED BY <3>1, <3>2
  <2> QED BY <2>3, <2>6, <2>7, <2>8 DEF IInv
<1> QED BY <1>1, <1>2 DEF SetCalculating

(* Storing the result ends the calculation by the worker that does it; the *)
(* others that may still calculate, without the compare-and-swap, find a   *)
(* result there.                                                           *)
LEMMA SetDoneIInv ==
  ASSUME IInv, NEW w \in Workers, NEW h \in Holes, SetDone(w, h)
  PROVE  IInv'
<1>1. PICK l \in {"use", "none"} : Goto(w, h, l)
  BY DEF SetDone, Return
<1>2. /\ at' \in [Workers -> [Holes -> Frames]]
      /\ at'[w][h] = l
      /\ \A v \in Workers, d \in Holes : (v # w \/ d # h) => at'[v][d] = at[v][d]
  BY <1>1 DEF IInv, TypeOK, Goto, Frames
<1>3. /\ m_result' \in [Holes -> {"noresult", "calculating", "done"}]
      /\ m_result'[h] = "done"
      /\ \A d \in Holes : d # h => m_result'[d] = m_result[d]
  BY DEF IInv, TypeOK, SetDone
<1>0. UNCHANGED <<forced, atomic_indir>>
  BY DEF SetDone
<1>4. TypeOK'
  BY <1>2, <1>3, <1>0 DEF IInv, TypeOK
<1>5. ~Calculates(w, h)' /\ Calculates(w, h)
  BY <1>2 DEF Calculates, SetDone, Top
<1>6. \A v \in Workers, d \in Holes : (v # w \/ d # h) => (Calculates(v, d)' <=> Calculates(v, d))
  BY <1>2 DEF Calculates
<1>7. MarkOwned'
  BY <1>3, <1>6 DEF IInv, MarkOwned
<1>8. OneCalculator'
  BY <1>5, <1>6, <1>0 DEF IInv, OneCalculator
<1>9. Marked'
  <2> SUFFICES ASSUME atomic_indir, NEW v \in Workers, NEW d \in Holes, Calculates(v, d)'
               PROVE  m_result'[d] = "calculating"
    BY <1>0 DEF Marked
  <2>1. Calculates(v, d) /\ d # h
    BY <1>5, <1>6, <1>0 DEF IInv, OneCalculator
  <2> QED BY <2>1, <1>0, <1>3 DEF IInv, Marked
<1> QED BY <1>4, <1>7, <1>8, <1>9 DEF IInv

(* Every step preserves the invariant.                                     *)
LEMMA NextIInv == IInv /\ [Next]_vars => IInv'
<1> SUFFICES ASSUME IInv, [Next]_vars PROVE IInv'
  OBVIOUS
<1> USE DEF Frames
<1>1. ASSUME NEW w \in Workers, NEW h \in Holes, WillBlock(w, h) PROVE IInv'
  <2>1. at[w][h] = "check" /\ ~Calculates(w, h) /\ forced' = forced
    BY <1>1 DEF WillBlock, Top, Calculates
  <2>2. PICK l \in {"none", "reduce"} : Goto(w, h, l)
    BY <1>1 DEF WillBlock
  <2>3. UNCHANGED <<m_result, atomic_indir>>
    BY <1>1 DEF WillBlock
  <2> QED BY <2>1, <2>2, <2>3, MoveFrame DEF IInv, TypeOK
<1>2. ASSUME NEW w \in Workers, NEW h \in Holes, Reduce(w, h) PROVE IInv'
  <2>1. ~Calculates(w, h) /\ forced' = forced
    BY <1>2 DEF Reduce, Top, Calculates
  <2>2. PICK l \in {"set", "stall", "use", "none"} : Goto(w, h, l)
    BY <1>2 DEF Reduce, Return
  <2>3. UNCHANGED <<m_result, atomic_indir>>
    BY <1>2 DEF Reduce
  <2> QED BY <2>1, <2>2, <2>3, MoveFrame DEF IInv, TypeOK
<1>3. ASSUME NEW w \in Workers, NEW h \in Holes, SetCalculating(w, h) PROVE IInv'
  BY <1>3, SetCalculatingIInv
<1>4. ASSUME NEW w \in Workers, NEW h \in Holes, NEW d \in Holes, NEW f \in BOOLEAN,
             Need(w, h, d, f)
      PROVE  IInv'
  <2>1. d < h /\ at[w][d] = "none" /\ ~Calculates(w, d)
    BY <1>4, NeedsAssumption DEF Need, Top, Calculates
  <2>2. PICK l \in {"reduce", "check"} : Goto(w, d, l) /\ (l = "check" => ~f)
    BY <1>4 DEF Need
  <2>3. UNCHANGED <<m_result, atomic_indir>>
    BY <1>4 DEF Need
  <2>4. /\ forced' \in [Workers -> [Holes -> BOOLEAN]]
        /\ forced'[w][d] = f
        /\ \A v \in Workers, e \in Holes : (v # w \/ e # d) => forced'[v][e] = forced[v][e]
    BY <1>4 DEF Need, IInv, TypeOK
  <2> QED BY <2>1, <2>2, <2>3, <2>4, MoveFrame
<1>5. ASSUME NEW w \in Workers, NEW h \in Holes, Calculated(w, h) PROVE IInv'
  <2>1. /\ Calculates(w, h) /\ forced' = forced
        /\ Goto(w, h, "finish") /\ UNCHANGED <<m_result, atomic_indir>>
    BY <1>5 DEF Calculated, Top, Calculates
  <2> QED BY <2>1, MoveFrame DEF IInv, TypeOK
<1>6. ASSUME NEW w \in Workers, NEW h \in Holes, Finish(w, h) PROVE IInv'
  <2>1. Calculates(w, h) /\ forced' = forced /\ UNCHANGED <<m_result, atomic_indir>>
    BY <1>6 DEF Finish, Top, Calculates
  <2>2. CASE m_result[h] = "done"
    <3>1. PICK l \in {"use", "none"} : Goto(w, h, l)
      BY <1>6, <2>2 DEF Finish, Return
    <3> QED BY <2>1, <2>2, <3>1, MoveFrame DEF IInv, TypeOK
  <2>3. CASE m_result[h] # "done"
    <3>1. Goto(w, h, "set_done")
      BY <1>6, <2>3 DEF Finish
    <3> QED BY <2>1, <3>1, MoveFrame DEF IInv, TypeOK
  <2> QED BY <2>2, <2>3
<1>7. ASSUME NEW w \in Workers, NEW h \in Holes, SetDone(w, h) PROVE IInv'
  BY <1>7, SetDoneIInv
<1>8. ASSUME NEW w \in Workers, NEW h \in Holes, Stall(w, h) \/ Used(w, h) PROVE IInv'
  <2>1. ~Calculates(w, h) /\ forced' = forced /\ UNCHANGED <<m_result, atomic_indir>>
    BY <1>8 DEF Stall, Used, Top, Calculates
  <2>2. PICK l \in {"use", "none"} : Goto(w, h, l)
    BY <1>8 DEF Stall, Used, Return
  <2> QED BY <2>1, <2>2, MoveFrame DEF IInv, TypeOK
<1>9. ASSUME NEW w \in Workers, NEW h \in Holes, Spark(w, h) PROVE IInv'
  <2>1. ~Calculates(w, h) /\ Goto(w, h, "check") /\ UNCHANGED <<m_result, atomic_indir>>
    BY <1>9 DEF Spark, Calculates
  <2>2. /\ forced' \in [Workers -> [Holes -> BOOLEAN]]
        /\ ~forced'[w][h]
        /\ \A v \in Workers, e \in Holes : (v # w \/ e # h) => forced'[v][e] = forced[v][e]
    BY <1>9 DEF Spark, IInv, TypeOK
  <2> QED BY <2>1, <2>2, MoveFrame
<1>10. CASE UNCHANGED vars
  BY <1>10 DEF vars, IInv, TypeOK, MarkOwned, Marked, OneCalculator, Calculates
<1> QED BY <1>1, <1>2, <1>3, <1>4, <1>5, <1>6, <1>7, <1>8, <1>9, <1>10
        DEF Next, Step, Terminated

(* The invariant holds throughout.                                         *)
THEOREM Invariance == Spec => []IInv
<1> QED BY InitIInv, NextIInv, PTL DEF Spec

(* The state stays well typed, and no forced evaluation gives up.          *)
THEOREM TypeCorrect == Spec => []TypeOK
<1>1. IInv => TypeOK
  BY DEF IInv
<1> QED BY <1>1, Invariance, PTL

(* A mark is never orphaned (term.h:906-910), with and without the         *)
(* compare-and-swap.                                                       *)
THEOREM MarkIsOwned == Spec => []MarkOwned
<1>1. IInv => MarkOwned
  BY DEF IInv
<1> QED BY <1>1, Invariance, PTL

(* With the compare-and-swap, a blackhole is calculated by one worker at a *)
(* time (term.h:1069-1077).                                                *)
THEOREM CalculatedOnce == Spec => []OneCalculator
<1>1. IInv => OneCalculator
  BY DEF IInv
<1> QED BY <1>1, Invariance, PTL

(* With the compare-and-swap, no result is stored over another: the        *)
(* assertion of term.h:1083.                                               *)
THEOREM NoResultTwice == Spec => []NoDuplicateWork
<1>1. IInv => NoDuplicateWork
  BY DEF IInv, Marked, NoDuplicateWork
<1> QED BY <1>1, Invariance, PTL

(* With the compare-and-swap, a result is never taken back                 *)
(* (term.h:1069-1077).                                                     *)
THEOREM ResultStays == Spec => DoneStays
<1> DEFINE Stays == atomic_indir =>
             \A h \in Holes : m_result[h] = "done" => m_result'[h] = "done"
<1>1. ASSUME IInv, [Next]_vars PROVE [Stays]_vars
  <2>1. ASSUME NEW w \in Workers, NEW h \in Holes, SetCalculating(w, h) PROVE Stays
    BY <1>1, <2>1 DEF SetCalculating, IInv, TypeOK
  <2>2. ASSUME NEW w \in Workers, NEW h \in Holes, SetDone(w, h) PROVE Stays
    BY <1>1, <2>2 DEF SetDone, IInv, TypeOK
  <2>3. CASE UNCHANGED <<m_result, atomic_indir>>
    BY <2>3
  <2> QED BY <1>1, <2>1, <2>2, <2>3
          DEF Next, Step, Terminated, Spark, WillBlock, Reduce, Need, Calculated, Finish,
              Stall, Used, vars
<1> QED BY <1>1, Invariance, PTL DEF Spec, DoneStays

-----------------------------------------------------------------------------
(* Whoever stalls met a mark or a result, and neither gives way to no      *)
(* result at all.                                                          *)
Stalled == \A w \in Workers, h \in Holes : at[w][h] = "stall" => m_result[h] # "noresult"

(* A result that is marked or there stays so.                              *)
LEMMA StaysMarked ==
  ASSUME TypeOK, [Next]_vars, NEW h \in Holes, m_result[h] # "noresult"
  PROVE  m_result'[h] # "noresult"
<1>1. ASSUME NEW w \in Workers, NEW d \in Holes, SetCalculating(w, d) \/ SetDone(w, d)
      PROVE  m_result'[h] # "noresult"
  BY <1>1 DEF TypeOK, SetCalculating, SetDone
<1>2. CASE UNCHANGED m_result
  BY <1>2
<1> QED BY <1>1, <1>2 DEF Next, Step, Terminated, Spark, WillBlock, Reduce, Need, Calculated,
                          Finish, Stall, Used, vars

(* A worker begins to stall where it met a mark, or lost the race for it.  *)
LEMMA BeginsToStall ==
  ASSUME TypeOK, [Next]_vars, NEW w \in Workers, NEW h \in Holes,
         at'[w][h] = "stall", at[w][h] # "stall"
  PROVE  m_result[h] # "noresult"
<1>1. ASSUME NEW v \in Workers, NEW d \in Holes, NEW l \in Frames,
             Goto(v, d, l), l = "stall" => m_result[d] # "noresult"
      PROVE  m_result[h] # "noresult"
  BY <1>1 DEF TypeOK, Goto
<1>2. CASE UNCHANGED at
  BY <1>2
<1>3. ASSUME NEW v \in Workers, NEW d \in Holes, Reduce(v, d) \/ SetCalculating(v, d)
      PROVE  m_result[h] # "noresult"
  BY <1>1, <1>3 DEF Reduce, SetCalculating, Return, Frames
<1>4. ASSUME NEW v \in Workers, NEW d \in Holes, NEW e \in Holes, NEW f \in BOOLEAN,
             Need(v, d, e, f)
      PROVE  m_result[h] # "noresult"
  BY <1>1, <1>4 DEF Need, Frames
<1>5. ASSUME NEW v \in Workers, NEW d \in Holes,
             \/ Spark(v, d) \/ WillBlock(v, d) \/ Calculated(v, d) \/ Finish(v, d)
             \/ SetDone(v, d) \/ Stall(v, d) \/ Used(v, d)
      PROVE  m_result[h] # "noresult"
  BY <1>1, <1>5 DEF Spark, WillBlock, Calculated, Finish, SetDone, Stall, Used, Return, Frames
<1> QED BY <1>2, <1>3, <1>4, <1>5 DEF Next, Step, Terminated, vars

(* So it is in every state.                                              *)
LEMMA AlwaysStalled == Spec => []Stalled
<1>1. Init => Stalled
  BY DEF Init, Stalled
<1>2. ASSUME TypeOK, Stalled, [Next]_vars PROVE Stalled'
  BY <1>2, StaysMarked, BeginsToStall DEF Stalled
<1> QED BY <1>1, <1>2, TypeCorrect, PTL DEF Spec

(* A worker with a frame has a lowest one, which is on top.                *)
LEMMA HasTop ==
  ASSUME NEW w \in Workers, NEW h \in Holes, TypeOK, at[w][h] # "none"
  PROVE  \E d \in 1 .. h, l \in Frames \ {"none"} : Top(w, d, l)
<1> DEFINE Framed == {d \in Holes : at[w][d] # "none"}
<1>1. /\ Framed \subseteq Nat /\ h \in Framed
      /\ h \in Nat /\ \A d \in Framed : d \in Holes /\ d \in Nat /\ 1 <= d
  BY RootAssumption DEF Holes
<1>2. PICK d \in Framed : \A e \in Framed : <<e, d>> \notin OpToRel(<, Nat)
  BY <1>1, NatLessThanWellFounded, WFMin
<1>3. \A e \in Framed : ~(e < d)
  BY <1>1, <1>2 DEF OpToRel
<1>4. d \in 1 .. h /\ d \in Holes
  BY <1>1, <1>3
<1>5. at[w][d] \in Frames \ {"none"}
  BY <1>4 DEF TypeOK
<1>6. Top(w, d, at[w][d])
  BY <1>3 DEF Top
<1> QED BY <1>4, <1>5, <1>6

(* For any number of workers and any acyclic graph of terms, with and      *)
(* without the compare-and-swap: no circle of workers that stall on each   *)
(* other's blackholes (term.h:915-934).  Of a chain of such workers the    *)
(* blackholes go down, and the worker at its end does not wait.            *)
THEOREM NobodyIsStuck == Spec => []NobodyStuck
<1>1. IInv /\ Stalled => NobodyStuck
  <2> SUFFICES ASSUME IInv, Stalled PROVE NobodyStuck
    OBVIOUS
  <2> DEFINE Helped(h) == \E v \in Workers, d \in 1 .. h : Calculates(v, d) /\ CanStep(v)
             Stuck == {h \in Holes : (\E w \in Workers : Waits(w, h)) /\ ~Helped(h)}
  <2>1. /\ Stuck \subseteq Nat
        /\ \A h \in Holes : h \in Nat /\ 1 <= h
    BY RootAssumption DEF Holes
  <2>2. ASSUME NEW h \in Stuck, \A e \in Stuck : ~(e < h) PROVE FALSE
    <3>1. h \in Holes /\ (\E w \in Workers : Waits(w, h)) /\ ~Helped(h)
      BY <2>2
    <3>2. m_result[h] = "calculating"
      BY <3>1 DEF Waits, Stalled, IInv, TypeOK
    <3>3. PICK v \in Workers : Calculates(v, h)
      BY <3>1, <3>2 DEF IInv, MarkOwned
    <3>4. at[v][h] # "none" /\ ~Waits(v, h) /\ h \in 1 .. h
      BY <3>1, <3>3, <2>1 DEF Calculates, Waits
    <3>5. PICK d \in 1 .. h, l \in Frames \ {"none"} : Top(v, d, l)
      BY <3>1, <3>4, HasTop DEF IInv
    <3>6. d \in Holes
      BY <3>1, RootAssumption DEF Holes
    <3>7. ~CanStep(v)
      BY <3>1, <3>3, <3>4
    <3>8. Waits(v, d)
      BY <3>5, <3>6, <3>7 DEF CanStep
    <3>9. d < h
      BY <3>4, <3>5, <3>8, <3>1, <2>1
    <3>10. Helped(d)
      BY <3>6, <3>8, <3>9, <2>2
    <3>11. Helped(h)
      BY <3>10, <3>9, <3>6, <3>1, <2>1
    <3> QED BY <3>1, <3>11
  <2>3. Stuck = {}
    <3> SUFFICES ASSUME Stuck # {} PROVE FALSE
      OBVIOUS
    <3> HIDE DEF Stuck
    <3>1. PICK h \in Stuck : \A e \in Stuck : <<e, h>> \notin OpToRel(<, Nat)
      BY <2>1, NatLessThanWellFounded, WFMin
    <3>2. \A e \in Stuck : ~(e < h)
      BY <2>1, <3>1 DEF OpToRel
    <3> QED BY <2>2, <3>2
  <2> QED BY <2>3 DEF NobodyStuck
<1> QED BY <1>1, Invariance, AlwaysStalled, PTL
==============================================================================
