------------------------------ MODULE Blackhole ------------------------------
(***************************************************************************)
(* The blackholes of term.h: a Global<Blackhole> wraps a term that several *)
(* workers may want to reduce.  The one that finds it without a result     *)
(* marks it as being calculated, reduces the term and stores the result;   *)
(* who finds it being calculated stalls until it is done, unless its       *)
(* evaluation mode lets it give up.  With Config::atomic_indir the mark is *)
(* set by a compare-and-swap; without, by a plain write, and the worst of  *)
(* it is to be that a term is reduced twice.                               *)
(*                                                                         *)
(* Blackholes are numbered such that a term needs only lower ones.  A      *)
(* worker's evaluation stack is the function at[w]: its frames are the     *)
(* blackholes h with at[w][h] # "none", the lowest one on top.  The state  *)
(* is atomic between a read and a write of m_result, not across them.      *)
(* What a program that is told to halt leaves unreduced, is not modelled.  *)
(***************************************************************************)
EXTENDS Integers

CONSTANTS Workers,       \* all workers
          Main,          \* the main thread, which computes the root
          Root,          \* the blackholes are 1 .. Root; main wants Root
          Needs          \* Needs[h]: the blackholes the term of h refers to

Holes == 1 .. Root

ASSUME RootAssumption == Root \in Nat \ {0}
ASSUME MainAssumption == Main \in Workers
ASSUME NeedsAssumption ==
  /\ Needs \in [Holes -> SUBSET Holes]
  /\ \A h \in Holes : \A d \in Needs[h] : d < h

VARIABLES m_result,      \* the state of each blackhole
          at,            \* at[w][h]: what w does with h
          forced,        \* forced[w][h]: w needs the result (EvalTerm::eval_forced)
          atomic_indir   \* Config::atomic_indir, chosen once for a build

vars == <<m_result, at, forced, atomic_indir>>

Frames == {"none", "check", "reduce", "set", "calc", "finish", "set_done", "stall", "use"}

(* Types; a forced evaluation never asks whether it will block.            *)
TypeOK ==
  /\ m_result \in [Holes -> {"noresult", "calculating", "done"}]
  /\ at \in [Workers -> [Holes -> Frames]]
  /\ forced \in [Workers -> [Holes -> BOOLEAN]]
  /\ atomic_indir \in BOOLEAN
  /\ \A w \in Workers, h \in Holes : at[w][h] = "check" => ~forced[w][h]

Init ==
  /\ m_result = [h \in Holes |-> "noresult"]
  /\ at = [w \in Workers |-> [h \in Holes |-> IF w = Main /\ h = Root THEN "reduce" ELSE "none"]]
  /\ forced = [w \in Workers |-> [h \in Holes |-> w = Main /\ h = Root]]
  /\ atomic_indir \in BOOLEAN

(* The frame for h is on top of the stack of w and is at l.                *)
Top(w, h, l) == at[w][h] = l /\ \A d \in Holes : d < h => at[w][d] = "none"

Goto(w, h, l) == at' = [at EXCEPT ![w][h] = l]

(* Who needs the result goes on with it; who does not, pops the frame.     *)
Return(w, h) == Goto(w, h, IF forced[w][h] THEN "use" ELSE "none")

-----------------------------------------------------------------------------
(* A worker with nothing to do pops a spark, maybe one that was popped     *)
(* before: the queue may hand out a term twice.                            *)
Spark(w, h) ==
  /\ w # Main
  /\ \A d \in Holes : at[w][d] = "none"
  /\ m_result[h] # "done"
  /\ Goto(w, h, "check")
  /\ forced' = [forced EXCEPT ![w][h] = FALSE]
  /\ UNCHANGED <<m_result, atomic_indir>>

(* Reducing h blocks, or may block as a term it is applied to does.        *)
IsBlocked(h) == m_result[h] = "calculating"
ReduceMayBlock(h) == IsBlocked(h) \/ \E d \in Needs[h] : IsBlocked(d)

(* FullReduce in the normal and the stressed mode does not start on a term *)
(* that would block.                                                       *)
WillBlock(w, h) ==
  /\ Top(w, h, "check")
  /\ \/ ReduceMayBlock(h) /\ Goto(w, h, "none")
     \/ ~IsBlocked(h) /\ Goto(w, h, "reduce")
  /\ UNCHANGED <<m_result, forced, atomic_indir>>

(* Blackhole::Reduce looks at the state;                                   *)
Reduce(w, h) ==
  /\ Top(w, h, "reduce")
  /\ \/ m_result[h] = "noresult" /\ Goto(w, h, "set")
     \/ m_result[h] = "calculating" /\ Goto(w, h, "stall")
     \/ m_result[h] = "done" /\ Return(w, h)
  /\ UNCHANGED <<m_result, forced, atomic_indir>>

SetCalculating_NoCAS(w, h) ==
  /\ Top(w, h, "set")
  /\ m_result' = [m_result EXCEPT ![h] = "calculating"]
  /\ Goto(w, h, "calc")
  /\ UNCHANGED <<forced, atomic_indir>>

(* it marks the blackhole and, unless the compare-and-swap tells that      *)
(* another worker was first, evaluates its term.                           *)
SetCalculating(w, h) ==
  /\ Top(w, h, "set")
  /\ \/ /\ atomic_indir => m_result[h] = "noresult"
        /\ m_result' = [m_result EXCEPT ![h] = "calculating"]
        /\ Goto(w, h, "calc")
     \/ /\ atomic_indir /\ m_result[h] # "noresult"
        /\ Goto(w, h, "stall")
        /\ UNCHANGED m_result
  /\ UNCHANGED <<forced, atomic_indir>>

(* The evaluation of a term, or of a result that was left unevaluated,     *)
(* meets a blackhole d that has no result yet and reduces it first.        *)
Need(w, h, d, f) ==
  /\ Top(w, h, "calc") \/ (Top(w, h, "use") /\ f)
  /\ d \in Needs[h] /\ m_result[d] # "done"
  /\ Goto(w, d, IF f THEN "reduce" ELSE "check")
  /\ forced' = [forced EXCEPT ![w][d] = f]
  /\ UNCHANGED <<m_result, atomic_indir>>

(* The term is evaluated as far as it goes: all it needs is done, or       *)
(* something blocks and blackhole_finish takes it as it is.                *)
Calculated(w, h) ==
  /\ Top(w, h, "calc")
  /\ \/ \A d \in Needs[h] : m_result[d] = "done"
     \/ \E d \in Needs[h] : ReduceMayBlock(d)
  /\ Goto(w, h, "finish")
  /\ UNCHANGED <<m_result, forced, atomic_indir>>

(* Finish: another worker may have stored its result meanwhile.            *)
Finish(w, h) ==
  /\ Top(w, h, "finish")
  /\ IF m_result[h] = "done" THEN Return(w, h) ELSE Goto(w, h, "set_done")
  /\ UNCHANGED <<m_result, forced, atomic_indir>>

SetDone_Forget(w, h) ==
  /\ Top(w, h, "set_done")
  /\ Return(w, h)
  /\ UNCHANGED <<m_result, forced, atomic_indir>>

SetDone(w, h) ==
  /\ Top(w, h, "set_done")
  /\ m_result' = [m_result EXCEPT ![h] = "done"]
  /\ Return(w, h)
  /\ UNCHANGED <<forced, atomic_indir>>

(* The stalling loop, left when the result is there.                       *)
Stall(w, h) ==
  /\ Top(w, h, "stall") /\ m_result[h] = "done"
  /\ Return(w, h)
  /\ UNCHANGED <<m_result, forced, atomic_indir>>

(* All the evaluation of the result needed is there.                       *)
Used(w, h) ==
  /\ Top(w, h, "use")
  /\ \A d \in Needs[h] : m_result[d] = "done"
  /\ Goto(w, h, "none")
  /\ UNCHANGED <<m_result, forced, atomic_indir>>

-----------------------------------------------------------------------------
Finished == \A h \in Holes : at[Main][h] = "none"

Terminated == Finished /\ UNCHANGED vars

Step(w) ==
  \E h \in Holes :
    \/ WillBlock(w, h) \/ Reduce(w, h) \/ SetCalculating(w, h)
    \/ \E d \in Holes, f \in BOOLEAN : Need(w, h, d, f)
    \/ Calculated(w, h) \/ Finish(w, h) \/ SetDone(w, h)
    \/ Stall(w, h) \/ Used(w, h)

Next ==
  \/ \E w \in Workers : Step(w) \/ \E h \in Holes : Spark(w, h)
  \/ Terminated

Spec == Init /\ [][Next]_vars

(* Every worker runs on; nobody has to pop a spark.                        *)
FairSpec == Spec /\ \A w \in Workers : WF_vars(Step(w))

-----------------------------------------------------------------------------
Calculates(w, h) == at[w][h] \in {"calc", "finish", "set_done"}

(* A blackhole that is marked is being calculated: some worker will finish *)
(* it.  Without the compare-and-swap a late mark may hide a result that    *)
(* was there already, but never for good (term.h:916, 906-910).            *)
MarkOwned ==
  \A h \in Holes : m_result[h] = "calculating" => \E w \in Workers : Calculates(w, h)

(* What w can do by itself: only the stalling loop waits (term.h:931).      *)
Waits(w, h) == at[w][h] = "stall" /\ m_result[h] # "done"
CanStep(w) == \E h \in Holes : ~Waits(w, h) /\ \E l \in Frames \ {"none"} : Top(w, h, l)

(* Who stalls waits, in the end, for a worker that can go on: one that     *)
(* calculates the same blackhole or one further down, so that the workers  *)
(* never all wait for each other (term.h:915-934).                         *)
NobodyStuck ==
  \A w \in Workers, h \in Holes :
    Waits(w, h) => \E v \in Workers, d \in 1 .. h : Calculates(v, d) /\ CanStep(v)

(* With atomic_indir at most one worker calculates a blackhole, ...        *)
OneCalculator ==
  atomic_indir =>
    \A h \in Holes, v, w \in Workers : Calculates(v, h) /\ Calculates(w, h) => v = w

(* ... no result is stored over another (term.h:1083, "duplicate work in   *)
(* atomic mode"), ...                                                      *)
NoDuplicateWork ==
  atomic_indir => \A h \in Holes, w \in Workers : Calculates(w, h) => m_result[h] # "done"

(* ... and a result, once there, stays.                                    *)
DoneStays ==
  [][atomic_indir => \A h \in Holes : m_result[h] = "done" => m_result'[h] = "done"]_vars

(* A blackhole that is marked gets its result: also the mark that hid a    *)
(* result makes way for one again (term.h:906-910).                        *)
MarkResolved == \A h \in Holes : m_result[h] = "calculating" ~> m_result[h] = "done"

(* Who stalls gets on (term.h:931-934), and main gets its result: the      *)
(* workers never all wait for each other.                                  *)
StallEnds == \A w \in Workers, h \in Holes : at[w][h] = "stall" ~> at[w][h] # "stall"
RootComputed == <>Finished
==============================================================================
