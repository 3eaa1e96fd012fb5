----------------------------- MODULE WorkerProofs -----------------------------
(* Proofs about the protocol of the threads, for any number of them.        *)
EXTENDS Worker, TLAPS

(* The environment of run `worker': interrupts and failing allocations come *)
(* before main inspects the state for the first time, and not both.         *)
Early ==
  /\ scenario.sigint \subseteq BeforeInspect /\ scenario.oom \subseteq BeforeInspect
  /\ scenario.sigint = {} \/ scenario.oom = {}

-----------------------------------------------------------------------------
(* A thread whose round is complete has in effect left the barrier.         *)
place == [w \in Threads |-> IF w \in released THEN Behind(w) ELSE pc[w]]

GC == GCSites \cup {"reset"}
MainBusy == {"compute", "unblock", "eval", "block", "inspect1", "check",
             "set_shutdown", "inspect2", "oom", "oom_gc"}
WorkerBusy == {"loop", "idle1", "idle2", "eval", "oom", "oom_gc"}
Ends == {"join", "done", "exited"}

stage == IF place[Main] \in GC THEN back[Main] ELSE place[Main]
Timed == {"eval", "block", "oom", "oom_gc"}
Computing == Timed \cup {"unblock", "inspect1"}

(* Who is at the barrier, or on the way back from it.                       *)
AtBarrier ==
  /\ \A w \in arrived \cup released : pc[w] \in Sites
  /\ \A v, w \in serial : v = w

(* Each thread is where its code may take it.                               *)
Roles ==
  \A w \in Threads :
    /\ place[w] \in Sites \cup {"reset"}
         \cup IF w = Main THEN MainBusy \cup {"join", "done"} ELSE WorkerBusy \cup {"exited"}
    /\ place[w] \in GC =>
         back[w] \in {"eval", "oom_gc", "final"}
           \cup IF w = Main THEN {"check"} ELSE {"idle2", "loop"}
    /\ place[w] = "halt" => back[w] = IF w = Main THEN "check" ELSE "final"

(* The threads go through the barriers together.                            *)
AllAt(S) == \A w \in Threads : place[w] \in S
SameEnd == \A v, w \in Threads : back[v] = "final" => back[w] = "final"
Together ==
  \/ AllAt({"start"})
  \/ AllAt(MainBusy \cup WorkerBusy \cup {"gc1", "halt"})
  \/ AllAt({"reset", "gc2"}) /\ SameEnd
  \/ AllAt({"gc3"}) /\ SameEnd
  \/ AllAt({"gc4"}) /\ SameEnd
  \/ AllAt({"final"})
  \/ AllAt(Ends)

OneReset == \A v, w \in Threads : place[v] = "reset" /\ place[w] = "reset" => v = w

Waiting == \A w \in Threads \ {Main} : place[w] = "gc1"

(* Whoever waits has read the state that is there still.                    *)
StateRead ==
  \A w \in Threads :
    /\ place[w] = "gc1" =>
         \/ m_state = "global_gc" /\ back[w] # "final"
         \/ m_state = "shutdown" /\ back[w] = "final"
         \/ m_state = "halt" /\ back[w] = "final" /\ place[Main] \in {"check", "set_shutdown"}
    /\ place[w] = "reset" => m_state = IF back[w] = "final" THEN "shutdown" ELSE "global_gc"
    /\ place[w] = "halt" => m_state = "halt"
    /\ place[w] = "oom" => m_state = "global_gc"

(* The state, by what main is doing.                                        *)
StateFits ==
  /\ m_state \in States
  /\ place[Main] \in {"start", "compute"} => m_state = "startup"
  /\ place[Main] \in Computing => m_state \in {"evaluate", "global_gc", "halt"}
  /\ place[Main] \in {"check", "set_shutdown"} =>
       m_state = "evaluate" \/ (m_state = "halt" /\ Waiting)
  /\ place[Main] = "inspect2" => m_state = "shutdown"
  /\ place[Main] \in {"gc2", "gc3", "gc4"} /\ (\A w \in Threads : place[w] # "reset") =>
       IF back[Main] \in {"check", "final"}
       THEN m_state = "evaluate"
       ELSE m_state \in {"evaluate", "global_gc", "halt"}

(* Signals are handled where they may arrive.                               *)
Handlers ==
  /\ handler \in [Threads -> {"none", "global_gc", "halt"}]
  /\ \A w \in Threads \ {Main} : handler[w] = "none"
  /\ handler[Main] = "halt" =>
       m_state = "evaluate" /\ stage \in Computing /\ scenario.sigint # {}
  /\ handler[Main] = "global_gc" =>
       m_state \in {"evaluate", "global_gc"} /\ stage \in Timed
  /\ gc_unblocked => stage \in Timed

(* Without interrupts nobody is told to halt.                               *)
Quiet ==
  scenario.sigint = {} =>
    /\ m_state # "halt"
    /\ \A w \in Threads : handler[w] # "halt" /\ ~halting[w]

(* Then an error is that of a thread that has collected.                    *)
ErrorAfterGC == aborted /\ scenario.sigint = {} => \E w \in Threads : pc[w] = "oom_gc"

IInv ==
  /\ TypeOK /\ Early /\ AtBarrier /\ Roles /\ Together /\ OneReset /\ StateRead
  /\ StateFits /\ Handlers /\ Quiet /\ ErrorAfterGC

-----------------------------------------------------------------------------
(* Initially everybody is on the way to the startup barrier.                *)
LEMMA InitIInv == Init /\ Early => IInv
<1> SUFFICES ASSUME Init, Early PROVE IInv
  OBVIOUS
<1> USE DEF Init, B!Init
<1>1. TypeOK
  BY DEF TypeOK, States, PCs, Sites, B!TypeOK
<1>2. \A w \in Threads : place[w] = "start"
  BY DEF place
<1>3. Main \in Threads
  BY MainAssumption
<1>4. AtBarrier /\ OneReset
  BY <1>2 DEF AtBarrier, OneReset
<1>5. Roles /\ Together
  BY <1>2 DEF Roles, Together, AllAt, Sites, GC, GCSites
<1>6. StateRead /\ StateFits
  BY <1>2, <1>3 DEF StateRead, StateFits, States, Computing, Timed
<1>7. Handlers /\ Quiet /\ ErrorAfterGC
  BY <1>3 DEF Handlers, Quiet, ErrorAfterGC
<1> QED BY <1>1, <1>4, <1>5, <1>6, <1>7 DEF IInv

(* A thread that is not at a barrier is at its pc, and a step that only     *)
(* moves it there changes no other place.                                   *)
LEMMA PlaceMoves ==
  ASSUME IInv, NEW w \in Threads, NEW l, pc[w] \notin Sites, Goto(w, l),
         \A u \in Threads : u # w => back'[u] = back[u], UNCHANGED steady
  PROVE  /\ place[w] = pc[w]
         /\ place' = [place EXCEPT ![w] = l]
         /\ w \notin arrived \cup released
<1>1. w \notin arrived \cup released
  BY DEF IInv, AtBarrier
<1>2. \A u \in Threads : u # w => pc'[u] = pc[u]
  BY DEF Goto, IInv, TypeOK
<1>3. pc'[w] = l
  BY DEF Goto, IInv, TypeOK
<1>4. \A u \in Threads : u # w => Behind(u)' = Behind(u)
  BY <1>2 DEF Behind, Resets, AfterHalt, steady
<1> QED BY <1>1, <1>2, <1>3, <1>4 DEF place, steady

(* Where a thread is while it computes or looks for work.                   *)
Busy(w) == IF w = Main THEN MainBusy ELSE WorkerBusy

(* A busy thread goes on, or enters a collection or the halt barrier: what  *)
(* does not concern the state.                                              *)
LEMMA BusyMove ==
  ASSUME IInv, NEW w \in Threads, NEW l \in Busy(w) \cup {"gc1", "halt"},
         pc[w] \in Busy(w), Goto(w, l),
         back' \in [Threads -> PCs],
         \A u \in Threads : u # w => back'[u] = back[u],
         l = "gc1" => back'[w] \in {"eval", "oom_gc", "final"}
                        \cup IF w = Main THEN {"check"} ELSE {"idle2", "loop"},
         l = "halt" => back'[w] = IF w = Main THEN "check" ELSE "final",
         m_state' \in States, halting' \in [Threads -> BOOLEAN],
         gc_unblocked' \in BOOLEAN, UNCHANGED <<handler, aborted, steady>>
  PROVE  /\ place[w] = pc[w] /\ place'[w] = l
         /\ \A u \in Threads : u # w => place'[u] = place[u]
         /\ TypeOK' /\ Early' /\ AtBarrier' /\ Roles' /\ Together' /\ OneReset'
<1>1. pc[w] \notin Sites /\ l # "reset"
  BY DEF Busy, MainBusy, WorkerBusy, Sites, GCSites
<1>2. /\ place[w] = pc[w]
      /\ place' = [place EXCEPT ![w] = l]
      /\ w \notin arrived \cup released
  BY <1>1, PlaceMoves
<1>3. TypeOK'
  <2>1. l \in PCs
    BY DEF PCs, Busy, MainBusy, WorkerBusy, Sites, GCSites
  <2>2. pc' \in [Threads -> PCs]
    BY <2>1 DEF IInv, TypeOK, Goto
  <2> QED BY <2>2 DEF IInv, TypeOK, B!TypeOK, steady
<1>4. Early' /\ AtBarrier'
  BY <1>2 DEF IInv, TypeOK, Early, AtBarrier, Goto, steady
<1>5. place \in [Threads -> {place[u] : u \in Threads}]
  BY DEF place
<1>6. place'[w] = l /\ \A u \in Threads : u # w => place'[u] = place[u]
  BY <1>2, <1>5
<1>7. Roles'
  BY <1>1, <1>6 DEF IInv, Roles, Busy, GC, GCSites, MainBusy, WorkerBusy, Sites
<1>8. Together'
  <2>1. AllAt(MainBusy \cup WorkerBusy \cup {"gc1", "halt"})
    BY <1>2 DEF IInv, Together, AllAt, Busy, MainBusy, WorkerBusy, Ends
  <2>2. AllAt(MainBusy \cup WorkerBusy \cup {"gc1", "halt"})'
    BY <2>1, <1>6 DEF AllAt, Busy
  <2> QED BY <2>2 DEF Together
<1>9. OneReset'
  BY <1>1, <1>6 DEF IInv, OneReset
<1> QED BY <1>2, <1>3, <1>4, <1>6, <1>7, <1>8, <1>9

(* While main computes, a worker that goes on with its work or looks for    *)
(* some leaves the state to the others.                                     *)
LEMMA BusyIInv ==
  ASSUME IInv, NEW w \in Threads, NEW l \in Busy(w),
         pc[w] \in Busy(w), Goto(w, l), l # "oom", Runs(w),
         halting' \in [Threads -> BOOLEAN], scenario.sigint = {} => halting' = halting,
         UNCHANGED <<m_state, back, handler, gc_unblocked, aborted, steady>>,
         w = Main => \/ pc[w] \in Timed /\ l \in Timed
                     \/ pc[w] = "inspect1" /\ l = "check" /\ m_state = "evaluate"
                     \/ pc[w] = "check" /\ l = "set_shutdown"
  PROVE  IInv'
<1>1. /\ place[w] = pc[w] /\ place'[w] = l
      /\ \A u \in Threads : u # w => place'[u] = place[u]
      /\ TypeOK' /\ Early' /\ AtBarrier' /\ Roles' /\ Together' /\ OneReset'
  BY BusyMove DEF IInv, TypeOK, Busy, MainBusy, WorkerBusy
<1>2. l \notin Sites \cup {"reset"} /\ pc[w] \notin Sites \cup {"reset"}
  BY DEF Busy, MainBusy, WorkerBusy, Sites, GCSites
<1>3. Main \in Threads
  BY MainAssumption
<1>4. StateRead'
  BY <1>1, <1>2, <1>3 DEF IInv, StateRead, Sites, GCSites, Timed
<1>5. StateFits'
  <2>1. CASE w = Main
    BY <1>1, <1>2, <2>1 DEF IInv, StateFits, Waiting, Computing, Timed
  <2>2. CASE w # Main
    BY <1>1, <1>2, <1>3, <2>2 DEF IInv, StateFits, Waiting, Sites, GCSites
  <2> QED BY <2>1, <2>2
<1>6. Handlers'
  BY <1>1, <1>2, <1>3 DEF IInv, Handlers, stage, Timed, Computing, GC, GCSites, Sites, Runs, steady
<1>7. Quiet' /\ ErrorAfterGC'
  BY DEF IInv, Quiet, ErrorAfterGC, Runs, steady
<1> QED BY <1>1, <1>4, <1>5, <1>6, <1>7 DEF IInv

(* A thread that reads a request goes to the barrier where it is served.    *)
LEMMA JoinIInv ==
  ASSUME IInv, NEW w \in Threads, NEW l \in {"gc1", "halt"}, NEW b \in PCs,
         pc[w] \in Busy(w), pc[w] # "compute", Runs(w), Goto(w, l), Remember(w, b),
         UNCHANGED <<m_state, halting, handler, gc_unblocked, aborted, steady>>,
         \/ l = "gc1" /\ m_state = "global_gc" /\ b # "final"
            /\ b \in {"eval", "oom_gc"} \cup IF w = Main THEN {"check"} ELSE {"idle2", "loop"}
         \/ l = "gc1" /\ m_state = "shutdown" /\ b = "final"
         \/ l = "halt" /\ m_state = "halt" /\ b = IF w = Main THEN "check" ELSE "final",
         w = Main => \/ pc[w] \in Timed /\ b \in Timed
                     \/ pc[w] \in {"inspect1", "inspect2"} /\ b \in {"check", "final"}
  PROVE  IInv'
<1>1. /\ back' \in [Threads -> PCs]
      /\ back'[w] = b /\ \A u \in Threads : u # w => back'[u] = back[u]
  BY DEF Remember, IInv, TypeOK
<1>2. /\ place[w] = pc[w] /\ place'[w] = l
      /\ \A u \in Threads : u # w => place'[u] = place[u]
      /\ TypeOK' /\ Early' /\ AtBarrier' /\ Roles' /\ Together' /\ OneReset'
  BY <1>1, BusyMove DEF IInv, TypeOK
<1>3. pc[w] \notin Sites \cup {"reset"}
  BY DEF Busy, MainBusy, WorkerBusy, Sites, GCSites
<1>4. Main \in Threads
  BY MainAssumption
<1>5. m_state = "halt" => ~Waiting \/ w = Main
  BY <1>2, <1>3 DEF Waiting, Sites, GCSites
<1>6. StateRead'
  <2>1. ASSUME NEW u \in Threads, u # w, place[u] = "gc1", m_state = "halt"
        PROVE  place'[Main] \in {"check", "set_shutdown"}
    BY <2>1, <1>2, <1>4, <1>5 DEF IInv, StateRead, StateFits, Timed
  <2> QED BY <1>1, <1>2, <2>1 DEF IInv, StateRead
<1>7. StateFits'
  <2>1. CASE w = Main
    BY <1>1, <1>2, <2>1 DEF IInv, StateFits, Computing, Timed
  <2>2. CASE w # Main
    BY <1>1, <1>2, <1>3, <1>4, <2>2 DEF IInv, StateFits, Waiting, Sites, GCSites
  <2> QED BY <2>1, <2>2
<1>8. Handlers'
  <2>1. CASE w = Main
    BY <1>1, <1>2, <1>3, <2>1 DEF IInv, Handlers, stage, Timed, Computing, GC, GCSites, Sites, Runs, steady
  <2>2. CASE w # Main
    BY <1>1, <1>2, <1>4, <2>2 DEF IInv, Handlers, stage, Runs, steady
  <2> QED BY <2>1, <2>2
<1>9. Quiet' /\ ErrorAfterGC'
  BY DEF IInv, Quiet, ErrorAfterGC, Runs, steady
<1> QED BY <1>2, <1>6, <1>7, <1>8, <1>9 DEF IInv

(* The calls of InspectState: from where, whether idle, and what is next.   *)
Inspects(w, idle, next) ==
  \/ pc[w] = "eval" /\ ~idle /\ next = "eval"
  \/ pc[w] = "oom" /\ ~idle /\ next = "oom_gc"
  \/ w # Main /\ pc[w] = "idle1" /\ idle /\ next = "idle2"
  \/ w # Main /\ pc[w] = "idle2" /\ idle /\ next = "loop"
  \/ w = Main /\ pc[w] = "inspect1" /\ idle /\ next = "check"
  \/ w = Main /\ pc[w] = "inspect2" /\ idle /\ next = "join"

(* InspectState goes on, meets the others for the request it read, or tells *)
(* the evaluation to halt.                                                  *)
LEMMA InspectIInv ==
  ASSUME IInv, NEW w \in Threads, NEW idle \in BOOLEAN, NEW next,
         Runs(w), Inspects(w, idle, next), InspectState(w, idle, next)
  PROVE  IInv'
<1>1. pc[w] \in Busy(w) /\ pc[w] # "compute"
  BY DEF Inspects, Busy, MainBusy, WorkerBusy, IInv, Roles
<1>2. place[w] = pc[w]
  <2>1. pc[w] \notin Sites
    BY <1>1 DEF Busy, MainBusy, WorkerBusy, Sites, GCSites
  <2> QED BY <2>1 DEF IInv, AtBarrier, place
<1>3. /\ pc[w] = "oom" => m_state = "global_gc"
      /\ w = Main /\ pc[w] = "inspect1" => m_state \in {"evaluate", "global_gc", "halt"}
      /\ w = Main /\ pc[w] = "inspect2" => m_state = "shutdown"
      /\ w = Main /\ pc[w] = "eval" => m_state \in {"evaluate", "global_gc", "halt"}
  BY <1>2, MainAssumption DEF IInv, StateRead, StateFits, Computing, Timed
<1> DEFINE Others == UNCHANGED <<m_state, handler, gc_unblocked, aborted, steady>>
<1>4. Others
  BY DEF InspectState
<1>5. CASE /\ Goto(w, next) /\ UNCHANGED <<back, halting>>
           /\ m_state \in {"startup", "evaluate", "shutdown"} /\ (idle => m_state # "shutdown")
  <2>1. next \in Busy(w) /\ next # "oom" /\ pc[w] # "inspect2" /\ pc[w] # "oom"
    BY <1>3, <1>5 DEF Inspects, Busy, MainBusy, WorkerBusy
  <2>2. w = Main => \/ pc[w] \in Timed /\ next \in Timed
                    \/ pc[w] = "inspect1" /\ next = "check" /\ m_state = "evaluate"
    BY <2>1, <1>3, <1>5 DEF Inspects, Timed
  <2>3. halting' \in [Threads -> BOOLEAN]
    BY <1>5 DEF IInv, TypeOK
  <2> QED BY <1>1, <1>4, <1>5, <2>1, <2>2, <2>3, BusyIInv
<1>6. CASE m_state = "global_gc" /\ Goto(w, "gc1") /\ Remember(w, next) /\ UNCHANGED halting
  <2>1. /\ next \in {"eval", "oom_gc"} \cup IF w = Main THEN {"check"} ELSE {"idle2", "loop"}
        /\ w = Main => \/ pc[w] \in Timed /\ next \in Timed
                       \/ pc[w] \in {"inspect1", "inspect2"} /\ next \in {"check", "final"}
    BY <1>3, <1>6 DEF Inspects, Timed
  <2>2. next \in PCs /\ next # "final"
    BY <2>1 DEF PCs, Sites
  <2> QED BY <1>1, <1>4, <1>6, <2>1, <2>2, JoinIInv
<1>7. CASE /\ m_state = "halt" /\ ~idle
           /\ halting' = [halting EXCEPT ![w] = TRUE]
           /\ Goto(w, next) /\ UNCHANGED back
  <2>1. pc[w] = "eval" /\ next = "eval"
    BY <1>3, <1>7 DEF Inspects
  <2>2. "eval" \in Busy(w) /\ "eval" \in Timed
    BY DEF Busy, MainBusy, WorkerBusy, Timed
  <2>3. halting' \in [Threads -> BOOLEAN] /\ scenario.sigint # {}
    BY <1>7 DEF IInv, TypeOK, Quiet
  <2> QED BY <1>1, <1>4, <1>7, <2>1, <2>2, <2>3, BusyIInv
<1>8. CASE m_state = "halt" /\ idle /\ HaltIdle(w, next) /\ UNCHANGED halting
  <2> DEFINE b == IF w = Main THEN next ELSE "final"
  <2>1. /\ b = IF w = Main THEN "check" ELSE "final"
        /\ w = Main => pc[w] = "inspect1"
    BY <1>3, <1>8 DEF Inspects
  <2>2. b \in PCs
    BY <2>1 DEF PCs, Sites
  <2>3. Goto(w, "halt") /\ Remember(w, b)
    BY <1>8 DEF HaltIdle
  <2> HIDE DEF b
  <2> QED BY <1>1, <1>4, <1>8, <2>1, <2>2, <2>3, JoinIInv
<1>9. CASE /\ m_state = "shutdown" /\ idle
           /\ Goto(w, "gc1") /\ Remember(w, "final") /\ UNCHANGED halting
  <2>1. "final" \in PCs
    BY DEF PCs, Sites
  <2>2. w = Main => pc[w] \in {"inspect1", "inspect2"}
    BY <1>9 DEF Inspects
  <2> QED BY <1>1, <1>4, <1>9, <2>1, <2>2, JoinIInv
<1> QED BY <1>5, <1>6, <1>7, <1>8, <1>9 DEF InspectState

(* The end of an evaluation, and of a collection that found memory.         *)
LEMMA EvalDoneIInv ==
  ASSUME IInv, NEW w \in Threads, EvalDone(w) \/ OOMFreed(w)
  PROVE  IInv'
<1>1. /\ {"eval", "oom_gc", "block"} \subseteq Timed
      /\ {"eval", "oom_gc"} \subseteq Busy(w) /\ "oom_gc" # "oom"
      /\ IF w = Main THEN "block" \in Busy(w) ELSE "idle2" \in Busy(w)
  BY DEF Busy, MainBusy, WorkerBusy, Timed
<1>2. CASE EvalDone(w)
  <2>1. /\ halting' \in [Threads -> BOOLEAN]
        /\ scenario.sigint = {} => halting' = halting
    BY <1>2 DEF EvalDone, IInv, TypeOK, Quiet
  <2>2. /\ pc[w] = "eval" /\ Runs(w)
        /\ Goto(w, IF w = Main THEN "block" ELSE "idle2")
        /\ UNCHANGED <<m_state, back, handler, gc_unblocked, aborted, steady>>
    BY <1>2 DEF EvalDone, At
  <2> QED BY <1>1, <2>1, <2>2, BusyIInv
<1>3. CASE OOMFreed(w)
  <2>1. /\ pc[w] = "oom_gc" /\ Runs(w) /\ Goto(w, "eval")
        /\ halting' \in [Threads -> BOOLEAN]
        /\ UNCHANGED <<m_state, back, halting, handler, gc_unblocked, aborted, steady>>
    BY <1>3 DEF OOMFreed, At, IInv, TypeOK
  <2> QED BY <1>1, <2>1, BusyIInv
<1> QED BY <1>2, <1>3

(* A worker looks for work.                                                 *)
LEMMA LookIInv ==
  ASSUME IInv, NEW w \in Threads \ {Main}, Look(w)
  PROVE  IInv'
<1>1. /\ {"loop", "idle1", "idle2", "eval"} \subseteq Busy(w) /\ w \in Threads
  BY DEF Busy, WorkerBusy
<1>2. PICK l \in {"idle1", "idle2", "eval"} : Goto(w, l)
  BY DEF Look
<1>3. /\ pc[w] = "loop" /\ Runs(w) /\ halting' \in [Threads -> BOOLEAN]
      /\ UNCHANGED <<m_state, back, halting, handler, gc_unblocked, aborted, steady>>
  BY DEF Look, At, IInv, TypeOK
<1> QED BY <1>1, <1>2, <1>3, BusyIInv

(* The steps of main that set the state or the mask of the timer.           *)
LEMMA ComputeIInv ==
  ASSUME IInv, NEW w \in Threads,
         \/ SetEvaluate(w) \/ UnblockGlobalGCTimer(w) \/ BlockGlobalGCTimer(w)
         \/ CheckHalt(w) \/ SetShutdown(w)
  PROVE  IInv'
<1> USE DEF MainStep, At
<1>0. /\ w = Main /\ Runs(w) /\ handler[Main] = "none"
      /\ UNCHANGED <<back, halting, handler, aborted, steady>>
  BY DEF SetEvaluate, UnblockGlobalGCTimer, BlockGlobalGCTimer, CheckHalt, SetShutdown, Runs
<1>1. CASE CheckHalt(w)
  <2>1. {"check", "set_shutdown"} \subseteq Busy(w) /\ halting' \in [Threads -> BOOLEAN]
    BY <1>0 DEF Busy, MainBusy, IInv, TypeOK
  <2> QED BY <1>0, <1>1, <2>1, BusyIInv DEF CheckHalt
<1> DEFINE Moves(from, to) ==
             /\ pc[w] = from /\ place[w] = from /\ place'[w] = to
             /\ \A u \in Threads : u # w => place'[u] = place[u]
             /\ TypeOK' /\ Early' /\ AtBarrier' /\ Roles' /\ Together' /\ OneReset'
<1>2. SetEvaluate(w) => Moves("compute", "unblock")
  BY <1>0, BusyMove DEF SetEvaluate, IInv, TypeOK, Busy, MainBusy, States
<1>3. UnblockGlobalGCTimer(w) => Moves("unblock", "eval")
  BY <1>0, BusyMove DEF UnblockGlobalGCTimer, IInv, TypeOK, Busy, MainBusy
<1>4. BlockGlobalGCTimer(w) => Moves("block", "inspect1")
  BY <1>0, BusyMove DEF BlockGlobalGCTimer, IInv, TypeOK, Busy, MainBusy
<1>5. SetShutdown(w) => Moves("set_shutdown", "inspect2")
  BY <1>0, BusyMove DEF SetShutdown, IInv, TypeOK, Busy, MainBusy, States
<1>6. CASE SetEvaluate(w)
  <2>1. m_state = "startup" /\ m_state' = "evaluate"
    BY <1>0, <1>2, <1>6 DEF SetEvaluate, IInv, StateFits
  <2>2. StateRead' /\ StateFits'
    BY <1>0, <1>2, <1>6, <2>1 DEF IInv, StateRead, StateFits, States, Computing, Timed
  <2>3. Handlers' /\ Quiet' /\ ErrorAfterGC'
    BY <1>0, <1>2, <1>6, <2>1 DEF SetEvaluate, IInv, Handlers, stage, Timed, GC, GCSites, Quiet, ErrorAfterGC, Runs, steady
  <2> QED BY <1>2, <1>6, <2>2, <2>3 DEF IInv
<1>7. CASE UnblockGlobalGCTimer(w)
  <2>1. UNCHANGED m_state
    BY <1>7 DEF UnblockGlobalGCTimer
  <2>2. StateRead' /\ StateFits'
    BY <1>0, <1>3, <1>7, <2>1 DEF IInv, StateRead, StateFits, Computing, Timed
  <2>3. Handlers' /\ Quiet' /\ ErrorAfterGC'
    BY <1>0, <1>3, <1>7, <2>1 DEF IInv, Handlers, stage, Timed, GC, GCSites, Quiet, ErrorAfterGC, Runs, steady
  <2> QED BY <1>3, <1>7, <2>2, <2>3 DEF IInv
<1>8. CASE BlockGlobalGCTimer(w)
  <2>1. UNCHANGED m_state /\ ~gc_unblocked'
    BY <1>8 DEF BlockGlobalGCTimer
  <2>2. StateRead' /\ StateFits'
    BY <1>0, <1>4, <1>8, <2>1 DEF IInv, StateRead, StateFits, Computing, Timed
  <2>3. Handlers' /\ Quiet' /\ ErrorAfterGC'
    BY <1>0, <1>4, <1>8, <2>1 DEF IInv, Handlers, stage, Timed, GC, GCSites, Quiet, ErrorAfterGC, Runs, steady
  <2> QED BY <1>4, <1>8, <2>2, <2>3 DEF IInv
<1>9. CASE SetShutdown(w)
  <2>1. m_state' = "shutdown" /\ (m_state = "evaluate" \/ (m_state = "halt" /\ Waiting))
    BY <1>0, <1>5, <1>9 DEF SetShutdown, IInv, StateFits
  <2>2. StateRead' /\ StateFits'
    <3>1. \A u \in Threads : place[u] \notin {"reset", "halt", "oom"}
      BY <1>0, <1>5, <1>9, <2>1 DEF IInv, StateRead, Waiting
    <3>2. \A u \in Threads : place[u] = "gc1" => back[u] = "final"
      BY <2>1 DEF IInv, StateRead
    <3> QED BY <1>0, <1>5, <1>9, <2>1, <3>1, <3>2 DEF StateRead, StateFits, States, Computing, Timed
  <2>3. Handlers' /\ Quiet' /\ ErrorAfterGC'
    BY <1>0, <1>5, <1>9, <2>1 DEF SetShutdown, IInv, Handlers, stage, Timed, GC, GCSites, Quiet, ErrorAfterGC, Runs, steady
  <2> QED BY <1>5, <1>9, <2>2, <2>3 DEF IInv
<1> QED BY <1>1, <1>6, <1>7, <1>8, <1>9

(* Before it inspects the state, main's phase does not depend on the        *)
(* barrier it may still be leaving.                                         *)
LEMMA PhaseIsStage ==
  ASSUME IInv, MainPhase \in BeforeInspect
  PROVE  stage = MainPhase /\ stage \in Computing
<1>1. Main \in Threads
  BY MainAssumption
<1>2. CASE pc[Main] \in GCSites \cup {"reset"}
  <2>1. MainPhase = back[Main]
    BY <1>2 DEF MainPhase
  <2>2. CASE pc[Main] = "gc4" /\ Main \in released
    <3>1. place[Main] = back[Main]
      BY <1>1, <2>2 DEF place, Behind
    <3>2. place[Main] \notin GC
      BY <2>1, <3>1 DEF BeforeInspect, GC, GCSites
    <3> QED BY <2>1, <3>1, <3>2 DEF stage, BeforeInspect, Computing, Timed
  <2>3. CASE ~(pc[Main] = "gc4" /\ Main \in released)
    <3>1. pc[Main] \in {"gc1", "gc2", "gc3"} /\ Main \in released => place[Main] \in GC
      BY <1>1 DEF place, Behind, GC, GCSites, Resets
    <3>2. pc[Main] = "reset" => Main \notin released
      BY DEF IInv, AtBarrier, Sites, GCSites
    <3>3. place[Main] \in GC
      BY <1>1, <1>2, <2>3, <3>1, <3>2 DEF place, GC, GCSites
    <3> QED BY <2>1, <3>3 DEF stage, BeforeInspect, Computing, Timed
  <2> QED BY <2>2, <2>3
<1>3. CASE pc[Main] \notin GCSites \cup {"reset"}
  <2>1. pc[Main] \in BeforeInspect
    BY <1>3 DEF MainPhase
  <2>2. Main \notin released
    BY <2>1 DEF IInv, AtBarrier, BeforeInspect, Sites, GCSites
  <2>3. place[Main] = pc[Main]
    BY <1>1, <2>2 DEF place
  <2> QED BY <1>3, <2>1, <2>3 DEF stage, MainPhase, BeforeInspect, Computing, Timed, GC
<1> QED BY <1>2, <1>3

(* Running out of memory while main computes: nobody has asked for anything *)
(* but a collection.                                                        *)
LEMMA OutOfMemoryIInv ==
  ASSUME IInv, NEW w \in Threads, OutOfMemory(w)
  PROVE  IInv'
<1>1. /\ MainPhase \in BeforeInspect /\ scenario.oom # {} /\ scenario.sigint = {}
      /\ pc[w] = "eval" /\ Runs(w) /\ Goto(w, "oom") /\ m_state' = "global_gc"
      /\ UNCHANGED <<back, halting, handler, gc_unblocked, aborted, steady>>
  BY DEF OutOfMemory, At, IInv, Early
<1>2. /\ place[w] = "eval" /\ place'[w] = "oom"
      /\ \A u \in Threads : u # w => place'[u] = place[u]
      /\ TypeOK' /\ Early' /\ AtBarrier' /\ Roles' /\ Together' /\ OneReset'
  BY <1>1, BusyMove DEF IInv, TypeOK, Busy, MainBusy, WorkerBusy, States
<1>3. Main \in Threads
  BY MainAssumption
<1>4. stage \in Computing
  BY <1>1, PhaseIsStage
<1>5. AllAt(MainBusy \cup WorkerBusy \cup {"gc1", "halt"})
  BY <1>2 DEF IInv, Together, AllAt, Ends
<1>6. m_state # "halt"
  BY <1>1 DEF IInv, Quiet
<1>7. m_state \in {"evaluate", "global_gc"}
  <2>1. place[Main] = "gc1" => m_state = "global_gc"
    BY <1>3, <1>4, <1>6 DEF IInv, StateRead, stage, GC, GCSites, Computing, Timed
  <2>2. place[Main] \in Computing \cup {"gc1"}
    BY <1>3, <1>4, <1>5 DEF AllAt, stage, GC, GCSites, MainBusy, WorkerBusy
  <2> QED BY <1>6, <2>1, <2>2 DEF IInv, StateFits
<1>8. StateRead'
  BY <1>1, <1>2, <1>7 DEF IInv, StateRead
<1>9. StateFits'
  <2>1. place[Main] \in Computing \cup {"gc1"}
    BY <1>3, <1>4, <1>5 DEF AllAt, stage, GC, GCSites, MainBusy, WorkerBusy
  <2>2. place'[Main] \in Computing \cup {"gc1"}
    BY <1>2, <1>3, <2>1 DEF Computing, Timed
  <2> QED BY <1>1, <2>2 DEF StateFits, States, Computing, Timed
<1>10. Handlers'
  BY <1>1, <1>2, <1>3, <1>7 DEF IInv, Handlers, stage, Timed, Computing, GC, GCSites, Runs, steady
<1>11. Quiet' /\ ErrorAfterGC'
  BY <1>1 DEF IInv, Quiet, ErrorAfterGC, Runs, steady
<1> QED BY <1>2, <1>8, <1>9, <1>10, <1>11 DEF IInv

(* A step that moves nobody and leaves the barrier alone.                   *)
LEMMA PlaceStays ==
  ASSUME UNCHANGED <<pc, back, steady>>
  PROVE  place' = place
BY DEF place, Behind, AfterHalt, Resets, steady

(* Error() ends the program: without interrupts, only behind a collection.  *)
LEMMA AbortIInv ==
  ASSUME IInv, NEW w \in Threads, OOMError(w) \/ (halting[w] /\ NotComputable(w))
  PROVE  IInv'
<1>1. UNCHANGED <<m_state, pc, back, halting, handler, gc_unblocked, steady>> /\ aborted' \in BOOLEAN
  BY DEF OOMError, NotComputable
<1>2. place' = place
  BY <1>1, PlaceStays
<1>3. ErrorAfterGC'
  <2>1. CASE scenario.sigint # {}
    BY <1>1, <2>1 DEF ErrorAfterGC, steady
  <2>2. CASE scenario.sigint = {} /\ OOMError(w)
    <3>1. pc[w] = "oom" => place[w] = "oom"
      BY DEF IInv, AtBarrier, Sites, GCSites, place
    <3>2. pc[w] = "oom_gc"
      BY <2>2, <3>1 DEF OOMError, At, IInv, StateRead
    <3> QED BY <1>1, <3>2 DEF ErrorAfterGC, steady
  <2> QED BY <2>1, <2>2 DEF IInv, Quiet
<1>4. TypeOK' /\ Early' /\ AtBarrier' /\ Roles' /\ Together' /\ OneReset'
  BY <1>1, <1>2 DEF IInv, TypeOK, B!TypeOK, Early, AtBarrier, Roles, Together, AllAt, SameEnd, OneReset, steady
<1>5. StateRead' /\ StateFits' /\ Handlers' /\ Quiet'
  BY <1>1, <1>2 DEF IInv, StateRead, StateFits, Waiting, Handlers, stage, Quiet, steady
<1> QED BY <1>3, <1>4, <1>5 DEF IInv

(* A signal finds main where it is let through, and its handler sets the    *)
(* state while nobody waits for anything else.                              *)
LEMMA SignalIInv ==
  ASSUME IInv, Sigint \/ GCTimerSignal
  PROVE  IInv'
<1>1. /\ UNCHANGED <<m_state, pc, back, halting, gc_unblocked, aborted, steady>>
      /\ m_state = "evaluate" /\ Main \in Threads /\ ~aborted
  BY MainAssumption DEF Sigint, GCTimerSignal, Signal, Runs
<1>2. place' = place
  BY <1>1, PlaceStays
<1>3. \/ /\ handler' = [handler EXCEPT ![Main] = "halt"]
         /\ stage \in Computing /\ scenario.sigint # {}
      \/ handler' = [handler EXCEPT ![Main] = "global_gc"] /\ stage \in Timed
  <2>1. CASE Sigint
    BY <2>1, PhaseIsStage DEF Sigint, Signal, IInv, Early
  <2>2. CASE GCTimerSignal
    BY <2>2 DEF GCTimerSignal, Signal, IInv, Handlers
  <2> QED BY <2>1, <2>2
<1>4. stage' = stage
  BY <1>1, <1>2 DEF stage
<1>5. Handlers'
  BY <1>1, <1>3, <1>4 DEF IInv, Handlers, steady
<1>6. Quiet' /\ ErrorAfterGC'
  BY <1>1, <1>3 DEF IInv, Quiet, ErrorAfterGC, Handlers, steady
<1>7. TypeOK' /\ Early' /\ AtBarrier' /\ Roles' /\ Together' /\ OneReset'
  BY <1>1, <1>2, <1>5 DEF IInv, TypeOK, B!TypeOK, Early, AtBarrier, Roles, Together, AllAt, SameEnd,
                          OneReset, Handlers, steady
<1>8. StateRead' /\ StateFits'
  BY <1>1, <1>2 DEF IInv, StateRead, StateFits, Waiting
<1> QED BY <1>5, <1>6, <1>7, <1>8 DEF IInv

(* The handler of main assigns what it came for.                            *)
LEMMA HandlerIInv ==
  ASSUME IInv, NEW w \in Threads, HandlerSets(w)
  PROVE  IInv'
<1>1. /\ w = Main /\ Main \in Threads
      /\ handler[Main] \in {"halt", "global_gc"} /\ m_state' = handler[Main] /\ ~aborted
      /\ handler' = [handler EXCEPT ![Main] = "none"]
      /\ UNCHANGED <<pc, back, halting, gc_unblocked, aborted, steady>>
  BY MainAssumption DEF HandlerSets, IInv, Handlers
<1>2. place' = place
  BY <1>1, PlaceStays
<1>3. stage' = stage
  BY <1>1, <1>2 DEF stage
<1>4. /\ m_state \in {"evaluate", "global_gc"} /\ stage \in Computing
      /\ m_state = "global_gc" => m_state' = "global_gc"
      /\ scenario.sigint = {} => m_state' = "global_gc"
  BY <1>1 DEF IInv, Handlers, Computing
<1>5. Handlers' /\ Quiet' /\ ErrorAfterGC'
  BY <1>1, <1>3, <1>4 DEF IInv, Handlers, Quiet, ErrorAfterGC, steady
<1>6. TypeOK' /\ Early' /\ AtBarrier' /\ Roles' /\ Together' /\ OneReset'
  BY <1>1, <1>2, <1>5 DEF IInv, TypeOK, States, B!TypeOK, Early, AtBarrier, Roles, Together, AllAt,
                          SameEnd, OneReset, Handlers, steady
<1>7. StateRead'
  BY <1>1, <1>2, <1>4 DEF IInv, StateRead
<1>8. StateFits'
  BY <1>1, <1>2, <1>4 DEF IInv, StateFits, States, stage, Computing, Timed, GC, GCSites
<1> QED BY <1>5, <1>6, <1>7, <1>8 DEF IInv

(* Main has joined the workers.                                             *)
LEMMA JoinedIInv ==
  ASSUME IInv, NEW w \in Threads, Join(w)
  PROVE  IInv'
<1>1. /\ w = Main /\ Main \in Threads /\ pc[Main] = "join" /\ Runs(Main) /\ Goto(Main, "done")
      /\ UNCHANGED <<m_state, back, halting, handler, gc_unblocked, aborted, steady>>
  BY DEF Join, MainStep, At
<1>2. pc[Main] \notin Sites
  BY <1>1 DEF Sites, GCSites
<1>3. /\ place[Main] = "join" /\ Main \notin arrived \cup released
      /\ place' = [place EXCEPT ![Main] = "done"]
  BY <1>1, <1>2, PlaceMoves
<1>4. place'[Main] = "done" /\ \A u \in Threads : u # Main => place'[u] = place[u]
  BY <1>1, <1>3 DEF place
<1>5. AllAt(Ends)
  BY <1>1, <1>3 DEF IInv, Together, AllAt, MainBusy, WorkerBusy
<1>6. TypeOK' /\ Early' /\ AtBarrier'
  BY <1>1, <1>3 DEF IInv, TypeOK, PCs, B!TypeOK, Early, AtBarrier, Goto, steady
<1>7. Roles' /\ Together' /\ OneReset'
  BY <1>1, <1>4, <1>5 DEF IInv, Roles, Together, AllAt, Ends, OneReset, GC, GCSites
<1>8. StateRead' /\ StateFits'
  BY <1>1, <1>4, <1>5 DEF IInv, StateRead, StateFits, AllAt, Ends, Computing, Timed
<1>9. Handlers' /\ Quiet' /\ ErrorAfterGC'
  BY <1>1, <1>3, <1>4 DEF IInv, Handlers, stage, Timed, Computing, GC, GCSites, Quiet, ErrorAfterGC, Runs, steady
<1> QED BY <1>6, <1>7, <1>8, <1>9 DEF IInv

-----------------------------------------------------------------------------
(* The barrier.  One that waits, or leaves, stays where it is.              *)
LEMMA ArriveIInv ==
  ASSUME IInv, NEW w \in Threads, pc[w] \in Sites, B!Arrive(w), ~aborted,
         UNCHANGED <<m_state, pc, back, halting, handler, gc_unblocked, aborted, scenario>>
  PROVE  IInv'
<1>1. /\ w \notin arrived \cup released /\ arrived' = arrived \cup {w}
      /\ UNCHANGED <<released, serial>>
  BY DEF B!Arrive
<1>2. place' = place
  BY <1>1 DEF place, Behind, AfterHalt, Resets
<1>3. TypeOK' /\ AtBarrier'
  BY <1>1 DEF IInv, TypeOK, B!TypeOK, AtBarrier
<1>4. Early' /\ Roles' /\ Together' /\ OneReset'
  BY <1>2 DEF IInv, Early, Roles, Together, AllAt, SameEnd, OneReset
<1>5. StateRead' /\ StateFits' /\ Handlers' /\ Quiet' /\ ErrorAfterGC'
  BY <1>2 DEF IInv, StateRead, StateFits, Waiting, Handlers, stage, Quiet, ErrorAfterGC
<1> QED BY <1>3, <1>4, <1>5 DEF IInv

LEMMA LeaveIInv ==
  ASSUME IInv, NEW w \in Threads, Leave(w)
  PROVE  IInv'
<1>1. /\ w \in released /\ released' = released \ {w} /\ serial' = serial \ {w}
      /\ pc[w] \in Sites /\ ~aborted /\ Goto(w, Behind(w))
      /\ UNCHANGED <<m_state, back, halting, handler, gc_unblocked, aborted, arrived, scenario>>
  BY DEF Leave, B!Leave, Runs
<1>2. /\ pc'[w] = Behind(w)
      /\ \A u \in Threads : u # w => pc'[u] = pc[u]
  BY <1>1 DEF Goto, IInv, TypeOK
<1>3. place' = place
  <2>1. ASSUME NEW u \in Threads PROVE place'[u] = place[u]
    <3>1. CASE u = w
      BY <1>1, <1>2, <3>1 DEF place
    <3>2. CASE u # w
      <4>1. Behind(u)' = Behind(u)
        BY <1>1, <1>2, <3>2 DEF Behind, AfterHalt, Resets
      <4> QED BY <1>1, <1>2, <3>2, <4>1 DEF place
    <3> QED BY <3>1, <3>2
  <2> QED BY <2>1 DEF place
<1>4. TypeOK' /\ AtBarrier'
  <2>1. Behind(w) \in PCs
    BY <1>1 DEF IInv, TypeOK, PCs, Sites, GCSites, Behind, AfterHalt, Resets
  <2>2. pc' \in [Threads -> PCs]
    BY <1>1, <2>1 DEF Goto, IInv, TypeOK
  <2> QED BY <1>1, <1>2, <2>2 DEF IInv, TypeOK, B!TypeOK, AtBarrier
<1>5. Early' /\ Roles' /\ Together' /\ OneReset'
  BY <1>1, <1>3 DEF IInv, Early, Roles, Together, AllAt, SameEnd, OneReset
<1>6. StateRead' /\ StateFits' /\ Handlers' /\ Quiet' /\ ErrorAfterGC'
  BY <1>1, <1>3 DEF IInv, StateRead, StateFits, Waiting, Handlers, stage, Quiet, ErrorAfterGC
<1> QED BY <1>4, <1>5, <1>6 DEF IInv

(* The serial thread has reset the state; there is only one.                *)
LEMMA ResetIInv ==
  ASSUME IInv, NEW w \in Threads, Reset(w)
  PROVE  IInv'
<1>1. /\ pc[w] = "reset" /\ Runs(w) /\ Goto(w, "gc2") /\ m_state' = "evaluate"
      /\ UNCHANGED <<back, halting, handler, gc_unblocked, aborted, steady>>
  BY DEF Reset, At
<1>2. Main \in Threads
  BY MainAssumption
<1>3. pc[w] \notin Sites
  BY <1>1 DEF Sites, GCSites
<1>4. /\ place[w] = "reset" /\ w \notin arrived \cup released
      /\ place' = [place EXCEPT ![w] = "gc2"]
  BY <1>1, <1>3, PlaceMoves
<1>5. place'[w] = "gc2" /\ \A u \in Threads : u # w => place'[u] = place[u] /\ place[u] # "reset"
  BY <1>4 DEF place, IInv, OneReset
<1>6. AllAt({"reset", "gc2"}) /\ SameEnd
  BY <1>4 DEF IInv, Together, AllAt, MainBusy, WorkerBusy, Ends
<1>7. AllAt({"gc2"})'
  BY <1>5, <1>6 DEF AllAt
<1>8. TypeOK' /\ Early' /\ AtBarrier'
  <2>1. pc' \in [Threads -> PCs]
    BY <1>1 DEF Goto, IInv, TypeOK, PCs, Sites, GCSites
  <2> QED BY <1>1, <1>4, <2>1 DEF IInv, TypeOK, States, B!TypeOK, Early, AtBarrier, Goto, steady
<1>9. Roles' /\ Together' /\ OneReset'
  <2>1. Roles'
    BY <1>1, <1>4, <1>5 DEF IInv, Roles, Sites, GC, GCSites
  <2>2. Together' /\ OneReset'
    BY <1>1, <1>6, <1>7 DEF Together, AllAt, SameEnd, OneReset
  <2> QED BY <2>1, <2>2
<1>10. StateRead' /\ StateFits'
  BY <1>1, <1>2, <1>7 DEF AllAt, StateRead, StateFits, States, Computing, Timed
<1>11. m_state # "evaluate" /\ m_state # "halt" /\ stage' = stage
  <2>1. m_state # "evaluate" /\ m_state # "halt"
    BY <1>4 DEF IInv, StateRead
  <2>2. place[Main] \in GC /\ place'[Main] \in GC
    BY <1>2, <1>6, <1>7 DEF AllAt, GC, GCSites
  <2> QED BY <1>1, <2>1, <2>2 DEF stage
<1>12. Handlers' /\ Quiet' /\ ErrorAfterGC'
  <2>1. Handlers' /\ Quiet'
    BY <1>1, <1>11 DEF IInv, Handlers, Quiet, steady
  <2>2. ErrorAfterGC'
    BY <1>1 DEF IInv, ErrorAfterGC, Runs, steady
  <2> QED BY <2>1, <2>2
<1> QED BY <1>8, <1>9, <1>10, <1>12 DEF IInv

(* When all wait, they wait at the same barrier.                            *)
LEMMA OneSite ==
  ASSUME IInv, \A u \in Threads : place[u] \in Sites
  PROVE  \E s \in Sites : AllAt({s})
<1>1. Main \in Threads
  BY MainAssumption
<1>2. CASE AllAt(MainBusy \cup WorkerBusy \cup {"gc1", "halt"})
  <2>1. \A u \in Threads : place[u] \in {"gc1", "halt"}
    BY <1>2 DEF AllAt, Sites, GCSites, MainBusy, WorkerBusy
  <2>2. \A u, v \in Threads : place[u] = "halt" => place[v] # "gc1"
    BY <1>1, <2>1 DEF IInv, StateRead
  <2>3. AllAt({"gc1"}) \/ AllAt({"halt"})
    BY <1>1, <2>1, <2>2 DEF AllAt
  <2> QED BY <2>3 DEF Sites, GCSites
<1>3. CASE AllAt({"reset", "gc2"})
  <2>1. AllAt({"gc2"})
    BY <1>3 DEF AllAt, Sites, GCSites
  <2> QED BY <2>1 DEF Sites, GCSites
<1>4. CASE AllAt({"start"}) \/ AllAt({"gc3"}) \/ AllAt({"gc4"}) \/ AllAt({"final"})
  BY <1>4 DEF Sites, GCSites
<1>5. ~AllAt(Ends)
  BY <1>1 DEF AllAt, Ends, Sites, GCSites
<1> QED BY <1>2, <1>3, <1>4, <1>5 DEF IInv, Together

(* The last one releases everybody; one of them may have to reset the state. *)
LEMMA TripIInv ==
  ASSUME IInv, NEW w \in Threads, pc[w] \in Sites, B!Trip(w), ~aborted,
         UNCHANGED <<m_state, pc, back, halting, handler, gc_unblocked, aborted, scenario>>
  PROVE  IInv'
<1>0. Main \in Threads
  BY MainAssumption
<1>1. released = {} /\ serial = {} /\ arrived \cup {w} = Threads
  BY DEF B!Trip, B!Last, IInv, TypeOK, B!TypeOK
<1>2. released' = Threads /\ arrived' = {} /\ \E t \in Threads : serial' = {t}
  BY <1>1 DEF B!Trip
<1>3. \A u \in Threads : pc[u] \in Sites /\ place[u] = pc[u]
  BY <1>1 DEF IInv, AtBarrier, place
<1>4. PICK s \in Sites : AllAt({s})
  BY <1>3, OneSite
<1>5. \A u \in Threads : place[u] = s /\ pc'[u] = s
  BY <1>3, <1>4 DEF AllAt
<1>6. \A u \in Threads : place'[u] = Behind(u)'
  BY <1>2 DEF place
<1>7. TypeOK' /\ Early' /\ AtBarrier'
  BY <1>2, <1>3 DEF IInv, TypeOK, B!TypeOK, Early, AtBarrier
<1>8. ErrorAfterGC' /\ Quiet'
  BY DEF IInv, ErrorAfterGC, Quiet
<1>9. \A u \in Threads : back'[u] = back[u]
  OBVIOUS
<1> DEFINE Rest == /\ Roles' /\ Together' /\ OneReset' /\ StateRead' /\ StateFits' /\ Handlers'
<1> SUFFICES Rest
  BY <1>7, <1>8 DEF IInv
<1>10. CASE s = "start"
  <2>1. \A u \in Threads : place'[u] = IF u = Main THEN "compute" ELSE "loop"
    BY <1>5, <1>6, <1>10 DEF Behind
  <2>2. m_state = "startup"
    BY <1>0, <1>5, <1>10 DEF IInv, StateFits
  <2>3. Roles' /\ Together' /\ OneReset'
    BY <2>1 DEF Roles, Together, AllAt, OneReset, MainBusy, WorkerBusy, GC, GCSites
  <2>4. StateRead' /\ StateFits'
    BY <1>0, <2>1, <2>2 DEF StateRead, StateFits, States, Computing, Timed
  <2>5. Handlers'
    BY <1>0, <1>5, <1>10, <2>2 DEF IInv, Handlers, stage, GC, GCSites, Timed
  <2> QED BY <2>3, <2>4, <2>5
<1>11. CASE s = "gc1"
  <2>1. PICK t \in Threads : \A u \in Threads : place'[u] = IF u = t THEN "reset" ELSE "gc2"
    BY <1>2, <1>5, <1>6, <1>11 DEF Behind, Resets
  <2>2. \/ m_state = "global_gc" /\ \A u \in Threads : back[u] # "final"
        \/ m_state = "shutdown" /\ \A u \in Threads : back[u] = "final"
    BY <1>0, <1>5, <1>11 DEF IInv, StateRead
  <2>3. Roles'
    BY <1>5, <1>11, <2>1 DEF IInv, Roles, Sites, GC, GCSites
  <2>4. Together' /\ OneReset'
    BY <2>1, <2>2 DEF Together, AllAt, SameEnd, OneReset
  <2>5. StateRead' /\ StateFits'
    BY <1>0, <2>1, <2>2 DEF StateRead, StateFits, States, Computing, Timed
  <2>6. stage' = stage
    BY <1>0, <1>5, <1>11, <2>1 DEF stage, GC, GCSites
  <2>7. Handlers'
    BY <2>6 DEF IInv, Handlers
  <2> QED BY <2>3, <2>4, <2>5, <2>7
<1>12. CASE s \in {"gc2", "gc3"}
  <2>1. /\ SameEnd
        /\ \A u \in Threads : place'[u] = IF s = "gc2" THEN "gc3" ELSE "gc4"
    BY <1>0, <1>5, <1>6, <1>12 DEF Behind, IInv, Together, AllAt, MainBusy, WorkerBusy, Ends
  <2>2. IF back[Main] \in {"check", "final"}
        THEN m_state = "evaluate"
        ELSE m_state \in {"evaluate", "global_gc", "halt"}
    BY <1>0, <1>5, <1>12 DEF IInv, StateFits
  <2>3. Roles'
    BY <1>5, <1>12, <2>1 DEF IInv, Roles, Sites, GC, GCSites
  <2>4. Together' /\ OneReset'
    BY <2>1 DEF Together, AllAt, SameEnd, OneReset
  <2>5. StateRead' /\ StateFits'
    BY <1>0, <2>1, <2>2 DEF StateRead, StateFits, States, Computing, Timed
  <2>6. stage' = stage
    BY <1>0, <1>5, <1>12, <2>1 DEF stage, GC, GCSites
  <2>7. Handlers'
    BY <2>6 DEF IInv, Handlers
  <2> QED BY <2>3, <2>4, <2>5, <2>7
<1>13. CASE s = "gc4"
  <2>1. SameEnd /\ \A u \in Threads : place'[u] = back[u]
    BY <1>0, <1>5, <1>6, <1>13 DEF Behind, IInv, Together, AllAt, MainBusy, WorkerBusy, Ends
  <2>2. IF back[Main] \in {"check", "final"}
        THEN m_state = "evaluate"
        ELSE m_state \in {"evaluate", "global_gc", "halt"}
    BY <1>0, <1>5, <1>13 DEF IInv, StateFits
  <2>3. \A u \in Threads :
          back[u] \in {"eval", "oom_gc", "final"}
            \cup IF u = Main THEN {"check"} ELSE {"idle2", "loop"}
    BY <1>5, <1>13 DEF IInv, Roles, GC, GCSites
  <2>4. Roles' /\ OneReset'
    BY <2>1, <2>3 DEF Roles, OneReset, MainBusy, WorkerBusy, Sites, GC, GCSites
  <2>5. Together'
    <3>1. CASE back[Main] = "final"
      BY <1>0, <2>1, <3>1 DEF Together, AllAt, SameEnd
    <3>2. CASE back[Main] # "final"
      BY <1>0, <2>1, <2>3, <3>2 DEF Together, AllAt, SameEnd, MainBusy, WorkerBusy
    <3> QED BY <3>1, <3>2
  <2>6. StateRead' /\ StateFits'
    BY <1>0, <2>1, <2>2, <2>3 DEF StateRead, StateFits, States, Computing, Timed
  <2>7. stage' = stage
    BY <1>0, <1>5, <1>13, <2>1, <2>3 DEF stage, GC, GCSites
  <2>8. Handlers'
    BY <2>7 DEF IInv, Handlers
  <2> QED BY <2>4, <2>5, <2>6, <2>8
<1>14. CASE s = "halt"
  <2>1. \A u \in Threads : /\ place'[u] = IF u = Main THEN "check" ELSE "gc1"
                          /\ back[u] = IF u = Main THEN "check" ELSE "final"
    BY <1>5, <1>6, <1>14 DEF Behind, AfterHalt, IInv, Roles
  <2>2. m_state = "halt"
    BY <1>0, <1>5, <1>14 DEF IInv, StateRead
  <2>3. Roles' /\ Together' /\ OneReset'
    BY <2>1 DEF Roles, Together, AllAt, OneReset, MainBusy, WorkerBusy, Sites, GC, GCSites
  <2>4. StateRead' /\ StateFits'
    BY <1>0, <2>1, <2>2 DEF StateRead, StateFits, Waiting, States, Computing, Timed
  <2>5. Handlers'
    BY <1>0, <1>5, <1>14, <2>2 DEF IInv, Handlers, stage, GC, GCSites, Timed
  <2> QED BY <2>3, <2>4, <2>5
<1>15. CASE s = "final"
  <2>1. \A u \in Threads : place'[u] = IF u = Main THEN "join" ELSE "exited"
    BY <1>5, <1>6, <1>15 DEF Behind
  <2>2. Roles' /\ Together' /\ OneReset'
    BY <2>1 DEF Roles, Together, AllAt, Ends, OneReset, GC, GCSites
  <2>3. StateRead' /\ StateFits'
    BY <1>0, <2>1 DEF StateRead, StateFits, IInv, Computing, Timed
  <2>4. stage \notin Computing
    BY <1>0, <1>5, <1>15 DEF stage, GC, GCSites, Computing, Timed
  <2>5. Handlers'
    BY <1>0, <2>4 DEF IInv, Handlers, Computing
  <2> QED BY <2>2, <2>3, <2>5
<1> QED BY <1>10, <1>11, <1>12, <1>13, <1>14, <1>15 DEF Sites, GCSites

-----------------------------------------------------------------------------
(* Every step preserves the invariant.                                      *)
LEMMA NextIInv == IInv /\ [Next]_vars => IInv'
<1> SUFFICES ASSUME IInv, [Next]_vars PROVE IInv'
  OBVIOUS
<1>1. ASSUME NEW w \in Threads, Arrive(w)
      PROVE  IInv'
  BY <1>1, ArriveIInv, TripIInv DEF Arrive, Runs
<1>2. ASSUME NEW w \in Threads, EvalInspect(w)
      PROVE  IInv'
  BY <1>2, InspectIInv DEF EvalInspect, At, Inspects
<1>3. ASSUME NEW w \in Threads, OOMInspect(w)
      PROVE  IInv'
  BY <1>3, InspectIInv DEF OOMInspect, At, Inspects
<1>4. ASSUME NEW w \in Threads, ComputeStep(w)
      PROVE  IInv'
  <2>1. CASE Inspect1(w)
    BY <2>1, InspectIInv DEF Inspect1, At, Inspects
  <2>2. CASE Inspect2(w)
    BY <2>2, InspectIInv DEF Inspect2, At, Inspects
  <2> QED BY <1>4, <2>1, <2>2, ComputeIInv, JoinedIInv DEF ComputeStep
<1>5. ASSUME NEW w \in Threads, w # Main, RunQueue(w)
      PROVE  IInv'
  <2>1. CASE Idle1(w)
    BY <1>5, <2>1, InspectIInv DEF Idle1, At, Inspects
  <2>2. CASE Idle2(w)
    BY <1>5, <2>2, InspectIInv DEF Idle2, At, Inspects
  <2> QED BY <1>5, <2>1, <2>2, LookIInv DEF RunQueue
<1>6. ASSUME NEW w \in Threads, EvalHalted(w) \/ EvalDone(w) \/ OOMError(w) \/ OOMFreed(w)
      PROVE  IInv'
  BY <1>6, EvalDoneIInv, AbortIInv DEF EvalHalted
<1>7. ASSUME NEW w \in Threads, Leave(w) \/ Reset(w) \/ HandlerSets(w) \/ OutOfMemory(w)
      PROVE  IInv'
  BY <1>7, LeaveIInv, ResetIInv, HandlerIInv, OutOfMemoryIInv
<1>8. CASE Sigint \/ GCTimerSignal
  BY <1>8, SignalIInv
<1>9. CASE UNCHANGED vars
  <2>1. place' = place
    BY <1>9, PlaceStays DEF vars
  <2>2. TypeOK' /\ Early' /\ AtBarrier' /\ Roles' /\ Together' /\ OneReset'
    BY <1>9, <2>1 DEF IInv, vars, steady, TypeOK, B!TypeOK, Early, AtBarrier, Roles, Together, AllAt, SameEnd, OneReset
  <2>3. StateRead' /\ StateFits' /\ Handlers' /\ Quiet' /\ ErrorAfterGC'
    BY <1>9, <2>1 DEF IInv, vars, steady, StateRead, StateFits, Waiting, Handlers, stage, Quiet, ErrorAfterGC
  <2> QED BY <2>2, <2>3 DEF IInv
<1> QED BY <1>1, <1>2, <1>3, <1>4, <1>5, <1>6, <1>7, <1>8, <1>9 DEF Next, Step, Terminated

LEMMA AlwaysIInv == Spec /\ Early => []IInv
<1>1. Init /\ Early => IInv
  BY InitIInv
<1>2. IInv /\ [Next]_vars => IInv'
  BY NextIInv
<1> QED BY <1>1, <1>2, PTL DEF Spec

(* With interrupts and failing allocations in time, for any number of       *)
(* threads: the variables have their types (worker.h:150-562).              *)
THEOREM TypeCorrect == Spec /\ Early => []TypeOK
<1>1. IInv => TypeOK
  BY DEF IInv
<1> QED BY <1>1, AlwaysIInv, PTL

(* The threads that wait, wait at the same barrier (worker.h:324-375).      *)
THEOREM BarriersMatch == Spec /\ Early => []SameBarrier
<1>1. IInv => SameBarrier
  <2> SUFFICES ASSUME IInv, NEW v \in arrived, NEW w \in arrived PROVE pc[v] = pc[w]
    BY DEF SameBarrier
  <2>1. v \in Threads /\ w \in Threads /\ v \notin released /\ w \notin released
    BY DEF IInv, TypeOK, B!TypeOK
  <2>2. place[v] = pc[v] /\ place[w] = pc[w] /\ pc[v] \in Sites /\ pc[w] \in Sites
    BY <2>1 DEF place, IInv, AtBarrier
  <2>3. ~(place[v] = "gc1" /\ place[w] = "halt") /\ ~(place[v] = "halt" /\ place[w] = "gc1")
    <3>1. ASSUME NEW x \in Threads, NEW y \in Threads, place[x] = "halt", place[y] = "gc1"
          PROVE  FALSE
      <4>1. m_state = "halt" /\ place[Main] \in {"check", "set_shutdown"}
        BY <3>1 DEF IInv, StateRead
      <4>2. Waiting /\ x # Main
        BY <3>1, <4>1 DEF IInv, StateFits
      <4> QED BY <3>1, <4>2 DEF Waiting
    <3> QED BY <2>1, <3>1
  <2>4. \A x \in Threads : place[x] \in Ends => place[x] \notin Sites
    BY DEF Ends, Sites, GCSites
  <2>5. CASE AllAt(MainBusy \cup WorkerBusy \cup {"gc1", "halt"})
    BY <2>1, <2>2, <2>3, <2>5 DEF AllAt, MainBusy, WorkerBusy, Sites, GCSites
  <2>6. CASE AllAt({"reset", "gc2"})
    BY <2>1, <2>2, <2>6 DEF AllAt, Sites, GCSites
  <2> QED BY <2>1, <2>2, <2>4, <2>5, <2>6 DEF IInv, Together, AllAt
<1> QED BY <1>1, AlwaysIInv, PTL

(* Who works on a part of a collection is there.                            *)
LEMMA WorkingPlace ==
  ASSUME IInv, NEW w \in Threads, NEW p \in {"gc2", "gc3", "gc4"}, WorksOn(w, {p})
  PROVE  place[w] = p
BY DEF WorksOn, place

(* No thread unmarks, marks or sweeps while another is in another of these  *)
(* phases (gc_marksweep.h:376-475).                                         *)
THEOREM PhasesMatch == Spec /\ Early => []SamePhase
<1>1. IInv => SamePhase
  <2> SUFFICES ASSUME IInv, NEW v \in Threads, NEW w \in Threads,
                      NEW p \in {"gc2", "gc3", "gc4"}, NEW q \in {"gc2", "gc3", "gc4"},
                      WorksOn(v, {p}), WorksOn(w, {q})
               PROVE  p = q
    BY DEF SamePhase
  <2>1. place[v] = p /\ place[w] = q
    BY WorkingPlace
  <2> QED BY <2>1 DEF IInv, Together, AllAt, MainBusy, WorkerBusy, Ends
<1> QED BY <1>1, AlwaysIInv, PTL

(* Nobody evaluates or looks for work meanwhile (worker.h:330-332).         *)
THEOREM WorldStops == Spec /\ Early => []StopTheWorld
<1>1. IInv => StopTheWorld
  <2> SUFFICES ASSUME IInv, NEW v \in Threads, WorksOn(v, {"gc2", "gc3", "gc4"}), NEW w \in Threads
               PROVE  pc[w] \notin {"eval", "oom", "loop", "idle1", "idle2"}
    BY DEF StopTheWorld
  <2>1. place[v] \in {"gc2", "gc3", "gc4"}
    BY DEF WorksOn, place
  <2>2. place[w] \in {"reset", "gc2", "gc3", "gc4"}
    BY <2>1 DEF IInv, Together, AllAt, MainBusy, WorkerBusy, Ends
  <2>3. w \in released => pc[w] \in Sites
    BY DEF IInv, AtBarrier
  <2> QED BY <2>2, <2>3 DEF place, Sites, GCSites
<1> QED BY <1>1, AlwaysIInv, PTL

(* Without interrupts a thread that ran out of memory finds its request     *)
(* when it inspects the state, so that it reports the error only behind its *)
(* collection, and nothing else ends the program (worker.h:544-545).        *)
THEOREM ErrorsAreLate == Spec /\ Early => []NoEarlyError
<1>1. ASSUME IInv PROVE NoEarlyError
  <2>1. \A w \in Threads : pc[w] = "oom" => place[w] = "oom"
    BY <1>1 DEF IInv, AtBarrier, Sites, GCSites, place
  <2> QED
    BY <1>1, <2>1 DEF IInv, StateRead, ErrorAfterGC, NoEarlyError
<1> QED BY <1>1, AlwaysIInv, PTL

-----------------------------------------------------------------------------
(* A released thread is still in the round that it has completed.           *)
LEMMA BehindIs ==
  ASSUME IInv, NEW w \in released
  PROVE  /\ w \in Threads /\ pc[w] \in Sites /\ place[w] = Behind(w)
         /\ place[w] \in {"reset", "gc2"} => pc[w] = "gc1"
         /\ place[w] = "gc3" => pc[w] = "gc2"
         /\ place[w] = "gc4" => pc[w] = "gc3"
         /\ place[w] = "gc1" => pc[w] = "halt"
         /\ pc[w] = "gc1" => place[w] \in {"reset", "gc2"}
         /\ pc[w] = "gc4" => place[w] = back[w] /\ back[w] \notin GC
         /\ pc[w] = "halt" => IF w = Main THEN place[w] \notin GC ELSE place[w] = "gc1"
<1>1. w \in Threads /\ pc[w] \in Sites /\ place[w] = Behind(w)
  BY DEF IInv, TypeOK, B!TypeOK, AtBarrier, place
<1>2. place[w] \in GC => back[w] \notin GC
  BY <1>1 DEF IInv, Roles, GC, GCSites
<1>3. Behind(w) = CASE pc[w] = "start" -> IF w = Main THEN "compute" ELSE "loop"
    [] pc[w] = "gc1"   -> IF Resets(w) THEN "reset" ELSE "gc2"
    [] pc[w] = "gc2"   -> "gc3"
    [] pc[w] = "gc3"   -> "gc4"
    [] pc[w] = "gc4"   -> back[w]
    [] pc[w] = "halt"  -> IF w = Main THEN back[w] ELSE "gc1"
    [] pc[w] = "final" -> IF w = Main THEN "join" ELSE "exited"
  BY DEF Behind, AfterHalt
<1> QED BY <1>1, <1>2, <1>3 DEF Sites, GC, GCSites

(* The part of a collection that a thread is in, by where it is.            *)
LEMMA PartIs ==
  ASSUME NEW w \in Threads
  PROVE  LET working == w \notin arrived \cup released IN
         /\ pc[w] \in {"gc1", "reset"} => part[w] = "gc1"
         /\ pc[w] = "gc2" => part[w] = IF working THEN "gc1" ELSE "gc2"
         /\ pc[w] = "gc3" => part[w] = IF working THEN "mark" ELSE "gc3"
         /\ pc[w] = "gc4" => part[w] = IF working THEN "gc3" ELSE "gc4"
         /\ pc[w] \notin GC => part[w] = "run"
BY DEF part, GC, GCSites

(* A step by which a single thread goes from one part to another.           *)
LEMMA PartMoves ==
  ASSUME NEW w \in Threads, \A u \in Threads : u # w => part'[u] = part[u]
  PROVE  part' = [part EXCEPT ![w] = part'[w]]
BY DEF part

(* Who has left a barrier of a collection, left it together with all others. *)
LEMMA PartsTogether ==
  ASSUME IInv, NEW w \in Threads
  PROVE  /\ place[w] \in {"reset", "gc2"} => \A u \in Threads : part[u] \in {"gc1", "gc2"}
         /\ place[w] = "gc3" => \A u \in Threads : part[u] \in {"gc2", "mark", "gc3"}
         /\ place[w] = "gc4" => \A u \in Threads : part[u] \in {"gc3", "gc4"}
         /\ place[w] \notin {"reset", "gc2", "gc3", "gc4"} =>
              \A u \in Threads : part[u] \in {"gc4", "run", "gc1"}
<1>1. ASSUME NEW u \in Threads, place[u] \in {"reset", "gc2"}
      PROVE  part[u] \in {"gc1", "gc2"}
  <2>1. CASE u \in released
    BY <1>1, <2>1, BehindIs, PartIs
  <2>2. CASE u \notin released
    BY <1>1, <2>2, PartIs DEF place
  <2> QED BY <2>1, <2>2
<1>2. ASSUME NEW u \in Threads, place[u] = "gc3"
      PROVE  part[u] \in {"gc2", "mark", "gc3"}
  <2>1. CASE u \in released
    BY <1>2, <2>1, BehindIs, PartIs
  <2>2. CASE u \notin released
    BY <1>2, <2>2, PartIs DEF place
  <2> QED BY <2>1, <2>2
<1>3. ASSUME NEW u \in Threads, place[u] = "gc4"
      PROVE  part[u] \in {"gc3", "gc4"}
  <2>1. CASE u \in released
    BY <1>3, <2>1, BehindIs, PartIs
  <2>2. CASE u \notin released
    BY <1>3, <2>2, PartIs DEF place
  <2> QED BY <2>1, <2>2
<1>4. ASSUME NEW u \in Threads, place[u] \notin {"reset", "gc2", "gc3", "gc4"}
      PROVE  part[u] \in {"gc4", "run", "gc1"}
  <2>1. CASE u \in released
    <3>1. pc[u] \notin {"gc1", "gc2", "gc3", "reset"}
      BY <1>4, <2>1, BehindIs DEF Behind, Sites, GCSites
    <3> QED BY <2>1, <3>1, PartIs DEF GC, GCSites
  <2>2. CASE u \notin released
    BY <1>4, <2>2, PartIs DEF place, GC, GCSites
  <2> QED BY <2>1, <2>2
<1>5. /\ place[w] \in {"reset", "gc2"} => AllAt({"reset", "gc2"})
      /\ place[w] = "gc3" => AllAt({"gc3"})
      /\ place[w] = "gc4" => AllAt({"gc4"})
      /\ place[w] \notin {"reset", "gc2", "gc3", "gc4"} =>
           \A u \in Threads : place[u] \notin {"reset", "gc2", "gc3", "gc4"}
  BY DEF IInv, Together, AllAt, MainBusy, WorkerBusy, Ends
<1> QED BY <1>1, <1>2, <1>3, <1>4, <1>5 DEF AllAt

(* A step away from the barriers enters a collection or none.               *)
LEMMA AwayParts ==
  ASSUME IInv, NEW w \in Threads, NEW l, Goto(w, l), UNCHANGED steady,
         pc[w] \notin Sites,
         pc[w] = "reset" => l = "gc2",
         pc[w] # "reset" => l \notin {"reset", "gc2", "gc3", "gc4"}
  PROVE  [Order!Next]_part
<1>1. w \notin arrived \cup released
  BY DEF IInv, AtBarrier
<1>2. pc'[w] = l /\ \A u \in Threads : u # w => pc'[u] = pc[u]
  BY DEF Goto, IInv, TypeOK
<1>3. \A u \in Threads : u # w => part'[u] = part[u]
  BY <1>2 DEF part, steady
<1>4. part' = [part EXCEPT ![w] = part'[w]]
  BY <1>3, PartMoves
<1>5. w \notin arrived' \cup released'
  BY <1>1 DEF steady
<1>6. part'[w] = part[w] \/ (part[w] = "run" /\ part'[w] = "gc1")
  <2>1. CASE pc[w] = "reset"
    BY <1>1, <1>2, <1>5, <2>1 DEF part
  <2>2. CASE pc[w] # "reset"
    <3>1. part[w] = "run"
      BY <2>2, PartIs DEF GC, Sites
    <3>2. part'[w] \in {"run", "gc1"}
      BY <1>2, <2>2 DEF part
    <3> QED BY <3>1, <3>2
  <2> QED BY <2>1, <2>2
<1>7. CASE part'[w] = part[w]
  <2>1. part' = part
    BY <1>4, <1>7 DEF part
  <2> QED BY <2>1
<1>8. CASE part[w] = "run" /\ part'[w] = "gc1"
  <2>1. Order!Enter(w)
    BY <1>4, <1>8 DEF Order!Enter, Order!Go
  <2> QED BY <2>1 DEF Order!Next
<1> QED BY <1>6, <1>7, <1>8

(* Who comes to a barrier has done the work before it.                      *)
LEMMA ArriveParts ==
  ASSUME IInv, NEW w \in Threads, Arrive(w)
  PROVE  [Order!Next]_part
<1>1. /\ w \notin arrived \cup released
      /\ arrived' \cup released' = arrived \cup released \cup {w}
      /\ pc' = pc
  BY DEF Arrive, B!Arrive, B!Trip
<1>2. \A u \in Threads : u # w => part'[u] = part[u]
  BY <1>1 DEF part
<1>3. part' = [part EXCEPT ![w] = part'[w]]
  BY <1>2, PartMoves
<1>4. place[w] = pc[w] /\ pc[w] \in Sites
  BY <1>1 DEF place, Arrive
<1>5. CASE pc[w] = "gc2"
  <2>1. part[w] = "gc1" /\ part'[w] = "gc2"
    BY <1>1, <1>5 DEF part
  <2>2. Order!Unmark(w)
    BY <1>3, <1>4, <1>5, <2>1, PartsTogether DEF Order!Unmark, Order!Go, Order!Arrived
  <2> QED BY <2>2 DEF Order!Next
<1>6. CASE pc[w] = "gc3"
  <2>1. part[w] = "mark" /\ part'[w] = "gc3"
    BY <1>1, <1>6 DEF part
  <2>2. Order!SweepLocal(w)
    BY <1>3, <2>1 DEF Order!SweepLocal, Order!Go
  <2> QED BY <2>2 DEF Order!Next
<1>7. CASE pc[w] = "gc4"
  <2>1. part[w] = "gc3" /\ part'[w] = "gc4"
    BY <1>1, <1>7 DEF part
  <2>2. Order!SweepGlobal(w)
    BY <1>3, <1>4, <1>7, <2>1, PartsTogether DEF Order!SweepGlobal, Order!Go, Order!Arrived
  <2> QED BY <2>2 DEF Order!Next
<1>8. CASE pc[w] \notin {"gc2", "gc3", "gc4"}
  <2>1. part'[w] = part[w]
    BY <1>1, <1>8 DEF part
  <2>2. part' = part
    BY <1>3, <2>1 DEF part
  <2> QED BY <2>2
<1> QED BY <1>5, <1>6, <1>7, <1>8

(* Who leaves a barrier begins with the work behind it.                     *)
LEMMA LeaveParts ==
  ASSUME IInv, NEW w \in Threads, Leave(w)
  PROVE  [Order!Next]_part
<1>1. w \in released /\ pc[w] \in Sites /\ place[w] = Behind(w)
  BY BehindIs DEF Leave, B!Leave
<1>2. w \notin arrived
  BY <1>1 DEF IInv, TypeOK, B!TypeOK
<1>3. /\ pc'[w] = Behind(w) /\ \A u \in Threads : u # w => pc'[u] = pc[u]
      /\ arrived' = arrived /\ released' = released \ {w}
  BY DEF Leave, B!Leave, Goto, IInv, TypeOK
<1>4. \A u \in Threads : u # w => part'[u] = part[u]
  BY <1>3 DEF part
<1>5. part' = [part EXCEPT ![w] = part'[w]]
  BY <1>4, PartMoves
<1>6. w \notin arrived' \cup released'
  BY <1>2, <1>3
<1>7. CASE part'[w] = part[w]
  <2>1. part' = part
    BY <1>5, <1>7 DEF part
  <2> QED BY <2>1
<1>8. CASE pc[w] = "gc1"
  <2>1. pc'[w] \in {"reset", "gc2"}
    BY <1>1, <1>3, <1>8, BehindIs
  <2>2. part[w] = "gc1" /\ part'[w] = "gc1"
    BY <1>6, <1>8, <2>1 DEF part
  <2> QED BY <1>7, <2>2
<1>9. CASE pc[w] = "gc2"
  <2>1. pc'[w] = "gc3" /\ place[w] = "gc3"
    BY <1>1, <1>3, <1>9 DEF Behind
  <2>2. part[w] = "gc2" /\ part'[w] = "mark"
    BY <1>1, <1>6, <1>9, <2>1 DEF part
  <2>3. Order!Mark(w)
    BY <1>5, <2>1, <2>2, PartsTogether DEF Order!Mark, Order!Go, Order!Arrived
  <2> QED BY <2>3 DEF Order!Next
<1>10. CASE pc[w] = "gc3"
  <2>1. pc'[w] = "gc4"
    BY <1>3, <1>10 DEF Behind
  <2>2. part[w] = "gc3" /\ part'[w] = "gc3"
    BY <1>1, <1>6, <1>10, <2>1 DEF part
  <2> QED BY <1>7, <2>2
<1>11. CASE pc[w] = "gc4"
  <2>1. pc'[w] = place[w] /\ place[w] \notin GC
    BY <1>1, <1>3, <1>11, BehindIs
  <2>2. part[w] = "gc4" /\ part'[w] = "run"
    BY <1>1, <1>11, <2>1 DEF part, GC, GCSites
  <2>3. Order!Resume(w)
    BY <1>5, <2>1, <2>2, PartsTogether DEF Order!Resume, Order!Go, Order!Arrived, GC, GCSites
  <2> QED BY <2>3 DEF Order!Next
<1>12. CASE pc[w] \in {"start", "halt", "final"}
  <2>1. part[w] = "run"
    BY <1>12, PartIs DEF GC, GCSites
  <2>2. pc'[w] \notin {"reset", "gc2", "gc3", "gc4"}
    BY <1>1, <1>3, <1>12, BehindIs DEF Behind, GC, GCSites
  <2>3. part'[w] \in {"run", "gc1"}
    BY <2>2 DEF part
  <2>4. ASSUME part'[w] = "gc1" PROVE Order!Enter(w)
    BY <1>5, <2>1, <2>4 DEF Order!Enter, Order!Go
  <2> QED BY <1>7, <2>1, <2>3, <2>4 DEF Order!Next
<1> QED BY <1>1, <1>8, <1>9, <1>10, <1>11, <1>12 DEF Sites, GCSites

(* However many threads there are, they unmark, mark and sweep in the order *)
(* that the barriers are there for, in every collection and in the one at   *)
(* the end (gc_marksweep.h:376-475, worker.h:324-375): what MarkSweep       *)
(* assumes of them.                                                         *)
THEOREM ImplementsCollection == Spec /\ Early => IsCollection
<1>1. Init => Order!Init
  BY DEF Init, Order!Init, part
<1>2. IInv /\ [Next]_vars => [Order!Next]_part
  <2> SUFFICES ASSUME IInv, [Next]_vars PROVE [Order!Next]_part
    OBVIOUS
  <2>1. ASSUME NEW w \in Threads, Arrive(w) \/ Leave(w)
        PROVE  [Order!Next]_part
    BY <2>1, ArriveParts, LeaveParts
  <2>2. ASSUME NEW w \in Threads, NEW idle, NEW next, InspectState(w, idle, next),
               pc[w] \in {"eval", "oom", "inspect1", "inspect2", "idle1", "idle2"},
               next \notin {"reset", "gc2", "gc3", "gc4"}
        PROVE  [Order!Next]_part
    <3>1. UNCHANGED steady /\ \E l \in {"gc1", "halt", next} : Goto(w, l)
      BY <2>2 DEF InspectState, HaltIdle
    <3>2. PICK l \in {"gc1", "halt", next} : Goto(w, l)
      BY <3>1
    <3>3. pc[w] \notin Sites /\ pc[w] # "reset" /\ l \notin {"reset", "gc2", "gc3", "gc4"}
      BY <2>2 DEF Sites, GCSites
    <3> QED BY <3>1, <3>2, <3>3, AwayParts
  <2>3. ASSUME NEW w \in Threads,
               EvalInspect(w) \/ OOMInspect(w) \/ Inspect1(w) \/ Inspect2(w) \/ Idle1(w) \/ Idle2(w)
        PROVE  [Order!Next]_part
    <3>1. PICK idle, next : /\ InspectState(w, idle, next)
                            /\ pc[w] \in {"eval", "oom", "inspect1", "inspect2", "idle1", "idle2"}
                            /\ next \in {"eval", "oom_gc", "check", "join", "idle2", "loop"}
      BY <2>3 DEF EvalInspect, OOMInspect, Inspect1, Inspect2, Idle1, Idle2, At
    <3> QED BY <2>2, <3>1
  <2>4. ASSUME NEW w \in Threads,
               \/ Reset(w) \/ EvalDone(w) \/ OOMFreed(w) \/ OutOfMemory(w)
               \/ SetEvaluate(w) \/ UnblockGlobalGCTimer(w) \/ BlockGlobalGCTimer(w)
               \/ CheckHalt(w) \/ SetShutdown(w) \/ Join(w) \/ Look(w)
        PROVE  [Order!Next]_part
    <3>1. PICK l : Goto(w, l) /\ (pc[w] = "reset" => l = "gc2")
                   /\ (pc[w] # "reset" => l \notin {"reset", "gc2", "gc3", "gc4"})
      BY <2>4 DEF Reset, EvalDone, OOMFreed, OutOfMemory, SetEvaluate, UnblockGlobalGCTimer,
                  BlockGlobalGCTimer, CheckHalt, SetShutdown, Join, Look, MainStep, At
    <3>2. UNCHANGED steady /\ pc[w] \notin Sites
      BY <2>4 DEF Reset, EvalDone, OOMFreed, OutOfMemory, SetEvaluate, UnblockGlobalGCTimer,
                  BlockGlobalGCTimer, CheckHalt, SetShutdown, Join, Look, MainStep, At, Sites, GCSites
    <3> QED BY <3>1, <3>2, AwayParts
  <2>5. ASSUME UNCHANGED <<pc, arrived, released>>
        PROVE  [Order!Next]_part
    BY <2>5 DEF part
  <2>6. ASSUME NEW w \in Threads, NotComputable(w) \/ OOMError(w) \/ HandlerSets(w)
        PROVE  [Order!Next]_part
    BY <2>5, <2>6 DEF NotComputable, OOMError, HandlerSets, steady
  <2>7. CASE Sigint \/ GCTimerSignal \/ UNCHANGED vars
    BY <2>5, <2>7 DEF Sigint, GCTimerSignal, Signal, steady, vars
  <2> QED BY <2>1, <2>3, <2>4, <2>6, <2>7
          DEF Next, Step, EvalHalted, ComputeStep, RunQueue, Terminated
<1> QED BY <1>1, <1>2, AlwaysIInv, PTL DEF Spec, IsCollection, Order!Spec

-----------------------------------------------------------------------------
(* The barrier never holds all threads.                                     *)
SomeoneMissing == arrived # Threads

LEMMA SomeoneIsMissing == Spec => []SomeoneMissing
<1>1. Init => SomeoneMissing
  BY MainAssumption DEF Init, B!Init, SomeoneMissing
<1>2. SomeoneMissing /\ [Next]_vars => SomeoneMissing'
  <2> SUFFICES ASSUME arrived # Threads, [Next]_vars PROVE arrived' # Threads
    BY DEF SomeoneMissing
  <2>1. ASSUME NEW w \in Threads, Arrive(w) \/ Leave(w)
        PROVE  arrived' # Threads
    BY <2>1, MainAssumption DEF Arrive, Leave, B!Arrive, B!Trip, B!Leave, B!Last
  <2>2. CASE UNCHANGED arrived
    BY <2>2
  <2> QED BY <2>1, <2>2
      DEF Next, Step, Reset, EvalInspect, OOMInspect, InspectState, EvalHalted, EvalDone,
          NotComputable, OOMError, OOMFreed, OutOfMemory, ComputeStep, MainStep, SetEvaluate,
          UnblockGlobalGCTimer, BlockGlobalGCTimer, Inspect1, CheckHalt, SetShutdown, Inspect2,
          Join, RunQueue, Look, Idle1, Idle2, HandlerSets, Sigint, GCTimerSignal, Signal,
          Terminated, steady, vars
<1> QED BY <1>1, <1>2, PTL DEF Spec

(* Any number of threads, if interrupts and failing allocations come in     *)
(* time (Early), never all wait for each other:                             *)
(* neither at different barriers, nor main for workers that wait for main   *)
(* (worker.h:324-384, 218-222).                                             *)
THEOREM NeverAllWait == Spec /\ Early => []NobodyStuck
<1>1. IInv /\ SomeoneMissing => NobodyStuck
  <2> SUFFICES ASSUME IInv, arrived # Threads, NEW w \in Threads,
                      ~CanStep(w), pc[w] \notin {"done", "exited"}
               PROVE  \/ w \in arrived /\ \E v \in Threads \ arrived : CanStep(v) /\ pc[v] # "join"
                      \/ pc[w] = "join" /\ \E v \in Threads \ {w} : CanStep(v)
    BY DEF NobodyStuck, SomeoneMissing
  <2>1. CASE w \in arrived
    <3>1. PICK v \in Threads : v \notin arrived
      BY <2>1 DEF IInv, TypeOK, B!TypeOK
    <3>2. place[w] = pc[w] /\ place[w] \in Sites
      BY <2>1 DEF IInv, TypeOK, B!TypeOK, AtBarrier, place
    <3>3. v \notin released => place[v] \notin Ends
      BY <3>1, <3>2 DEF IInv, Together, AllAt, MainBusy, WorkerBusy, Ends, Sites, GCSites
    <3>4. pc[v] \notin {"join", "done", "exited"}
      <4>1. CASE v \in released
        BY <4>1 DEF IInv, AtBarrier, Sites, GCSites
      <4>2. CASE v \notin released
        BY <4>2, <3>3 DEF place, Ends
      <4> QED BY <4>1, <4>2
    <3> QED BY <2>1, <3>1, <3>4 DEF CanStep
  <2>2. CASE w \notin arrived
    <3>1. pc[w] = "join" /\ w = Main
      BY <2>2 DEF CanStep, IInv, TypeOK, Roles, AtBarrier, place, Sites, GCSites, WorkerBusy
    <3>2. PICK v \in Threads \ {Main} : pc[v] # "exited"
      BY <3>1 DEF CanStep
    <3>3. place[w] = "join"
      BY <3>1 DEF IInv, AtBarrier, place, Sites, GCSites
    <3>4. place[v] = "exited"
      BY <3>1, <3>3 DEF IInv, Together, AllAt, Roles, MainBusy, WorkerBusy, Ends, Sites, GCSites
    <3>5. v \in released /\ pc[v] \in Sites /\ v \notin arrived
      BY <3>2, <3>4 DEF place, IInv, AtBarrier, TypeOK, B!TypeOK
    <3> QED BY <3>1, <3>5 DEF CanStep
  <2> QED BY <2>1, <2>2
<1> QED BY <1>1, SomeoneIsMissing, AlwaysIInv, PTL

(* When the state is about to be reset, all have met for the collection.    *)
LEMMA ResetsMet ==
  ASSUME IInv, NEW w \in Threads, Reset(w)
  PROVE  m_state # "halt" /\ \A u \in Threads : Met(u, "gc1", {"reset", "gc2"})
<1>1. w \notin released /\ place[w] = "reset"
  BY DEF Reset, At, IInv, AtBarrier, Sites, GCSites, place
<1>2. \A u \in Threads : place[u] \in {"reset", "gc2"}
  BY <1>1 DEF IInv, Together, AllAt, MainBusy, WorkerBusy, Ends
<1>3. ASSUME NEW u \in Threads PROVE Met(u, "gc1", {"reset", "gc2"})
  <2>1. CASE u \in released
    BY <1>2, <2>1, BehindIs DEF Met
  <2>2. CASE u \notin released
    BY <1>2, <2>2 DEF Met, place
  <2> QED BY <2>1, <2>2
<1> QED BY <1>1, <1>3 DEF IInv, StateRead

(* When main announces the shutdown of an interrupted program, the others   *)
(* have met it at the halt barrier.                                         *)
LEMMA ShutdownMet ==
  ASSUME IInv, NEW w \in Threads, SetShutdown(w)
  PROVE  /\ m_state # "global_gc"
         /\ m_state = "halt" => \A u \in Threads \ {Main} : Met(u, "halt", {"gc1"})
<1>1. w = Main /\ place[w] = "set_shutdown"
  BY DEF SetShutdown, MainStep, At, IInv, AtBarrier, Sites, GCSites, place
<1>2. m_state = "evaluate" \/ (m_state = "halt" /\ Waiting)
  BY <1>1 DEF IInv, StateFits
<1>3. ASSUME Waiting, NEW u \in Threads \ {Main} PROVE Met(u, "halt", {"gc1"})
  <2>1. CASE u \in released
    BY <1>3, <2>1, BehindIs DEF Met, Waiting
  <2>2. CASE u \notin released
    BY <1>3, <2>2 DEF Met, Waiting, place
  <2> QED BY <2>1, <2>2
<1> QED BY <1>2, <1>3

(* The steps that leave m_state alone.                                      *)
LEMMA OthersKeepState ==
  ASSUME [Next]_vars, m_state' # m_state
  PROVE  \E w \in Threads :
           Reset(w) \/ SetEvaluate(w) \/ SetShutdown(w) \/ OutOfMemory(w) \/ HandlerSets(w)
<1>1. ASSUME NEW w \in Threads, NEW idle, NEW next, InspectState(w, idle, next)
      PROVE  FALSE
  BY <1>1 DEF InspectState
<1>2. ASSUME NEW w \in Threads, NEW from, NEW to, MainStep(w, from, to), UNCHANGED m_state
      PROVE  FALSE
  BY <1>2
<1>3. ASSUME NEW w \in Threads, Step(w) \/ EvalDone(w)
      PROVE  Reset(w) \/ SetEvaluate(w) \/ SetShutdown(w) \/ HandlerSets(w)
  BY <1>1, <1>3 DEF Step, Arrive, Leave, EvalInspect, EvalHalted, EvalDone, NotComputable,
     OOMInspect, OOMError, OOMFreed, ComputeStep, UnblockGlobalGCTimer, BlockGlobalGCTimer,
     Inspect1, CheckHalt, Inspect2, Join, RunQueue, Look, Idle1, Idle2
<1>4. ~(Sigint \/ GCTimerSignal \/ Terminated \/ UNCHANGED vars)
  BY DEF Sigint, GCTimerSignal, Signal, Terminated, vars
<1> QED BY <1>3, <1>4 DEF Next

(* A request for a collection, or an interrupt, ends only when all threads  *)
(* have met for it: nobody overwrites it before (worker.h:299, 325-353,     *)
(* 535-538, 544).                                                           *)
THEOREM RequestsAreKept == Spec /\ Early => RequestsKept
<1>1. IInv /\ [Next]_vars =>
        [m_state' # m_state =>
           /\ m_state = "global_gc" =>
                m_state' = "evaluate" /\ \A w \in Threads : Met(w, "gc1", {"reset", "gc2"})
           /\ m_state = "halt" =>
                m_state' = "shutdown" /\ \A w \in Threads \ {Main} : Met(w, "halt", {"gc1"})]_vars
  <2> SUFFICES ASSUME IInv, [Next]_vars, m_state' # m_state
               PROVE  /\ m_state = "global_gc" =>
                           m_state' = "evaluate" /\ \A w \in Threads : Met(w, "gc1", {"reset", "gc2"})
                      /\ m_state = "halt" =>
                           m_state' = "shutdown" /\ \A w \in Threads \ {Main} : Met(w, "halt", {"gc1"})
    OBVIOUS
  <2>1. PICK w \in Threads :
          Reset(w) \/ SetEvaluate(w) \/ SetShutdown(w) \/ OutOfMemory(w) \/ HandlerSets(w)
    BY OthersKeepState
  <2>2. CASE Reset(w)
    BY <2>2, ResetsMet DEF Reset
  <2>3. CASE SetEvaluate(w)
    <3>1. w = Main /\ place[w] = "compute"
      BY <2>3 DEF SetEvaluate, MainStep, At, IInv, AtBarrier, Sites, GCSites, place
    <3> QED BY <3>1 DEF IInv, StateFits
  <2>4. CASE SetShutdown(w)
    BY <2>4, ShutdownMet DEF SetShutdown
  <2>5. CASE OutOfMemory(w)
    BY <2>5 DEF OutOfMemory, IInv, Early, Quiet
  <2>6. CASE HandlerSets(w)
    BY <2>6 DEF HandlerSets, IInv, Handlers
  <2> QED BY <2>1, <2>2, <2>3, <2>4, <2>5, <2>6
<1> QED BY <1>1, AlwaysIInv, PTL DEF Spec, RequestsKept
=============================================================================
