------------------------------- MODULE Worker -------------------------------
(***************************************************************************)
(* The protocol by which the threads of worker.h start, collect garbage    *)
(* together and shut down.  All of it goes through one shared word,        *)
(* Worker::m_state, that every thread polls (InspectState), that signal    *)
(* handlers and the allocator write, and one barrier, at which the threads *)
(* must meet the same number of times for the same reason: startup, the    *)
(* four barriers of Heap::DoGC(false), the interrupt, and the end.         *)
(*                                                                         *)
(* A pc that names a barrier means that the thread does the work before    *)
(* that barrier or waits at it.  What a thread evaluates, its local        *)
(* collections and the state dot_dump (only set with Config::dot_timed,    *)
(* a constant false) are left out.                                         *)
(***************************************************************************)
EXTENDS Integers, FiniteSets

CONSTANTS Threads,        \* the main thread and the workers it started
          Main,           \* the main thread
          GCTimer,        \* whether the GC timer runs (global_gc_interval_ms > 0)
          Scenarios       \* what main may be doing when a SIGINT is delivered to it,
                          \* and when a thread runs out of memory

ASSUME MainAssumption == IsFiniteSet(Threads) /\ Main \in Threads
ASSUME ScenarioAssumption == \A s \in Scenarios : DOMAIN s = {"sigint", "oom"}
ASSUME TimerAssumption == GCTimer \in BOOLEAN

VARIABLES m_state,      \* Worker::m_state
          pc,           \* where each thread is
          back,         \* where it goes on after the barriers it is at
          halting,      \* its evaluation was told to unwind (EvalTerm::eval_halt)
          handler,      \* the signal handler that interrupts it, past its test
          gc_unblocked, \* main accepts the signal of the GC timer
          aborted,      \* Error() has ended the program
          arrived, released, serial,  \* worker_barrier
          scenario      \* of Scenarios, fixed

steady == <<arrived, released, serial, scenario>>
vars == <<m_state, pc, back, halting, handler, gc_unblocked, aborted, steady>>

B == INSTANCE Barrier

States == {"startup", "evaluate", "global_gc", "halt", "shutdown"}
GCSites == {"gc1", "gc2", "gc3", "gc4"}
Sites == {"start", "halt", "final"} \cup GCSites
BeforeInspect == {"unblock", "eval", "block", "inspect1"}  \* of main in Compute, before 295
PCs == Sites \cup
  {"compute", "unblock", "eval", "block", "inspect1", "check", "set_shutdown",
   "inspect2", "join", "done",                      \* main
   "loop", "idle1", "idle2", "exited",              \* workers
   "reset", "oom", "oom_gc"}                        \* both

(* Types.                                                                  *)
TypeOK ==
  /\ m_state \in States
  /\ pc \in [Threads -> PCs]
  /\ back \in [Threads -> PCs]
  /\ halting \in [Threads -> BOOLEAN]
  /\ handler \in [Threads -> {"none", "global_gc", "halt"}]
  /\ gc_unblocked \in BOOLEAN
  /\ aborted \in BOOLEAN
  /\ B!TypeOK

(* Every thread has been created and is on its way to the startup barrier. *)
Init ==
  /\ m_state = "startup"
  /\ pc = [w \in Threads |-> "start"]
  /\ back = [w \in Threads |-> "start"]
  /\ halting = [w \in Threads |-> FALSE]
  /\ handler = [w \in Threads |-> "none"]
  /\ gc_unblocked = FALSE
  /\ aborted = FALSE
  /\ B!Init
  /\ scenario \in Scenarios

Goto(w, l) == pc' = [pc EXCEPT ![w] = l]
Remember(w, l) == back' = [back EXCEPT ![w] = l]

(* What main is doing, seen from Compute.                                  *)
MainPhase == IF pc[Main] \in GCSites \cup {"reset"} THEN back[Main] ELSE pc[Main]

(* Thread w runs: the program is alive and no handler interrupts w.        *)
Runs(w) == handler[w] = "none" /\ ~aborted
At(w, l) == pc[w] = l /\ Runs(w)

-----------------------------------------------------------------------------
(* The barrier: call it, and return from it to the code behind the site.   *)
Arrive(w) ==
  /\ pc[w] \in Sites /\ Runs(w)
  /\ B!Arrive(w) \/ B!Trip(w)
  /\ UNCHANGED <<m_state, pc, back, halting, handler, gc_unblocked, aborted, scenario>>

Resets_Nobody(w) == FALSE

(* gc_barrier_wait(true): the serial thread resets the state.              *)
Resets(w) == w \in serial

AfterHalt_Loop(w) == IF w = Main THEN back[w] ELSE "loop"

(* Main returns from InspectState, a worker falls through to the shutdown. *)
AfterHalt(w) == IF w = Main THEN back[w] ELSE "gc1"

Behind_EarlyReturn(w) ==
  CASE pc[w] = "start" -> IF w = Main THEN "compute" ELSE "loop"
    [] pc[w] = "gc1"   -> IF Resets(w) THEN "reset" ELSE "gc2"
    [] pc[w] = "gc2"   -> "gc3"
    [] pc[w] = "gc3"   -> IF w = Main THEN back[w] ELSE "gc4"
    [] pc[w] = "gc4"   -> back[w]
    [] pc[w] = "halt"  -> AfterHalt(w)
    [] pc[w] = "final" -> IF w = Main THEN "join" ELSE "exited"

Behind(w) ==
  CASE pc[w] = "start" -> IF w = Main THEN "compute" ELSE "loop"
    [] pc[w] = "gc1"   -> IF Resets(w) THEN "reset" ELSE "gc2"
    [] pc[w] = "gc2"   -> "gc3"
    [] pc[w] = "gc3"   -> "gc4"
    [] pc[w] = "gc4"   -> back[w]
    [] pc[w] = "halt"  -> AfterHalt(w)
    [] pc[w] = "final" -> IF w = Main THEN "join" ELSE "exited"

Leave(w) ==
  /\ pc[w] \in Sites /\ Runs(w)
  /\ B!Leave(w)
  /\ Goto(w, Behind(w))
  /\ UNCHANGED <<m_state, back, halting, handler, gc_unblocked, aborted, scenario>>

Reset(w) ==
  /\ At(w, "reset")
  /\ m_state' = "evaluate"
  /\ Goto(w, "gc2")
  /\ UNCHANGED <<back, halting, handler, gc_unblocked, aborted, steady>>

-----------------------------------------------------------------------------
HaltIdle_MainPasses(w, next) ==
  IF w = Main THEN Goto(w, next) /\ UNCHANGED back
              ELSE Goto(w, "halt") /\ Remember(w, "final")

(* An idle thread meets the others at the halt barrier.                    *)
HaltIdle(w, next) ==
  Goto(w, "halt") /\ Remember(w, IF w = Main THEN next ELSE "final")

(* InspectState(idle, w = Main), which returns to `next'.  DoGC(false) is  *)
(* the chain of sites gc1 .. gc4; the shutdown is that chain followed by   *)
(* the final barrier.                                                      *)
InspectState(w, idle, next) ==
  /\ \/ /\ m_state \in {"startup", "evaluate"}
        /\ Goto(w, next) /\ UNCHANGED <<back, halting>>
     \/ /\ m_state = "global_gc"
        /\ Goto(w, "gc1") /\ Remember(w, next) /\ UNCHANGED halting
     \/ /\ m_state = "halt" /\ ~idle
        /\ halting' = [halting EXCEPT ![w] = TRUE]
        /\ Goto(w, next) /\ UNCHANGED back
     \/ /\ m_state = "halt" /\ idle
        /\ HaltIdle(w, next) /\ UNCHANGED halting
     \/ /\ m_state = "shutdown" /\ idle
        /\ Goto(w, "gc1") /\ Remember(w, "final") /\ UNCHANGED halting
     \/ /\ m_state = "shutdown" /\ ~idle
        /\ Goto(w, next) /\ UNCHANGED <<back, halting>>
  /\ UNCHANGED <<m_state, handler, gc_unblocked, aborted, steady>>

(* While it evaluates, a thread inspects the state when its free list runs *)
(* out and when it sleeps on a blackhole.                                  *)
EvalInspect(w) == At(w, "eval") /\ InspectState(w, FALSE, "eval")

(* The evaluation ends with a result, or because it was told to.           *)
EvalDone(w) ==
  /\ At(w, "eval")
  /\ halting' = [halting EXCEPT ![w] = FALSE]
  /\ Goto(w, IF w = Main THEN "block" ELSE "idle2")
  /\ UNCHANGED <<m_state, back, handler, gc_unblocked, aborted, steady>>

(* Compute on a term that is still the same after it was halted calls      *)
(* Error(), in main or in an operator that needs a value.                  *)
NotComputable(w) ==
  /\ At(w, "eval")
  /\ aborted' = TRUE
  /\ UNCHANGED <<m_state, pc, back, halting, handler, gc_unblocked, steady>>

EvalHalted(w) == halting[w] /\ (EvalDone(w) \/ NotComputable(w))

OutOfMemory_NoRequest(w) ==
  /\ MainPhase \in scenario.oom /\ At(w, "eval")
  /\ Goto(w, "oom")
  /\ UNCHANGED <<m_state, back, halting, handler, gc_unblocked, aborted, steady>>

(* AllocMB fails: gc_trigger_global sets the state and inspects it.        *)
OutOfMemory(w) ==
  /\ MainPhase \in scenario.oom /\ At(w, "eval")
  /\ m_state' = "global_gc"
  /\ Goto(w, "oom")
  /\ UNCHANGED <<back, halting, handler, gc_unblocked, aborted, steady>>

OOMInspect(w) ==
  /\ At(w, "oom") /\ m_state = "global_gc"
  /\ InspectState(w, FALSE, "oom_gc")

(* Error("out of memory"): the state was changed meanwhile, so that        *)
(* InspectState did not collect, or the collection freed too little.       *)
OOMError(w) ==
  /\ \/ At(w, "oom") /\ m_state # "global_gc"
     \/ At(w, "oom_gc")
  /\ aborted' = TRUE
  /\ UNCHANGED <<m_state, pc, back, halting, handler, gc_unblocked, steady>>

OOMFreed(w) ==
  /\ At(w, "oom_gc")
  /\ Goto(w, "eval")
  /\ UNCHANGED <<m_state, back, halting, handler, gc_unblocked, aborted, steady>>

-----------------------------------------------------------------------------
(* Worker::Compute, the main thread.                                       *)
MainStep(w, from, to) ==
  /\ w = Main /\ At(w, from)
  /\ Goto(w, to)
  /\ UNCHANGED <<back, halting, handler, aborted, steady>>

SetEvaluate(w) ==
  MainStep(w, "compute", "unblock") /\ m_state' = "evaluate" /\ UNCHANGED gc_unblocked

UnblockGlobalGCTimer(w) ==
  MainStep(w, "unblock", "eval") /\ gc_unblocked' = TRUE /\ UNCHANGED m_state

BlockGlobalGCTimer(w) ==
  MainStep(w, "block", "inspect1") /\ gc_unblocked' = FALSE /\ UNCHANGED m_state

Inspect1(w) == w = Main /\ At(w, "inspect1") /\ InspectState(w, TRUE, "check")

(* `res' becomes 128+SIGINT when the state is halt.                        *)
CheckHalt(w) == MainStep(w, "check", "set_shutdown") /\ UNCHANGED <<m_state, gc_unblocked>>

SetShutdown(w) ==
  MainStep(w, "set_shutdown", "inspect2") /\ m_state' = "shutdown" /\ UNCHANGED gc_unblocked

Inspect2_Skip(w) ==
  MainStep(w, "inspect2", "join") /\ UNCHANGED <<m_state, gc_unblocked>>

Inspect2(w) == w = Main /\ At(w, "inspect2") /\ InspectState(w, TRUE, "join")

(* Cleanup joins the workers.                                              *)
Join(w) ==
  /\ \A v \in Threads \ {Main} : pc[v] = "exited"
  /\ MainStep(w, "join", "done") /\ UNCHANGED <<m_state, gc_unblocked>>

ComputeStep(w) ==
  \/ SetEvaluate(w) \/ UnblockGlobalGCTimer(w) \/ BlockGlobalGCTimer(w)
  \/ Inspect1(w) \/ CheckHalt(w) \/ SetShutdown(w) \/ Inspect2(w) \/ Join(w)

-----------------------------------------------------------------------------
(* Worker::RunQueue, the other threads.  A turn of the loop looks at the   *)
(* state; when it evaluates it may or may not find a term on the queue.    *)
Look(w) ==
  /\ At(w, "loop")
  /\ \/ m_state = "global_gc" /\ Goto(w, "idle2")
     \/ m_state = "evaluate" /\ Goto(w, "eval")
     \/ m_state # "global_gc" /\ Goto(w, "idle1")
  /\ UNCHANGED <<m_state, back, halting, handler, gc_unblocked, aborted, steady>>

Idle1(w) == At(w, "idle1") /\ InspectState(w, TRUE, "idle2")

Idle2(w) == At(w, "idle2") /\ InspectState(w, TRUE, "loop")

RunQueue(w) == Look(w) \/ Idle1(w) \/ Idle2(w)

-----------------------------------------------------------------------------
(* Signals.  A handler tests the state and then sets it; it interrupts its *)
(* thread, and each masks the other.                                       *)
Signal(w, h) ==
  /\ Runs(w) /\ pc[w] \notin {"exited", "done"}
  /\ m_state = "evaluate"
  /\ handler' = [handler EXCEPT ![w] = h]
  /\ UNCHANGED <<m_state, pc, back, halting, gc_unblocked, aborted, steady>>

GCTimerSignal == GCTimer /\ gc_unblocked /\ Signal(Main, "global_gc")

Sigint == MainPhase \in scenario.sigint /\ Signal(Main, "halt")

HandlerSets(w) ==
  /\ handler[w] # "none" /\ ~aborted
  /\ m_state' = handler[w]
  /\ handler' = [handler EXCEPT ![w] = "none"]
  /\ UNCHANGED <<pc, back, halting, gc_unblocked, aborted, steady>>

-----------------------------------------------------------------------------
Done == \A w \in Threads : pc[w] = IF w = Main THEN "done" ELSE "exited"

Terminated == (Done \/ aborted) /\ UNCHANGED vars

(* What a thread does by itself, the end of its evaluation apart.          *)
Step(w) ==
  \/ Arrive(w) \/ Leave(w) \/ Reset(w)
  \/ EvalInspect(w) \/ EvalHalted(w)
  \/ OOMInspect(w) \/ OOMError(w) \/ OOMFreed(w)
  \/ ComputeStep(w)
  \/ (w # Main /\ RunQueue(w))
  \/ HandlerSets(w)

Next ==
  \/ \E w \in Threads : Step(w) \/ EvalDone(w) \/ OutOfMemory(w)
  \/ Sigint \/ GCTimerSignal
  \/ Terminated

Spec == Init /\ [][Next]_vars

(* Threads are scheduled fairly.  An evaluation that goes on keeps         *)
(* inspecting the state, and one that was told to halt ends.               *)
FairSpec == Spec /\ \A w \in Threads : WF_vars(Step(w))

(* In addition every evaluation that is not cut short ends.                *)
EvaluationsEnd == \A w \in Threads : SF_vars(EvalDone(w))
TerminatingSpec == FairSpec /\ EvaluationsEnd

-----------------------------------------------------------------------------
(* The threads that wait at the barrier wait at the same one: no thread is *)
(* a barrier ahead of or behind the others.                                *)
SameBarrier == \A v, w \in arrived : pc[v] = pc[w]

(* The part of DoGC that a thread works on: gc2 is unmarking, gc3 marking, *)
(* gc4 sweeping.                                                           *)
WorksOn(w, phases) == pc[w] \in phases /\ w \notin arrived \cup released

(* No thread marks while another still unmarks, and none sweeps while      *)
(* another still marks (gc_marksweep.h:376-475): a term could be freed     *)
(* that is in use.                                                         *)
SamePhase ==
  \A v, w \in Threads :
    \A p, q \in {"gc2", "gc3", "gc4"} : WorksOn(v, {p}) /\ WorksOn(w, {q}) => p = q

(* While a thread unmarks, marks or sweeps, no other evaluates or touches  *)
(* the queue: what TermQueue assumes with Stopped.                         *)
StopTheWorld ==
  (\E v \in Threads : WorksOn(v, {"gc2", "gc3", "gc4"}))
    => \A w \in Threads : pc[w] \notin {"eval", "oom", "loop", "idle1", "idle2"}

(* The phases of a collection follow each other as MarkSweep assumes: a    *)
(* thread is in the next one when all have ended the one before, in every  *)
(* round (gc_marksweep.h:376-475, worker.h:535-540).  The work before a    *)
(* barrier counts as done when the thread comes to it.                     *)
part ==
  [w \in Threads |->
     LET working == w \notin arrived \cup released
     IN CASE pc[w] \in {"gc1", "reset"} -> "gc1"
          [] pc[w] = "gc2" -> IF working THEN "gc1" ELSE "gc2"
          [] pc[w] = "gc3" -> IF working THEN "mark" ELSE "gc3"
          [] pc[w] = "gc4" -> IF working THEN "gc3" ELSE "gc4"
          [] OTHER -> "run"]
Order == INSTANCE Collection WITH Workers <- Threads, phase <- part
IsCollection == Order!Spec

(* What w can do by itself: no handler of it is left, it is not at a       *)
(* barrier where others are missing, nor waits for them to exit.           *)
CanStep(w) ==
  \/ handler[w] # "none"
  \/ pc[w] \in Sites /\ w \notin arrived
  \/ pc[w] = "join" /\ \A v \in Threads \ {Main} : pc[v] = "exited"
  \/ pc[w] \notin Sites \cup {"join", "done", "exited"}

(* The threads never all wait for each other, in no round of the barrier   *)
(* and not at the end: who waits, waits for a thread that can go on and    *)
(* has not ended (worker.h:324-384, 218-222).                              *)
NobodyStuck ==
  ~aborted => \A w \in Threads :
    \/ CanStep(w) \/ pc[w] \in {"done", "exited"}
    \/ w \in arrived /\ \E v \in Threads \ arrived : CanStep(v) /\ pc[v] # "join"
    \/ pc[w] = "join" /\ \E v \in Threads \ {w} : CanStep(v)

(* A request is withdrawn when all have met for it, not before: nothing    *)
(* but the reset behind the first barrier of a collection ends the request *)
(* for one, and nothing but the shutdown an interrupt, when all others     *)
(* have left the halt barrier (worker.h:299, 325-353, 535-538).            *)
Met(w, site, next) == (pc[w] = site /\ w \in released) \/ pc[w] \in next
RequestsKept ==
  [][m_state' # m_state =>
       /\ m_state = "global_gc" =>
            m_state' = "evaluate" /\ \A w \in Threads : Met(w, "gc1", {"reset", "gc2"})
       /\ m_state = "halt" =>
            m_state' = "shutdown" /\ \A w \in Threads \ {Main} : Met(w, "halt", {"gc1"})]_vars

(* A request for a global collection is not forgotten: all threads meet    *)
(* for it, although they may be evaluating, and the one that the barrier   *)
(* picks lets them go on (worker.h:330-332, 535-537).                      *)
GCServed == m_state = "global_gc" ~> m_state = "evaluate" \/ aborted

(* An interrupt ends the program, even one whose evaluation never ends:    *)
(* every worker leaves its loop, or Error() does away with them all        *)
(* (worker.h:338-353, term.h:212-213).                                     *)
HaltServed == m_state = "halt" ~> Done \/ aborted

(* A thread that runs out of memory gets its collection: nobody overwrites *)
(* its request between the two lines of gc_trigger_global                  *)
(* (worker.h:544-545).                                                     *)
OOMCollects == \A w \in Threads : pc[w] = "oom" ~> pc[w] = "oom_gc" \/ aborted

(* Without interrupts a thread reports "out of memory" only behind its own *)
(* collection: one that has made its request still finds it when it        *)
(* inspects the state, whatever the others set meanwhile (worker.h:544-545,*)
(* gc_marksweep.h:504-505), and no other error ends the program.           *)
NoEarlyError ==
  scenario.sigint = {} =>
    /\ \A w \in Threads : pc[w] = "oom" => m_state = "global_gc"
    /\ aborted => \E w \in Threads : pc[w] = "oom_gc"

(* Once main has announced the shutdown the program ends (worker.h:299).   *)
ShutdownCompletes == pc[Main] = "inspect2" ~> Done \/ aborted

(* A program whose evaluations end terminates, whatever the timing of      *)
(* collections and of an interrupt.                                        *)
Terminates == EvaluationsEnd => <>(Done \/ aborted)
=============================================================================
