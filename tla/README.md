# Verification of lambda

`lambda` evaluates lambda terms in parallel in C++: a program builds a graph of
terms, the main thread computes one of them, and worker threads reduce the
terms that are handed to them as parallel work. Terms are garbage collected.
This directory models the library (`include/lambda/`) in TLA+: the concurrent
core access by access, the sequential structures below it, and the evaluation of
terms with the library of combinators on top. TLC checks the models, and TLAPS
proves the most important properties of the core.

    tlc -workers 2 -config queue_lossy.cfg MCTermQueue     # one run
    tlapm TermQueueProofs.tla                              # the proofs of a module

The library comes in several builds. By default it runs without locks and
without atomic instructions and tolerates the consequences: a term on the queue
may be lost or evaluated twice, a result may be computed twice. With
`term_queue_atomic` and `atomic_indir` it is to be exact. The models have both.

Line numbers below are those of the files in `include/lambda/`.

## 1. Inventory

| Component | State | Operations | What must hold |
|---|---|---|---|
| Term queue (`worker.h:44-141`) | `m_top`, `m_queue` per priority, optional mutex | `Push`, `Pop`, `MarkActive` | nothing NULL or freed is on it or is returned; it empties; with locks it is a stack |
| Worker protocol (`worker.h:150-562`) | `m_state`, the barrier, the position of every thread | `Compute`, `RunQueue`, `InspectState`, `gc_trigger_global`, the handlers of SIGINT and of the GC timer, `Cleanup` | all threads meet at the same barriers for the same reason; requests are served; the program ends |
| Replacement barrier (`barrier.h`) | mutex, counter | `pthread_barrier_wait` | it behaves as the native barrier |
| Blackholes (`term.h:894-1106`) | `m_result` | `Reduce`, `Finish`, `SetState`, the stalling loop | one worker calculates; a result appears and stays; nobody stalls for ever |
| Collector (`gc_marksweep.h:300-526`) | lists of free, new, local and global terms per worker, marks, roots | `Alloc`, `DoGC(true)`, `DoGC(false)` | what can be reached is not freed, what cannot is |
| Allocator (`gc_marksweep.h:45-275`) | chains of blocks | `Split`, `Merge`, the iterator | blocks are disjoint, none is lost |
| Terms and reduction (`term.h`) | graph, indirections, evaluation stack | `FullReduce`, `Reduce`, `ReduceApply`, `Globalize`, `SetIndirection` | global terms refer to global terms; no circles of indirections; stack discipline |
| Root stack (`ptr.h`) | chain of local pointers | `push`, `pop`, `swap` | the chain holds exactly the live pointers |
| Chunked stack (`stack.h`) | list of chunks | `push`, `pop`, `top`, `cleanup`, `dup` | it is a sequence, and addresses tell heights |
| Library (`lib.h`) | none of its own | combinators, evaluation modes, `par` | a program ends with the value that it denotes, whoever computed which part |
| Instrumentation (`debug.h`, `stats.h`, `vcd.h`, `dot.h`), configuration (`config.h`, `platform.h`) | counters, files | output | |

How they interact. A combinator such as `par` enqueues a term (`Enqueue`): it
is wrapped in a blackhole, copied to global memory and pushed. A worker pops
it and reduces it; whoever needs it meanwhile reduces the blackhole itself or
stalls on it. While it reduces, a thread allocates; when its heap is full it
collects its local terms, and only if memory is really gone, or the timer
says so, it sets `m_state` to `global_gc`. Every thread polls `m_state` in
`InspectState` and walks through the four barriers of `DoGC(false)`. The same
word carries interrupts and the shutdown.

What is hard: the unlocked queue and the blackholes, whose reads and writes
interleave freely; `m_state`, one word that signal handlers, the allocator and
the main thread overwrite without looking; four barriers that all threads must
pass in step; marks that one thread leaves on the terms of another; a circular
wait of workers on each other's blackholes; terms that are shared, duplicated and
finished by several workers, in evaluation modes that may give up half-way; local
pointers, chunks and free blocks that are linked by hand. Nothing is persisted and there are
no messages, so there is no crash recovery to model. The hazards, each at its
line, are listed in `PROJECT.json`.

## 2. Modules

| Module | Models | Runs | Proofs |
|---|---|---|---|
| `TermStack` | what the queue promises with locks: bounded stacks, and the terms in the hands of their users | | |
| `SparkPool` | what the queue promises in every build: a pool that may lose and repeat terms | | |
| `TermQueue` | the queue with every read and write of `m_top` and the slots | `queue_lossy`, `queue_atomic` | `TermQueueProofs` |
| `Barrier` | the contract of `pthread_barrier_wait` | | |
| `PthreadBarrier` | `barrier.h` | `barrier`, `barrier_spurious` | `PthreadBarrierProofs` |
| `Collection` | the order of the phases of a global collection | | |
| `Worker` | the protocol of the threads, on top of `Barrier` | `worker`, `worker_sigint_late`, `worker_oom_shutdown` | `WorkerProofs` |
| `Blackhole` | blackholes and stalling | `blackhole` | `BlackholeProofs` |
| `MarkSweep` | local and global collections | `marksweep` | `MarkSweepProofs` |
| `FrameStack` | what `FullReduce` takes its evaluation stack for | | |
| `ChunkStack` | `stack.h` and the calls that use it | `structures` | `ChunkStackProofs` |
| `RootStack` | `ptr.h` under the C++ order of construction and destruction | `structures` | `RootStackProofs` |
| `FreeList` | the allocator and the lists of a heap, `gc_marksweep.h:45-526` | `structures` | `FreeListProofs` |
| `Signatures` | names and arities of the functions of `lib.h` | | |
| `Terms` | `term.h`: the graph, reduction, globalization, blackholes | | |
| `Library`, `ListLibrary` | the bodies of the functions of `lib.h` | | |
| `Evaluation` | `FullReduce` on several workers, `Compute`, the queue of sparks | `eval`, `eval_spark_twice` | |

`MCx` gives the constants of `x` their values for TLC; `MCStructures` does so for
the three structures, one of which moves in a behaviour while the others rest.

**TermQueue.** `m_top[p]` and `m_queue[p][i]` are the code's fields; `prio`,
`top` and `t` its local variables. `Push` is `PushRead` (lock, read `m_top`),
`PushSlot`, `PushTop` (write `m_top`, unlock); `Pop` is `PopStart`, `PopNext`
for each empty priority, `PopRead`, `PopSlot`, `PopTop`. A full queue drops the
term (`PushOverflow`). The rest of the program is an environment: it allocates
terms (`NewTerm`), stops using them (`Drop`), and collects (`GlobalGC`), which
keeps what the roots hold and `MarkActive` reports. Memory is sequentially
consistent. With locks the queue implements `TermStack`, whose `hand` is the term
that a worker was given to push or has popped and not yet returned (`held`). A push
takes effect at `PushTop`, a pop at `PopSlot`, which reads the slot: from then on
the term is off the stack (`entries`), although `m_top` is still to be written. So a
push that is overwritten, a pop that hands out the wrong slot and two pops that hand
out the same one are no steps of `TermStack`. What it does not see are calls
without effect, a push on a full array and a pop that finds nothing. In every build
the queue implements `SparkPool`: its `pool` is what can still come out, the terms below
`m_top`, those that a late write of `m_top` will bring back (`Covered`), and those
that a worker is about to push or return (`Carries`). A step of the pool may drop
anything from it, so it allows for what overtaken writes do to each other; but
only `Push` puts a term in, `Pop` returns one that is in it, and a collection
frees none that is.

**Barrier, PthreadBarrier.** `Barrier` knows who has arrived, who is released
and who is the serial thread; a released thread may arrive for the next round
only after it returned. `PthreadBarrier` is the mutex, the counter and the
condition variable; the refinement mapping takes the threads blocked on the
condition variable as arrived and those woken but not returned as released.

**Worker.** `pc[w]` is a place in `Compute` (main) or `RunQueue` (others), or
the barrier at which the thread is. `InspectState` is one action with the switch
over `m_state`; `back[w]` remembers where it returns to. A signal handler is
two steps, the test and the assignment (`Signal`, `HandlerSets`), since another
thread may act in between; while it runs its own thread does not. `EvalDone` is
the end of an evaluation, which need not happen. After an interrupt an
evaluation that is cut short may end in `Error()`, because `Term::Compute`
finds a term it could not reduce (`term.h:209-214`): `NotComputable`. What a
thread does between barriers is not part of this module but of `MarkSweep`.
Instrumentation is left out; the state `dot_dump` is never reached as
`Config::dot_timed` is a constant `false`.

**Blackhole.** `m_result[h]` is the state of a blackhole; `at[w][h]` is the
frame that worker `w` has for it on its evaluation stack. The constant `Needs`
says which blackholes the term of a blackhole refers to; they are numbered such
that this has no circles, as terms are built from existing ones; that sparking a term twice breaks this is
the finding `eval_spark_twice`. Reading the
state and writing it are separate steps, so that the plain write of a build
without `atomic_indir` may come late. Which build it is, is chosen in `Init`.

**MarkSweep.** A term is an address in the heap of one worker (`Home`). It is on
one of the lists of that heap, it may be global, it has a mark, and it refers to
other terms, by an indirection or otherwise. Evaluation allocates local terms
(`New`), globalizes (`Construct` leaves an unborn copy, `MarkBirth` completes
it), sets indirections, and moves references between its roots, the terms and
the queue. `DoGC` is the code's order: unmark the own global and new terms,
barrier, mark from the roots and, for the serial thread, from the queue, sweep
the own local and new terms, barrier, sweep the own global terms, barrier. A
local collection is the middle part without barriers, and other workers go on
evaluating, also on the global terms it marks. One term is marked at a time, in
any order. Two abstract specifications connect it to the other modules. The
barriers are used by their contract: `Collection` says who may be in which phase
while others are in which, `Worker` implements it for the threads and `MarkSweep`
for the collector (for a worker that collects its local terms only, it evaluates).
And the queue is a set that is used as `SparkPool` allows: a push may replace or
lose terms, a term that is popped may stay, and others may vanish with it. What
can be reached (`Reachable`) is defined by closed sets, without recursion.
Evaluation keeps global terms from referring to local ones and makes no circle
of indirections. The first is what `OwnOrGlobal` checks of `Evaluation`; the second
holds but for the finding `eval_spark_twice`.

**FrameStack, ChunkStack.** `FullReduce` and `Globalize` work above the height of
the evaluation stack that they found, and compare addresses to see when they are
back (`term.h:137`, `144`, `223`, `228`). In between `FullReduce` keeps the address
of the top (`top`) and stores the result of `Reduce` through it (173), whatever
nested calls have put on the stack by then; `Globalize` pops a term, so that its
part may be empty, and pushes others while it globalizes that (229-232).
`FrameStack` is what they take the stack for: one sequence, the heights that the
nested calls found, and the heights of the elements that they reduce. `ChunkStack`
has the list of chunks with their addresses, the current chunk, and per call the
address that it found (`tops`) and where it is in its loop (`turns`: the address
in `top` for `FullReduce`, before or behind the pop for `Globalize`); `push`,
`pop`, `write` through an address, `cleanup` (chunks behind the current one are
freed, their addresses used again) and `dup`, with which the collector scans the
stack and which leaves it as it was. The refinement mapping concatenates the
chunks and translates an address into a height.

**RootStack.** A pointer is linked from `term_stack` through its `m_prev`. The
module has one action per way in which the classes of `ptr.h` are constructed
(`push`, `swap` with a temporary, a `T_ref` that is not linked at all), grouped by
the call frames and expressions that decide when the destructor runs: temporaries
at the end of the expression, locals at the end of the function in reverse, the
result of a function in the frame of its caller. `pop` tries the newest pointer and
the one below.

**FreeList.** Elements are addresses with a size, in the five lists of a heap, each
with the iterator that stays where the last call left it. `Alloc` walks `m_free`
from that iterator, splits what is too large and asks for a macroblock or a
collection when nothing fits; `merge` is the insertion into `m_free` that joins an element with both
neighbours; `SweepLocal`, `SweepNew`, `SweepGlobal` and `SweepOther` are the loops of `DoGC` that move
elements between lists, one element per step. Whether a term is dead is open,
as that is decided by marking (`MarkSweep`). All is counted in units of the
alignment.

**Signatures, Terms, Library, ListLibrary.** A term is a node of a heap: a
constant, a function, an application (its function, argument, indirection, and
whether it is global) or a blackhole. An address is `<<worker, number>>`, and
`<<name>>` for what is static. The functions of these modules take the machine as one
worker sees it (its heap, its evaluation stack, the queue) and return it after the
call: `Reduce`, `ReduceApply`, `SetIndirection`, `Globalize`, `Duplicate`, `Finish`,
`Enqueue` are those of the code, with their order and their early returns.
`Library` and `ListLibrary` give each `FUN` of `lib.h` its body under its own
name; `$` is application, `Spark`, `Push` and `SetMode` are the effects a
body can have. Constants are integers; C++ division truncates.

**Evaluation.** `stack[w]` is the evaluation stack, a frame is a term and a mode.
`Iterate(w)` is one turn of the loop in `FullReduce`: the check for `halting`, for
a blackhole that blocks, `Reduce`, and what becomes of the frame. `RunQueue(w)`
takes a spark, `Compute` looks at the result and starts over (`term.h:196-218`),
`LoseSpark` is the queue that may lose an entry (`TermQueue` shows how). A worker
that stalls takes no step until the blackhole is done. One turn is atomic: the
accesses inside of a turn that matter are those to a blackhole, and `Blackhole` has
them one by one, in both builds. After
each step the heap is reduced to what can be reached: that this is what the
collector does is shown by `MarkSweep`.

## 3. Runs

| Run | Question | Instance | States |
|---|---|---|---|
| `queue_lossy` | Is the queue safe without locks, and does it empty? | 2 workers that push and pop, 2 priorities of 2 slots, 2 terms | 0.3 M |
| `queue_atomic` | Is it a stack with locks? | 3 workers, 2 of which pop | 0.35 M |
| `barrier` | Does `barrier.h` implement the native barrier? | 5 threads, any number of rounds | 4.8 k |
| `barrier_spurious` | and if waits wake up spuriously? | as above | violation |
| `worker` | Do the threads stay in step under the GC timer, an interrupt, and threads that run out of memory, and does the program end? | main and 2 workers | 99 k |
| `worker_sigint_late`, `worker_oom_shutdown` | the timings excluded above | main and a worker | violations |
| `blackhole` | Is work done once, and does everybody get the result? | both builds, 3 workers, a root that needs one term | 55 k |
| `marksweep` | Does the collector free exactly what cannot be reached? | 2 workers; a local and a global term in one heap, a global one in the other | 3.3 M |
| `structures` | Are the stack, the list of roots and the heap's memory kept together? | below | 1.5 M |
| `eval` | Does a program end with its value? | 75 programs, 10 of them on 2 or 3 workers | 177 k |
| `eval_spark_twice` | and if a term is sparked twice? | one program, 2 workers | violation |

The properties:

* `queue_lossy`: `QueueAlive` (what is on the queue is allocated),
  `PopAlive` (what a pop returns is neither NULL nor freed), `IsPool` (the
  refinement of `SparkPool`, which says so of the entries too that a late write of
  `m_top` can bring back), `TypeOK` (with the bounds of the arrays),
  `QueueDrains` (once pushing stops the queue empties for good).
* `queue_atomic`: `Exclusive`, and `IsStack`, the refinement of `TermStack`: a push
  with room is not lost, a pop returns the youngest term of its priority, and no
  two pops return the same entry.
* `barrier`: `CountWaiting`, `IsBarrier` (refinement of `Barrier`),
  `NobodyStuck` (somebody can go on, and who holds the mutex can),
  `EveryoneReturns`.
* `worker`: `SameBarrier` (those who wait, wait at the same barrier),
  `SamePhase` (nobody marks while others unmark, nobody sweeps while others
  mark), `StopTheWorld` (nobody evaluates meanwhile; `TermQueue` and `MarkSweep`
  rely on it), `IsCollection` (all go through the phases of every collection in the
  order of `Collection`), `NoEarlyError` and `OOMCollects` (a thread
  that asks for a collection finds its request when it inspects the state, so that it
  does not report "out of memory" before that collection, and the collection comes), `GCServed`, `HaltServed`,
  `Terminates`.
* `blackhole`: with compare-and-swap `OneCalculator`, `NoDuplicateWork`,
  `DoneStays`; in both builds `MarkOwned` (a mark belongs to a worker that will
  store a result), `NobodyStuck` (who stalls waits for a worker that can go on with
  the same blackhole or one further down), `MarkResolved`, `StallEnds`, `RootComputed`.
* `marksweep`: `NothingLost` (nothing reachable from a root or the queue is ever
  freed, in any state of any collection), `Collected` (when all workers have
  swept, everything born that is left is reachable), `LocalCollected` (a sweep of
  local terms, in a local collection or a global one, leaves none that its worker
  cannot reach).
* `structures`: `IsFrameStack` (the chunks are one sequence, a call that
  remembered an address recognises it, and a result is stored in the element that
  was reduced), `RootsTraced` (the list of roots ends,
  and holds exactly the pointers that are alive), `TopTwo` (a
  pointer that is destroyed is one of the two topmost: no destructor misses it),
  `Tiled` (the elements of all lists tile the macroblocks: no memory is lost, none
  is used twice), `Coalesced` (the lists stay sorted, and free neighbours have
  become one), `OneMacroBlock` (an allocation that gets a new macroblock is served
  from it).
* `eval`: `ResultRight` (the value is the one the program denotes, no assertion or
  `Error()` was met), `OwnOrGlobal` (a global term refers to global terms, sparks
  are global, what a worker holds is its own or global), `EvaluationEnds`.

The modules of the core have one type invariant each, `TypeOK`. Each is a theorem;
the run of `TermQueue` checks it too, as the bounds of the arrays are part of it.
Some statements are theorems only and in no configuration, though TLC has checked
them on the instances as well: `HolderGoesOn` and `InFlightAlive` of `TermQueue`,
`NobodyStuck` and `RequestsKept` of `Worker`, `OwnOrGlobal` and `IsCollection` of
`MarkSweep`. `CanStep`, in the modules with a `NobodyStuck`, spells out what `ENABLED`
would say of a worker's step, since the prover has no rules for `ENABLED`; on the
instances of `blackhole` and `barrier` TLC found the two equal in every state.

**Bounds.** Two slots let two overlapping pushes and pops overwrite each other's
entries at the bottom and at the limit; two priorities let a pop move on.
Reused addresses are included, as freed terms can be allocated again. Three
threads are the fewest with which two workers differ while main does a third
thing. Rounds of barriers, collections and signals are not bounded: the state
spaces are finite by themselves. In `marksweep` the bounds are `MaxRefs = 2`
(an `Application` has two operands), `MaxQueue = 1` (a second push replaces the
first term or is lost), and which addresses may
become local or global (`Locals`, `Globals`). Three terms suffice for a local
term that keeps a global one alive, for a chain from a root through the heap of
one worker into that of the other, and for circles over both. In `blackhole`
the chain is the smallest graph in which a worker stalls inside of a
calculation; `MCBlackhole` also defines larger ones (`Shared`, `Diamond`), with
which the same properties hold for two workers.
In `structures`: chunks of 2 elements at 3 addresses, 5 elements, 3 nested calls, so
that a call begins and ends at, before and behind the boundary of a chunk, with
another chunk behind it or none, and freed addresses come back (elements and
addresses are symmetric: the code compares them for equality at most); 6 pointers in 3
nested functions, enough for a result that is linked below its maker's locals and
handed on once more; a header of 1 unit, no split below 2, macroblocks of 7 at 2
places that are not adjacent, 3 elements in use of sizes 1 and 3, which gives
remainders below, at and above the limit of splitting, merging on either side
and on both, and a full heap. In `eval` every function of `Library` and
`ListLibrary` but `bool_xor` (section 4) is called by some program. The parallel programs share a term between
main and a spark, between two sparks, between a spark and a postponed one, and
use each combinator that sparks; `MaxWorkers` is 3.

**Fairness.** Every thread that can take a step of its own takes one (`WF` on
the steps of each thread): they are OS threads, and the queue and the blackholes
busy-wait with sleeps, never on a strong lock. Nothing is assumed of the
environment: nobody has to push, to pop a spark, to send a signal or to run out
of memory. In `Worker` an evaluation need not end; `HaltServed` and `GCServed`
hold nevertheless. `Terminates` is conditional on evaluations ending
(`EvaluationsEnd`), since a normal shutdown does not stop a worker whose spark
diverges (`worker.h:355`). `QueueDrains` assumes that the poppers keep calling
`Pop` (`RunQueue` is a loop around it). In `Evaluation` nothing makes a spark get
lost or be taken in time, main may finish first. Weak fairness of `Iterate` is spelled
out there (`Fair`): of all steps only `Iterate(w)` changes a stack that is not
empty, and TLC's evaluation of `ENABLED` for it takes exponential time.

## 4. Findings

Four runs show behaviour that contradicts what the sources say; the traces are
those TLC prints.

1. `barrier_spurious`, `barrier.h:73`. `pthread_cond_wait` is called once and not
   in a loop over a condition. POSIX allows it to return without a broadcast; a
   thread then passes the barrier before the others have arrived, still being
   counted. The comment at line 80 presents the file as the equivalent of the
   native calls.
2. `worker_sigint_late`, `worker.h:298`. SIGINT between main's `InspectState`
   (295) and its `SetState(shutdown)`: a worker sees `halt` and enters the halt
   barrier (352). Main overwrites the state, skips that barrier and enters the first
   one of its last collection. That completes the round in which the worker waits,
   and the worker begins the shutdown sequence one barrier behind main. Main leaves
   the final barrier (361) and calls `pthread_join` (224); the worker arrives at 361
   when nobody is left to meet it. `ShutdownCompletes` is main's comment "now
   shutdown" (299).
3. `worker_oom_shutdown`, `worker.h:544`. `gc_trigger_global` assigns `m_state`
   whatever it was. A worker that runs out of memory after main has announced
   the shutdown replaces it by `global_gc`, after which it is reset to
   `evaluate`. The others go back to work; main waits for ever.
4. `eval_spark_twice`, `worker.h:281`. `Enqueue` of a term that was sparked before
   follows its indirection to the first blackhole, makes a second one on that,
   and lets the first one's result be the second: a circle. The second is
   finished with itself as its result. `ForceReduces` is the comment on `force`
   (`lib.h:90`, "stops at non-reducable terms"): main's forced frame is popped
   on a term that is reducible, and `Compute` starts over for ever.
   `par (x), par (x), add (x) (0)` hangs.

The passing run of `Worker` restricts the environment to what is left: either
SIGINT is delivered to main before it inspects the state for the first time after
its computation, or threads run out of memory before that, and not both
(`Scenarios`). These are the only assumptions there that the code does not
guarantee.

Other things met on the way, which no comment of the sources speaks of and no
run shows:

* `Application::Arguments` (`term.h:626-639`) counts one too many when `m_f` is an
  application that indirects to a bare function already: `id (add) (3) (4)` is
  then taken for a term that lacks an argument, and the program hangs.
* `Function::SetIndirection` (`term.h:512`) does not test for `ind != this` as the
  one of `Application` does: `par` of a bare function makes a circle.
* Arguments that a function without parameters did not take are applied twice
  (`term.h:530-532`).
* `zipWith` ends with the shorter list only if that is the first one; `primxor`
  (`lib.h:378`) is true if both or neither of its arguments are. No comment or test
  says what it should return, so `bool_xor` is translated and no run uses it.
* Both signal handlers test `m_state` before they assign it (`worker.h:435`, `448`).
  They mask each other within a thread, not across threads: if SIGINT is
  handled by a worker, `halt` may be overwritten by `global_gc`. Which thread the
  kernel chooses is outside of the code; the runs let it be main.

## 5. Proofs

The theorems hold for any number of workers, slots, terms and so on, under the
assumptions on constants that the modules name.

**TermQueueProofs.** The inductive invariant is `TypeOK`, `Locals` (what the
local variables hold at each `pc`), `QueueAlive`, `InFlightAlive` and `PopAlive`.
`QueueAlive` alone is not inductive: a push or pop that was overtaken writes an
old `m_top` and brings entries back, hence `InFlightAlive`; and it needs that a
collection waits for all pushes and pops (`Stopped`). Theorems: `TypeCorrect`,
`QueueSafe`, `PopsAlive`, `InFlightSafe`. The same invariant carries
`ImplementsPool`, in every build: a step that only moves terms about (`MovesInPool`)
covers no slot that was not covered before (`CoveredFrom`) and writes nothing that the pool did not
have (`PoolFrom`), `PushRead` is the abstract push, `PopTop` the abstract pop, and a
collection finds nobody in `Push` or `Pop`, so that the pool is what `MarkActive`
reports. With locks, `Exclusive` and `Written` (the slot in
progress has been written) are added: `MutualExclusion`, and `AtomicIsStack`, the
refinement: `PushRead` and `PushTop` are the call and the end of a push (`CallStep`,
`PushStep`), `PopSlot` the pop (`PopStep`), `PopTop` its return (`ReturnStep`). All
of them rest on `OneAtATime`: no other worker is in flight at the priority, so the
entries below `m_top` are the stack, but for the one that a pop has read (`Taken`). `LocksAreReturned` says that the owner of a mutex is between its read and
its write of `m_top`, so it never waits for the mutex of another priority.

**PthreadBarrierProofs.** Without spurious wake-ups: `TypeOK`, `Owner` (who holds
the mutex) and `CountWaiting` are inductive. From the counter follows that the
thread that finds it full is the last of its round (`FullIsLast`, by the
cardinality of the set of waiting threads), and with that every step is one of
`Barrier` or a stutter (`ImplementsNative`). `NobodyIsStuck`: the mutex is held by
a thread in the critical section (`Held`); when it is free, not all threads can be
blocked, since the counter would be full.

**BlackholeProofs.** `TypeOK`, `MarkOwned`, `Marked` (with compare-and-swap, what
a worker calculates is marked) and `OneCalculator`, for any number of workers and
any graph without circles. `MarkIsOwned` holds in both builds; `CalculatedOnce`,
`NoResultTwice` and `ResultStays` are about compare-and-swap. That in `SetCalculating` the old
value is tested by the write itself is what carries the proof. `NobodyIsStuck` is
the safety half of `StallEnds`: who stalls on a blackhole does so because it is
marked or done (`Stalled`), if it is marked some worker calculates it
(`MarkOwned`), and what that worker has on top of its stack is that blackhole or
one further down. If that worker stalled too, it would be on a lower one; so the
least blackhole on which somebody waits in vain contradicts itself.

**WorkerProofs.** For any number of threads, and for interrupts and allocations
that fail before `main` inspects the state for the first time (`Early`, the
environment of the run `worker`; later ones are findings 2 and 3, so the theorems
need the hypothesis). A thread whose round of the barrier is complete may still be
inside of it, so where it stands is not its `pc` but its `place`: behind the
barrier, once it is released. In these terms the argument is short: `Together`
says that all threads are between the same two barriers; `Roles` what each may do
there; `StateRead` and `StateFits` that whoever waits read the `m_state` that is
still there, which is why none of them can wait at `halt` while another waits at
`gc1`; `Handlers` which signals may be under way then; `OneReset` that only the
serial thread resets the state. None of these is inductive without the others.
From the same invariant follow `ImplementsCollection`, where who has left a barrier is
shown to have left it with all others, or to be followed by them before the next
one completes (`PartsTogether`); `NeverAllWait`, as all who wait are at one
barrier, which never holds all threads (`SomeoneIsMissing`), and main is not
waited for by those it joins; and `RequestsAreKept`, the safety half of `GCServed` and
`HaltServed`: nothing overwrites a request before all have met for it.
Theorems: `TypeCorrect`, `BarriersMatch`, `PhasesMatch`, `WorldStops`,
`ErrorsAreLate`, and the three above.

**MarkSweepProofs.** For any number of workers, any heaps and any graph of terms.
What a sweep will leave is `Kept`: everything allocated, but for the unmarked
global terms of the workers that have yet to sweep them. The invariant says that
`Kept` is closed under references (`Closed`) and holds all pointers (`Held`), so
that what is reachable is kept; `NothingIsLost` follows. To show it inductive:
`LocalMarking` and `GlobalMarking` are the tricolour condition, what is marked
refers to what is marked or to be marked, for one worker and for all together
(local terms that have been swept have been marked; unborn terms refer to nothing
yet); `Sees` and `SeenFrom` say that local terms are referred to from their own
heap only, which is why one worker may sweep them alone; `Marks` who may hold a
mark in which phase; `Serial` that somebody has taken the queue when all have
begun to mark. `Ends`, that indirections do not go in circles, is needed because
marking shortens chains. For `GarbageIsCollected` the converse, `Tracing`: what is
marked has been reached. Reached over the terms that are marked already, since
shortening takes away paths over those that are not. A local collection has others
evaluating beside it, so there `Tracing` holds for less: in `LocalTracing`, for the
local terms of the worker that marks. It stays true because others neither see nor mark
those, as all paths that lead to them from outside begin at the worker's own roots;
and nothing of them is marked when the marking begins. `LocalGarbageIsCollected`
follows. `ReachesOwnOrGlobal` closes `Sees` and `SeenFrom` under reachability.
`ImplementsCollection` needs no invariant: the guards of the phases are those of
`Collection`. Theorems: `TypeCorrect`, `NothingIsLost`, `GarbageIsCollected`,
`LocalGarbageIsCollected`, `ReachesOwnOrGlobal`, `ImplementsCollection`.

**RootStackProofs.** For any set of addresses and any depth of calls. The
invariant numbers the pointers of the list from the oldest one on (`Linked`), and
compares that with the order of construction (`Before`: by function, locals before
temporaries, by place). The two orders do not always agree, which is why `TopTwo`
is not inductive: the local that is declared at the end of an expression, or the
result of a function, is linked above temporaries or locals that are destroyed
before it, or, by `swap`, below the newest temporary. `Shape` says that this one
pointer (`Survivor`) is all that is out of order, and that it is then the newest
but for one (`OnTop`). Hence whatever is destroyed next is one of the two topmost,
or an alias that is not linked at all. Theorems: `RootsAreTraced`, for which the
walk of the collector is followed along the numbering, and `PopMeetsTopTwo`.

**FreeListProofs.** For any sizes, macroblocks (not adjacent, as `malloc` keeps a
header of its own between them) and any number of elements. `HeapOK` says that the
lists are sorted and their iterators in range (`ListsOK`), every element is on
exactly one of them (`Placed`; an operation is followed through the moment in
which the element it moves is on none), elements fill their macroblock
(`SizesOK`), and no two free ones are neighbours (`Apart`). `Tiled` and
`Coalesced` follow, and neither is inductive alone: `insert` and `merge` begin at
an iterator that an earlier call left somewhere. `SweepOK` is what makes that
right in a collection: the iterators of the lists that elements are moved to can
still find the place of everything that the sweep has yet to look at (`Ready`),
since every loop resets the iterators it inserts with and all lists are sorted;
and the one of the free list stands on an element (`OnElement`), since `merge`
would miss the predecessor at the end of the list. `WantOK` says that the
macroblock an allocation asked for, merged with what precedes it, is not behind
the iterator of `Alloc` (`Serves`), which gives `OneBlockServes`. Theorems:
`MemoryIsTiled`, `FreeMemoryCoalesces`, `OneBlockServes`.

**ChunkStackProofs.** For chunks of any size, any elements and any number of
nested calls. `ChunksOK` says that chunks behind the current one are empty and
addresses distinct; `CallsOK` that the addresses found by the calls are places of
elements, of heights that do not decrease, the first being NULL; `TurnsOK` that
the address of what a call reduces is a place above the one it found, and not
above what the next call found, which is why nobody else can pop it before the
result is stored. `FlattenSeq` is recursive
inside; the proofs unfold it once (`UptoIs`) and then use `Joined(s, n)`, the
first `n` chunks, by induction on a least counterexample. `HeightBound` carries
the refinement: an address is at most as high as the stack, and as high only if it
is the top, so comparing addresses is comparing heights; `PopKeeps` is where it is
used, a call that is inside of its loop cannot pop the element whose address
another call holds. `StackIsOneSequence` then maps every step to one of
`FrameStack`; `cleanup` stutters.

In these three modules `TypeCorrect` is about a `TypeOK` that is defined there; no
run checks it, as the runs check what is derived from it. The inductive invariants
were checked by TLC on the instances of `structures` before they were proved.

**Only model-checked.** All liveness (TLAPS has no means for fairness here):
`QueueDrains`, `EveryoneReturns`, `GCServed`, `HaltServed`, `OOMCollects`,
`Terminates`, `MarkResolved`, `StallEnds`, `RootComputed`, `EvaluationEnds`. All
of `Evaluation` (`ResultRight`, `OwnOrGlobal`): `Terms` and `Library` are
recursive, and the meaning of a program is an induction over data, both out of the
prover's reach. What `OwnOrGlobal` says of the graph of terms, that globalizing
and sharing keep it so, is proved for the steps of `MarkSweep`, but not for those
of `Terms`. Of the liveness the theorems give the part that is safety: nobody is stuck
(`NobodyStuck`), no lock is kept (`HolderGoesOn`), no request is lost
(`RequestsKept`). The violations are about small instances by nature.

## 6. Not modelled, and why

* Memory weaker than sequential consistency: `platform.h` inserts fences, the
  models do not have caches; `globalize_flushall` is a no-op in them.
* Booting: the threads start at the startup barrier. A thread that runs out of
  memory before is not modelled.
* Static terms in `MarkSweep`: they lie outside of the heaps and are always alive.
* What runs inside of one turn of `FullReduce` is not interleaved in `Evaluation`,
  except for what `Blackhole` has. In particular no two workers compute the same
  term there, as they may without `atomic_indir`.
* Functions on floats, complex numbers, GMP numbers, strings and random numbers
  and what is built on them (`m_rowEchelon`, `m_rank`, ...), and output: arithmetic
  of other libraries, or no influence on the evaluation. Integers do not overflow
  in the programs that are checked.
* Instrumentation, statistics and waveforms: they only write.
* `HeapElementList::remove`, `Stack::swap`, `Stack::compare` and `Stack::bottom`,
  which nothing calls. The heap without collector, which has no state.
* The examples other than `parfib`.

## 7. State of the project

Every safety property that a passing run checks outside of `Evaluation` is a
theorem, and the components of the core are connected by abstract specifications
that are proved on both sides: the barrier (`Barrier`), the phases of a collection
(`Collection`), and the queue of sparks (`TermStack`, `SparkPool`). `MarkSweep` uses the
promise of `SparkPool` in its actions `Push` and `Pop`; that it keeps to its
interface is by its form and not a refinement.

Left: the part of `Terms` that needs no recursion, the globalization of one
node, as a module about which its `OwnOrGlobal` can be proved.
