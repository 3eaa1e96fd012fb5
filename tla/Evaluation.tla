----------------------------- MODULE Evaluation -----------------------------
(***************************************************************************)
(* Graph reduction by Config::workers workers, term.h and worker.h: worker *)
(* 0 is the main thread, that computes the program's value, the others     *)
(* take sparks from the queue.  Each has an evaluation stack, on which     *)
(* FullReduce works; they share the heap of terms and the queue.           *)
(*                                                                         *)
(* One turn of the loop of FullReduce is one step.  The interleavings      *)
(* inside a turn, between the reads and writes of a blackhole, are in      *)
(* Blackhole; here it matters in which order turns of several workers can  *)
(* come.  A turn that would stall on a blackhole waits until it is done.   *)
(* After a step the heap holds what is still reachable, as the collector   *)
(* keeps it (MarkSweep), so that a loop of the program is a loop here.     *)
(* The queue may drop a term at any moment (TermQueue).                    *)
(***************************************************************************)
EXTENDS ListLibrary

CONSTANTS Programs,    \* records [main, value, workers]: lc_main as an expression
          MaxWorkers   \* the most workers of a program

ASSUME ProgramsAssumption == \A p \in Programs : p.workers \in 1 .. MaxWorkers

VARIABLES program,     \* the program that runs
          heap,        \* cells in use, of all workers
          stack,       \* stack[w]: frames of worker w, the top last
          halting,     \* halting[w]: local `halting' of FullReduce
          queue,       \* the sparks of both priorities, the top last
          start,       \* `this' of the Compute that main is in
          result,      \* what main's FullReduce has returned
          status       \* "run", "done" or "error" (Error, a failed assertion)

vars == <<program, heap, stack, halting, queue, start, result, status>>

Workers == 0 .. MaxWorkers - 1
Prios == {0, 1}

Machine(w) ==
  [w |-> w, workers |-> program.workers, heap |-> heap, st |-> stack[w], q |-> queue,
   r |-> none, wait |-> FALSE, err |-> FALSE]

-----------------------------------------------------------------------------
(* Function::ReduceApply and its overrides.  A stalled step is not carried  *)
(* on: it will be taken as a whole when the blackhole is done.              *)

RECURSIVE ApplyAll(_, _, _)
ApplyAll(S, f, args) ==
  IF args = <<>> THEN Return(S, f)
  ELSE LET A == Apply(S, f, Head(args)) IN ApplyAll(A, A.r, Tail(args))

Least(i, j) == IF i < j THEN i ELSE j

RECURSIVE ReduceApply(_, _, _), Reduce(_, _)

(* Function::ApplyNow; a constant applicative form remembers its result.    *)
Remember(S, x, name) ==
  IF Arity[name] = 0 THEN Return(IndirectToResult(GlobalizeResult(S), x), S.r) ELSE S

ApplyNow(S, x, args) ==
  LET n == Node(S, x) IN
  IF n.ind # none THEN ReduceApply(S, FollowFullIndirection(S, x), args)
  ELSE Remember(Build(S, <<>>, Body(S, n.name, args)), x, n.name)

(* Arguments that the function did not take.                                *)
ApplyRest(S, x, args) ==
  LET used == Arguments(S, x)
  IN IF used < 0 THEN S ELSE ApplyAll(S, S.r, SubSeq(args, used + 1, Len(args)))
ApplySixth(S, args) ==
  IF Len(args) = 5 THEN Alloc(S, AppNode(S.r, args[5], FALSE)) ELSE S

ReduceApply(S, x, args) ==
  LET n == Node(S, x) IN
  CASE S.wait \/ S.err \/ n.kind = "const" -> Return(S, x)
    [] ~(S.wait \/ S.err) /\ n.kind = "fun" ->
         IF Arguments(S, x) > Len(args) THEN ApplyAll(S, x, args)
         ELSE ApplyRest(ApplyNow(S, x, args), x, args)
    [] ~(S.wait \/ S.err) /\ n.kind = "app" ->
         IF n.ind # none THEN ReduceApply(S, FollowFullIndirection(S, x), args)
         ELSE ApplySixth(ReduceApply(S, n.f, <<n.a>> \o SubSeq(args, 1, Least(4, Len(args)))),
                         args)
    [] ~(S.wait \/ S.err) /\ n.kind = "bh" ->
         LET R == Reduce(S, x) IN ReduceApply(R, R.r, args)

(* Application::Reduce of a term that only this worker knows.               *)
ReduceLocal(S, x, n) ==
  IF n.ind # none
  THEN SetIndirection(S, x, FollowFullIndirection(S, x))
  ELSE IF Arguments(S, n.f) > 1 THEN Return(S, x)
  ELSE IF Arguments(S, n.f) <= 0 THEN Return(PushFrame(S, n.f, "normal"), x)
  ELSE IndirectToResult(ReduceApply(S, x, <<>>), x)

(* Global<Application>::Reduce: a local copy, that hands in its result.     *)
ReduceGlobal(S, x, n) ==
  IF ~IsReducable(S, x) THEN Return(S, x)
  ELSE IF n.ind # none THEN Return(S, FollowFullIndirection(S, x))
  ELSE LET D == Duplicate(S, x)
       IN Build(D, <<>>, F.global_reduce_finisher $ x $ D.r)

ReduceBlackhole(S, x, n) ==
  CASE n.res = none ->
         LET D == Duplicate(Write(S, x, [n EXCEPT !.res = calculating]), n.t)
         IN Build(D, <<>>, F.blackhole_finisher $ x $ D.r)
    [] n.res = calculating -> [Return(S, x) EXCEPT !.wait = TRUE]
    [] OTHER -> Return(S, n.res)

Reduce(S, x) ==
  LET n == Node(S, x) IN
  CASE n.kind = "const" -> Return(S, x)
    [] n.kind = "fun" ->
         IF n.ind # none THEN Return(S, n.ind)
         ELSE IF Arguments(S, x) = 0 THEN ReduceApply(S, x, <<>>)
         ELSE Return(S, x)
    [] n.kind = "app" ->
         IF n.global THEN ReduceGlobal(S, x, n) ELSE ReduceLocal(S, x, n)
    [] n.kind = "bh" -> ReduceBlackhole(S, x, n)

-----------------------------------------------------------------------------
(* One turn of FullReduce on the top frame of a stack.                      *)

Pop(S) == [S EXCEPT !.st = SubSeq(@, 1, Len(@) - 1)]

(* top->mode after the check of `halting'.                                  *)
TopMode(S, halts) ==
  IF halts /\ worker_eval_mode(S) # "catch" THEN "halt" ELSE worker_eval_mode(S)

(* The frame gets what Reduce returned in R; a term that did not change is  *)
(* done, unless it pushed a frame.                                          *)
Settle(R, k, t) ==
  LET T == [R EXCEPT !.st[k].term = R.r]
  IN IF R.r = t /\ Len(T.st) = k /\ T.st[k].mode # "halt" THEN Pop(T) ELSE T

Turn(S, mode) ==
  LET k == Len(S.st)
      M == [S EXCEPT !.st[k].mode = mode]
      t == S.st[k].term
  IN IF \/ mode \in {"stop", "halt"}
        \/ mode # "forced" /\ ReduceWillBlock(M, t)
     THEN Pop(M)
     ELSE Settle(Reduce(M, t), k, t)

-----------------------------------------------------------------------------
(* What the collector keeps.                                                *)

Refers(n) ==
  CASE n.kind = "const" -> {}
    [] n.kind = "app" -> IF n.ind # none THEN {n.ind} ELSE {n.f, n.a}
    [] n.kind = "bh" -> IF n.res \in {none, calculating} THEN {n.t} ELSE {n.res}
    [] n.kind = "fun" -> {n.ind}

RECURSIVE Reach(_, _, _)
Reach(h, todo, seen) ==
  IF todo = {} THEN seen
  ELSE LET next == (UNION {Refers(h[x]) : x \in todo}) \cap DOMAIN h
       IN Reach(h, next \ (seen \cup todo), seen \cup todo)

Terms_(st) == {st[i].term : i \in DOMAIN st}

Alive(h, stacks, q, others) ==
  LET roots == (UNION {Terms_(stacks[w]) : w \in Workers})
               \cup (UNION {{q[p][i] : i \in DOMAIN q[p]} : p \in Prios})
               \cup others \cup {x \in DOMAIN h : Len(x) = 1}
  IN [x \in Reach(h, roots \cap DOMAIN h, {}) |-> h[x]]

-----------------------------------------------------------------------------
(* main computes the program's expression, everything else is empty.        *)
Init ==
  /\ program \in Programs
  /\ LET B == Build([w |-> 0, workers |-> program.workers, heap |-> <<>>, st |-> <<>>,
                     q |-> <<>>, r |-> none, wait |-> FALSE, err |-> FALSE],
                    <<>>, program.main)
     IN /\ heap = B.heap
        /\ start = B.r
        /\ stack = [w \in Workers |-> IF w = 0 THEN <<Frame(B.r, "forced")>> ELSE <<>>]
  /\ halting = [w \in Workers |-> FALSE]
  /\ queue = [p \in Prios |-> <<>>]
  /\ result = none
  /\ status = "run"

(* A turn of the loop of FullReduce; main notes what it returns.            *)
Iterate(w) ==
  /\ status = "run"
  /\ stack[w] # <<>>
  /\ \E mode \in {TopMode(Machine(w), halting[w])} :
     \E T \in {Turn(Machine(w), mode)} :
     LET returned == IF w = 0 /\ T.st = <<>> THEN stack[w][1].term ELSE result
         stacks == [stack EXCEPT ![w] = T.st]
     IN /\ ~T.wait
        /\ heap' = Alive(T.heap, stacks, T.q, {start, returned})
        /\ stack' = stacks
        /\ queue' = T.q
        /\ halting' = [halting EXCEPT ![w] = @ \/ mode = "halt"]
        /\ result' = returned
        /\ status' = IF T.err THEN "error" ELSE status
  /\ UNCHANGED <<program, start>>

(* Term::Compute: a constant is the result, other terms are reduced again,  *)
(* unless nothing changed.                                                  *)
Compute ==
  /\ status = "run"
  /\ stack[0] = <<>>
  /\ IF Node(Machine(0), result).kind = "const"
     THEN status' = "done" /\ UNCHANGED <<stack, start, result>>
     ELSE IF result = start
     THEN status' = "error" /\ UNCHANGED <<stack, start, result>>
     ELSE /\ stack' = [stack EXCEPT ![0] = <<Frame(result, "forced")>>]
          /\ start' = result
          /\ result' = none
          /\ UNCHANGED status
  /\ UNCHANGED <<program, heap, halting, queue>>

(* TermQueue::Pop takes priority 0 first.                                   *)
Popped == IF queue[0] # <<>> THEN 0 ELSE 1

(* An idle worker pops a spark and fully reduces it.                        *)
RunQueue(w) ==
  /\ status = "run"
  /\ w \in 1 .. program.workers - 1
  /\ stack[w] = <<>>
  /\ queue[Popped] # <<>>
  /\ LET q == queue[Popped] IN
     /\ stack' = [stack EXCEPT ![w] = <<Frame(q[Len(q)], "normal")>>]
     /\ queue' = [queue EXCEPT ![Popped] = SubSeq(@, 1, Len(@) - 1)]
  /\ halting' = [halting EXCEPT ![w] = FALSE]
  /\ UNCHANGED <<program, heap, start, result, status>>

(* A spark gets lost between two unprotected updates of m_top.              *)
LoseSpark(p) ==
  /\ status = "run"
  /\ queue[p] # <<>>
  /\ queue' = [queue EXCEPT ![p] = SubSeq(@, 1, Len(@) - 1)]
  /\ heap' = Alive(heap, stack, queue', {start, result})
  /\ UNCHANGED <<program, stack, halting, start, result, status>>

(* main has its value: the system shuts down (Worker).                      *)
Finished == status # "run" /\ UNCHANGED vars

Next ==
  \/ \E w \in Workers : Iterate(w) \/ RunQueue(w)
  \/ \E p \in Prios : LoseSpark(p)
  \/ Compute
  \/ Finished

(* Threads are scheduled fairly; no spark has to get lost.  Fair(w) is weak *)
(* fairness of Iterate(w), spelled out for TLC, which computes ENABLED of a *)
(* turn without sharing: CanIterate(w) is when it is enabled, and of all    *)
(* steps only it changes a stack that is not empty.                         *)
CanIterate(w) ==
  /\ status = "run"
  /\ stack[w] # <<>>
  /\ ~Turn(Machine(w), TopMode(Machine(w), halting[w])).wait

Fair(w) ==
  \/ []<>~CanIterate(w)
  \/ []<><<stack[w] # <<>> /\ stack'[w] # stack[w]>>_vars

Spec ==
  /\ Init /\ [][Next]_vars
  /\ \A w \in Workers : Fair(w) /\ WF_vars(RunQueue(w))
  /\ WF_vars(Compute)

-----------------------------------------------------------------------------
(* The value is the one the program denotes, whoever computed which part,   *)
(* and no step ended in Error() or a failed assertion (term.h:209-215).     *)
ResultRight ==
  /\ status # "error"
  /\ status = "done" => Node(Machine(0), result).val = program.value

(* Workers use each other's heap only by global terms: a global term refers *)
(* to global terms, only those are sparks, and what a worker can reach is   *)
(* global or its own (term.h:636-637, 666-667, worker.h:279-281).           *)
OwnOrGlobal ==
  LET Shared(x) == x \notin DOMAIN heap \/ heap[x].global
      Mine(w, x) == Shared(x) \/ x[1] = w
  IN /\ \A x \in DOMAIN heap :
          \A y \in Refers(heap[x]) : IF heap[x].global THEN Shared(y) ELSE Mine(x[1], y)
     /\ \A p \in Prios : \A i \in DOMAIN queue[p] : Shared(queue[p][i])
     /\ \A w \in Workers : \A x \in Terms_(stack[w]) : Mine(w, x)

(* The program ends, also when a spark is lost or postponed (worker.h:286). *)
EvaluationEnds == <>(status # "run")

(* "force: stops at non-reducable terms" (lib.h:90): a forced frame is      *)
(* popped when its term cannot be reduced any further.                      *)
ForceReduces ==
  [][\A w \in Workers :
       LET k == Len(stack[w]) IN
       /\ k > 0 /\ Len(stack'[w]) = k - 1 /\ ~halting[w]
       /\ stack[w][k].mode = "forced"
       => ~IsReducable(Machine(w), stack[w][k].term)]_vars
=============================================================================
