-------------------------------- MODULE Terms --------------------------------
(***************************************************************************)
(* Terms, term.h: constants, functions, applications and blackholes in a   *)
(* heap, with the predicates the reduction is steered by.  A term is named *)
(* by its address: <<"take">> is a function or a static constant of lib.h, *)
(* <<w, n>> is the n-th cell of the heap of worker w.  A global term is in *)
(* the cell of the worker that allocated it, and every worker may use it.  *)
(*                                                                         *)
(* The operators work on a machine record S of one worker in the middle of *)
(* a step and return it updated, with the term that the C++ function       *)
(* returns in S.r:                                                         *)
(*   w      the worker (current_worker), workers  Config::workers          *)
(*   heap   the cells in use, st  the worker's evaluation stack            *)
(*   q      the two priorities of the queue of sparks, the top last        *)
(*   wait   the step stalls on a blackhole: it does not happen yet         *)
(*   err    the step ends in Error() or in a failing assertion             *)
(* Constants are integers; a build with stats and without atomic_indir is  *)
(* modelled, which is the default of config.h.                             *)
(***************************************************************************)
EXTENDS Signatures, Integers, Sequences

none == <<"none">>                  \* the null pointer
calculating == <<"calculating">>    \* Blackhole::calculating in m_result

(* Kinds of cells.  A bound `ind' is m_indirect, `res' is m_result.        *)
ConstNode(v, g)  == [kind |-> "const", val |-> v, global |-> g]
AppNode(f, a, g) == [kind |-> "app", f |-> f, a |-> a, ind |-> none, global |-> g]
BhNode(t, g)     == [kind |-> "bh", t |-> t, res |-> none, global |-> g]
FunNode(f)       == [kind |-> "fun", name |-> f, ind |-> none, global |-> TRUE]

(* A function or static constant that was never written is not in the heap. *)
Node(S, x) ==
  IF x \in DOMAIN S.heap THEN S.heap[x]
  ELSE IF x[1] \in DOMAIN StaticValue THEN ConstNode(StaticValue[x[1]], TRUE)
  ELSE FunNode(x[1])

Write(S, x, node) == [S EXCEPT !.heap = (x :> node) @@ @]
Return(S, x) == [S EXCEPT !.r = x]
Error(S) == [S EXCEPT !.err = TRUE]

(* new: the lowest free cell of the worker.                                 *)
Alloc(S, node) ==
  LET n == CHOOSE i \in 1 .. Cardinality(DOMAIN S.heap) + 1 :
             /\ <<S.w, i>> \notin DOMAIN S.heap
             /\ \A j \in 1 .. i-1 : <<S.w, j>> \in DOMAIN S.heap
  IN Return(Write(S, <<S.w, n>>, node), <<S.w, n>>)

IsGlobal(S, x) == Node(S, x).global

-----------------------------------------------------------------------------
(* Indirections.                                                            *)

GetIndirection(S, x) ==
  LET n == Node(S, x) IN
  CASE n.kind = "const" -> none
    [] n.kind = "bh" -> IF n.res = calculating THEN none ELSE n.res
    [] OTHER -> n.ind

Indirects(S, x) == GetIndirection(S, x) # none

(* The code loops until an indirection is its own target.                   *)
RECURSIVE FollowFullIndirection(_, _)
FollowFullIndirection(S, x) ==
  LET i == GetIndirection(S, x)
  IN IF i \in {none, x} THEN x ELSE FollowFullIndirection(S, i)

(* Application::SetIndirectionWhen: a global application keeps the first    *)
(* result; Blackhole::SetState(done, .); a constant ignores it.             *)
SetIndirection(S, x, i) ==
  LET n == Node(S, x) IN
  CASE n.kind = "fun" -> Return(Write(S, x, [n EXCEPT !.ind = i]), i)
    [] n.kind = "bh" -> Return(Write(S, x, [n EXCEPT !.res = i]), i)
    [] n.kind = "app" /\ i # x ->
         IF n.global /\ n.ind # none
         THEN Return(S, n.ind)
         ELSE Return(Write(S, x, [n EXCEPT !.ind = i]), i)
    [] OTHER -> Return(S, i)

IndirectToResult(S, x) == SetIndirection(S, x, S.r)

-----------------------------------------------------------------------------
(* What a term still needs, and whether evaluating it could block.          *)

RECURSIVE Arguments(_, _), BaseFunction(_, _), CountArguments(_, _, _)

BaseFunction(S, x) ==
  LET n == Node(S, x) IN
  IF n.kind # "app" THEN x
  ELSE IF n.ind # none THEN BaseFunction(S, FollowFullIndirection(S, x))
  ELSE n.f

(* The loop of Application::Arguments: appl goes up once more than there    *)
(* are applications to be found when f already indirects to a bare function. *)
CountArguments(S, f1, appl) ==
  LET f2 == BaseFunction(S, f1)
  IN IF f1 = f2 THEN Arguments(S, f2) - appl ELSE CountArguments(S, f2, appl + 1)

Arguments(S, x) ==
  LET n == Node(S, x) IN
  CASE n.kind = "const" -> 0
    [] n.kind = "bh" -> Arguments(S, IF Indirects(S, x) THEN n.res ELSE n.t)
    [] n.kind = "fun" /\ n.ind = none -> Arity[n.name]
    [] n.kind = "app" /\ n.ind = none -> CountArguments(S, n.f, 1)
    [] OTHER -> Arguments(S, FollowFullIndirection(S, x))

IsReducable(S, x) ==
  LET n == Node(S, x) IN
  CASE n.kind = "const" -> FALSE
    [] n.kind = "bh" -> TRUE
    [] n.kind = "fun" -> Arguments(S, x) = 0
    [] n.kind = "app" -> n.ind # none \/ Arguments(S, n.f) <= 1

IsFunction(S, x) == Arguments(S, x) > 0

RECURSIVE IsBlocked(_, _), ReduceWillBlock(_, _), ReduceApplyWillBlock(_, _)

IsBlocked(S, x) ==
  LET n == Node(S, x) IN
  IF n.kind = "bh" THEN n.res = calculating
  ELSE Indirects(S, x) /\ IsBlocked(S, FollowFullIndirection(S, x))

ReduceApplyWillBlock(S, x) ==
  LET n == Node(S, x) IN
  CASE n.kind \in {"const", "bh"} -> IsBlocked(S, x)
    [] n.kind \in {"fun", "app"} /\ n.ind # none ->
         ReduceApplyWillBlock(S, FollowFullIndirection(S, x))
    [] n.kind = "app" -> IsBlocked(S, n.a) \/ IsBlocked(S, n.f)
    [] OTHER -> FALSE

ReduceWillBlock(S, x) ==
  LET n == Node(S, x) IN
  IF n.kind = "bh"
  THEN \/ n.res = calculating
       \/ ReduceApplyWillBlock(S, IF n.res = none THEN n.t ELSE n.res)
  ELSE Indirects(S, x) /\ ReduceWillBlock(S, FollowFullIndirection(S, x))

-----------------------------------------------------------------------------
(* Construction.                                                            *)

RECURSIVE Apply(_, _, _)
Apply(S, f, a) ==
  LET n == Node(S, f) IN
  CASE n.kind = "const" -> Error(Return(S, f))
    [] n.kind = "app" /\ n.ind # none -> Apply(S, FollowFullIndirection(S, f), a)
    [] OTHER -> Alloc(S, AppNode(f, a, FALSE))

(* Global<Application>::Duplicate; the other terms duplicate to themselves. *)
Duplicate(S, x) ==
  LET n == Node(S, x)
  IN IF n.kind = "app" /\ n.global
     THEN Alloc(S, [n EXCEPT !.global = FALSE])
     ELSE Return(S, x)

(* Term::Globalize: a work list on the evaluation stack, written here as a  *)
(* recursion over the term: arguments, then function, then the copy.        *)
GlobalBlackhole(S, x) == IndirectToResult(Alloc(S, BhNode(S.r, TRUE)), x)
GlobalApplication(S, a, x) ==
  IndirectToResult(Alloc(S, AppNode(S.r, a, TRUE)), x)

RECURSIVE Globalize(_, _)
Globalize(S, x) ==
  LET y == FollowFullIndirection(S, x)
      n == Node(S, y)
  IN IF n.global THEN Return(S, y)
     ELSE CASE n.kind = "const" -> Alloc(S, ConstNode(n.val, TRUE))
            [] n.kind = "app" ->
                 LET A == Globalize(S, n.a)
                 IN GlobalApplication(Globalize(A, n.f), A.r, y)
            [] n.kind = "bh" /\ n.res = none -> GlobalBlackhole(Globalize(S, n.t), y)
            [] OTHER -> Error(Return(S, y))      \* a calculating blackhole

(* Blackhole::Finish: the first result counts, MatchMem makes it global.    *)
Finish_Local(S, bh, x) ==
  IF Indirects(S, bh) THEN Return(S, Node(S, bh).res)
  ELSE SetIndirection(S, bh, FollowFullIndirection(S, x))

(* Only a blackhole that is being calculated is finished (an assertion).   *)
Finish(S, bh, x) ==
  LET y == FollowFullIndirection(S, x) IN
  IF Node(S, bh).res = none THEN Error(S)
  ELSE IF Indirects(S, bh) THEN Return(S, Node(S, bh).res)
  ELSE IndirectToResult(IF IsGlobal(S, bh) THEN Globalize(S, y) ELSE Return(S, y), bh)

(* Worker::Enqueue: the spark is a global blackhole on the term, which then *)
(* indirects to it.                                                         *)
GlobalizeResult(S) == Globalize(S, S.r)
WithSpark(S, prio) == [S EXCEPT !.q[prio] = Append(@, S.r)]

Enqueue(S, x, add_bh, prio) ==
  LET target == FollowFullIndirection(S, x)
      spark == IF add_bh /\ IsReducable(S, target)
               THEN Alloc(S, BhNode(target, FALSE))
               ELSE Return(S, target)
  IN IF S.workers = 1 THEN Return(S, x)
     ELSE IndirectToResult(WithSpark(GlobalizeResult(spark), prio), target)

-----------------------------------------------------------------------------
(* The evaluation stack: frames of a term and a mode, the top last.         *)

Modes == <<"stop", "catch", "normal", "stressed", "forced", "halt">>
Rank(mode) == CHOOSE i \in DOMAIN Modes : Modes[i] = mode

Frame(x, mode) == [term |-> x, mode |-> mode]
PushFrame(S, x, mode) == [S EXCEPT !.st = Append(@, Frame(x, mode))]
worker_eval_mode(S) == S.st[Len(S.st)].mode
worker_eval_setmode(S, mode) == [S EXCEPT !.st[Len(S.st)].mode = mode]

-----------------------------------------------------------------------------
(* Bodies of functions are expressions, which Build carries out: `f $ a' is *)
(* f (a), Let(es, e) names shared terms v(1), v(2), .. and the other forms  *)
(* are the calls that have an effect while the body runs.                   *)

f $ a == <<"apply", f, a>>
Let(es, e) == <<"let", es, e>>
v(i) == <<-1, i>>
Number(n) == <<"number", "", n>>
Push(mode, e) == <<"push", mode, e>>
SetMode(mode, e) == <<"mode", mode, e>>
Spark(prio, e) == <<"spark", prio, e>>
Protect(e) == <<"protect", "", e>>
ToGlobal(e) == <<"global", "", e>>
FinishBlackhole(bh, x) == <<"finish", bh, x>>
FinishGlobal(g, x) == <<"indirect", g, x>>
Fails == <<"fails", "", "">>

RECURSIVE Build(_, _, _), BuildAll(_, _, _)
Build(S, env, e) ==
  IF Len(e) = 1 THEN Return(S, e)
  ELSE IF Len(e) = 2 THEN Return(S, IF e[1] = -1 THEN env[e[2]] ELSE e)
  ELSE CASE e[1] = "apply" ->
              LET B == Build(S, env, e[2])
                  A == Build(B, env, e[3])
              IN Apply(A, B.r, A.r)
         [] e[1] = "let" ->
              LET D == BuildAll(S, env, e[2]) IN Build(D.s, D.env, e[3])
         [] e[1] = "number" -> Alloc(S, ConstNode(e[3], FALSE))
         [] e[1] = "push" ->
              LET B == Build(S, env, e[3]) IN PushFrame(B, B.r, e[2])
         [] e[1] = "mode" -> Build(worker_eval_setmode(S, e[2]), env, e[3])
         [] e[1] = "spark" ->
              LET B == Build(S, env, e[3]) IN Enqueue(B, B.r, e[2] = 0, e[2])
         [] e[1] = "protect" ->
              LET B == Build(S, env, e[3]) IN Alloc(B, BhNode(B.r, FALSE))
         [] e[1] = "global" -> GlobalizeResult(Build(S, env, e[3]))
         [] e[1] = "finish" -> Finish(S, e[2], e[3])
         [] e[1] = "indirect" ->
              IndirectToResult(Globalize(S, e[3]), e[2])
         [] OTHER -> Error(S)

BuildAll(S, env, es) ==
  IF es = <<>> THEN [s |-> S, env |-> env]
  ELSE LET B == Build(S, env, Head(es)) IN BuildAll(B, Append(env, B.r), Tail(es))
=============================================================================
