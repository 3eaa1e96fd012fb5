------------------------------- MODULE Library -------------------------------
(***************************************************************************)
(* The standard library, lib.h: the body of every function of Signatures   *)
(* under the name it has there.  A body takes the addresses of its         *)
(* arguments, looks at them in the heap of S where the C++ code does, and  *)
(* is the expression that Build (Terms) turns into the returned term.      *)
(***************************************************************************)
EXTENDS Terms

Value(S, x) == Node(S, x).val
IsConstant(S, x) == Node(S, x).kind = "const"

(* as<lcint_t>: what is not a constant here is not computable.              *)
WithValue(S, x, e) == IF IsConstant(S, x) THEN e ELSE Fails

(* EAGER_FUN eager: pushed at once, and returned as it is.                  *)
Eager(e) == Push("forced", e)

(* EAGER_FUN par1.                                                          *)
Par1(S, e) == IF S.workers = 1 THEN F.reduce $ e ELSE F.lazy $ Spark(0, e)

(* operator, of lib.h: the left term first, the value of the right one.     *)
Sequel(a, b) == F.pseq $ a $ b

(* The usual start of a strict function: have x reduced and try again, or   *)
(* move inside when x is itself a function.                                 *)
Strict(S, x, again, e) ==
  IF IsReducable(S, x) THEN F.eagerApply $ again $ x
  ELSE IF IsFunction(S, x) THEN F.compose $ again $ x
  ELSE e

-----------------------------------------------------------------------------
(* Basics.                                                                  *)

id(t) == t
apply(S, f, a) == f $ FollowFullIndirection(S, a)
flip(f, a, b) == f $ b $ a
compose(f, g, a) == f $ (g $ a)
trash(a, b) == b
trash2(a, b) == a

-----------------------------------------------------------------------------
(* Evaluation: functions that read or set the mode of the frame on top, or  *)
(* push a frame.                                                            *)

StopsUpTo(S, mode, x) ==
  IF Rank(worker_eval_mode(S)) <= Rank(mode) THEN SetMode("stop", x) ELSE x

lazy(S, x) == StopsUpTo(S, "normal", x)
block(S, x) == StopsUpTo(S, "stressed", x)
stop(S, x) == StopsUpTo(S, "forced", x)
halt(S, x) == IF S.w # 0 THEN SetMode("halt", x) ELSE x
catchHalt_Not(S, x) == x
catchHalt(S, x) ==
  IF S.w # 0 /\ worker_eval_mode(S) # "halt" THEN SetMode("catch", x) ELSE x
lazy_stop(t) == t
lazyApply(f, a) == F.lazy $ (f $ a)
reduce(t) == Push("normal", t)
reducedApply(f, a) == F.apply $ f $ Push("normal", a)
stress(x) == Push("stressed", x)
stressedApply(f, a) == F.apply $ f $ Push("stressed", a)
eagerApply(f, a) == F.apply $ f $ Eager(a)
force(t) == Eager(t)
inheritApply(S, w, f, a) ==
  LET how == CASE worker_eval_mode(S) = "normal" -> F.reducedApply
               [] worker_eval_mode(S) = "stressed" -> F.stressedApply
               [] worker_eval_mode(S) = "forced" -> F.eagerApply
               [] OTHER -> F.apply
  IN w $ (how $ f $ a)
opportune(S, a, b) == F.reduce $ (IF ReduceWillBlock(S, a) THEN b ELSE a)

-----------------------------------------------------------------------------
(* Parallelism.                                                             *)

globalize(S, t) == IF S.workers > 1 THEN ToGlobal(t) ELSE t
protect(S, e) == IF S.workers > 1 THEN Protect(e) ELSE e
par1f(S, x) == Par1(S, x)
par(S, x) == Sequel(Par1(S, x), F.id)
parApply(S, f, a) == Par1(S, f $ a)
pseq(x) == F.reducedApply $ F.trash $ x
pass(f, a) == F.pseq $ (f $ a) $ a
gc(x) == x
stall(x) == x
postpone_stop(x) == x

postpone(S, x, bh) ==
  IF S.w = 0 \/ ~IsReducable(S, bh) THEN x
  ELSE IF ~IsBlocked(S, bh) THEN F.stressedApply $ (F.postpone $ x) $ bh
  ELSE Let(<<Spark(1, F.postponed $ x $ bh)>>, F.halt $ x)

postponed(S, x, bh) ==
  IF S.w = 0 THEN Fails
  ELSE IF IsBlocked(S, bh)
  THEN Sequel(F.stall $ (F.postpone $ x $ bh), F.nothing)
  ELSE Sequel(x, F.nothing)

postponedApplyNow(S, x, bh) ==
  IF S.w = 0 \/ ~IsReducable(S, bh) THEN x
  ELSE IF ~IsBlocked(S, bh) THEN F.stressedApply $ (F.postponedApplyNow $ x) $ bh
  ELSE IF Rank(worker_eval_mode(S)) <= Rank("stressed")
  THEN F.halt $ (F.postponedApplyNow $ x $ bh)
  ELSE x

postponedApply(S, f, a) ==
  IF S.w = 0 \/ ~IsReducable(S, a) THEN f $ a
  ELSE IF ~IsBlocked(S, a) THEN F.stressedApply $ (F.postponedApply $ f) $ a
  ELSE F.postpone $ (F.postponedApplyNow $ protect(S, f $ a) $ a) $ a

peppyApply2(S, f, a, b) ==
  Let(<<f $ a>>,
      Sequel(Sequel(a, v(1)),
             F.postponedApply
               $ (F.trash2 $ (F.postponedApply $ v(1) $ Par1(S, b))) $ a))

peppyApply3(S, f, a, b, c) ==
  Let(<<Par1(S, b), Par1(S, c), f $ a>>,
      Sequel(Sequel(a, v(3)),
             F.postponedApply
               $ (F.trash2 $ (F.postponedApply
                                $ (F.postponedApply $ v(3) $ v(1)) $ v(2)))
               $ a))

-----------------------------------------------------------------------------
(* Comparison of terms, and the finishers of term.h.                        *)

Truth(b) == IF b THEN True ELSE False

choose(S, nzero, zero, expr) ==
  Strict(S, expr, F.choose $ nzero $ zero,
         WithValue(S, expr, IF Value(S, expr) # 0 THEN nzero ELSE zero))

isTerm(S, x, y) ==
  Truth(FollowFullIndirection(S, x) = FollowFullIndirection(S, y))

isReducedTerm(S, x, y) ==
  IF IsReducable(S, x) THEN F.eagerApply $ (F.flip $ F.isReducedTerm $ y) $ x
  ELSE IF IsReducable(S, y) THEN F.eagerApply $ (F.isReducedTerm $ x) $ y
  ELSE Truth(x = y)

isTrue(expr) == F.isReducedTerm $ True $ expr
isFalse(expr) == F.isReducedTerm $ False $ expr
isZero(S, expr) ==
  Strict(S, expr, F.isZero, WithValue(S, expr, Truth(Value(S, expr) = 0)))
isNonZero(S, expr) ==
  Strict(S, expr, F.isNonZero, WithValue(S, expr, Truth(Value(S, expr) # 0)))

primop(S, op, a1, a2) ==
  LET first  == F.flip $ (F.primop $ op) $ a2
      second == F.primop $ op $ a1
  IN IF IsReducable(S, a1) THEN F.eagerApply $ first $ a1
     ELSE IF IsReducable(S, a2) THEN F.eagerApply $ second $ a2
     ELSE IF IsFunction(S, a1) THEN F.compose $ first $ a1
     ELSE IF IsFunction(S, a2) THEN F.compose $ second $ a2
     ELSE op $ a1 $ a2

blackhole_finish(bh, x) == F.block $ FinishBlackhole(bh, x)
blackhole_finisher(bh, x) ==
  F.catchHalt $ (F.reducedApply $ (F.blackhole_finish $ bh) $ x)
global_reduce_finish(g, r) == F.block $ FinishGlobal(g, r)
global_reduce_finisher(g, r) ==
  F.inheritApply $ F.catchHalt $ (F.global_reduce_finish $ g) $ r

-----------------------------------------------------------------------------
(* Boolean logic.  primxor and bool_not compare addresses.                  *)

primxor(a, b) == Truth(a = b)
bool_xor(a, b) == F.primop $ F.primxor $ a $ b
bool_and(S, a, b) ==
  Strict(S, a, F.flip $ F.bool_and $ b, IF a = False THEN False ELSE b)

bool_or_And(S, a, b) ==
  Strict(S, a, F.flip $ F.bool_or $ b, IF a = False THEN False ELSE b)
bool_or(S, a, b) ==
  Strict(S, a, F.flip $ F.bool_or $ b, IF a = True THEN True ELSE b)

bool_not(S, a) ==
  IF IsReducable(S, a) THEN F.eagerApply $ F.bool_not $ a
  ELSE Truth(a = False)

(* A primitive operator on two constants; on another term it is an Error.   *)
Primitive(S, a, b, e) == WithValue(S, a, WithValue(S, b, e))

primeq(S, a, b) == Primitive(S, a, b, Truth(Value(S, a) = Value(S, b)))
primne(S, a, b) == Primitive(S, a, b, Truth(Value(S, a) # Value(S, b)))
primgt(S, a, b) == Primitive(S, a, b, Truth(Value(S, a) > Value(S, b)))
primlt(S, a, b) == Primitive(S, a, b, Truth(Value(S, a) < Value(S, b)))
primge(S, a, b) == Primitive(S, a, b, Truth(Value(S, a) >= Value(S, b)))
primle(S, a, b) == Primitive(S, a, b, Truth(Value(S, a) <= Value(S, b)))

(* eq, ne, gt, lt, ge and le of lib.h, by the primitive they are made of.   *)
Compares(prim, a, b) == F.primop $ prim $ a $ b

-----------------------------------------------------------------------------
(* The matching construct: pick (when (..) (..)) .. (otherwise (..)).       *)

otherwise(x, result) == F.choose $ x $ result $ (F.isTerm $ F.nothing $ result)
when(expr, nzero, result) ==
  F.choose $ (F.next_when $ nzero) $ (F.next_when $ result)
    $ (F.bool_and $ (F.isTerm $ F.nothing $ result) $ (F.isNonZero $ expr))
next_when(result, otherw) == otherw $ result
pick(w) == w $ F.nothing

-----------------------------------------------------------------------------
(* Math.  Division truncates; dividing by zero has no result.               *)

Quotient(a, b) ==
  LET Abs(i) == IF i < 0 THEN -i ELSE i
      q == Abs(a) \div Abs(b)
  IN IF (a < 0) = (b < 0) THEN q ELSE -q

primadd(S, a1, a2) == Primitive(S, a1, a2, Number(Value(S, a1) + Value(S, a2)))
primsub(S, a1, a2) == Primitive(S, a1, a2, Number(Value(S, a1) - Value(S, a2)))
primmult(S, a1, a2) == Primitive(S, a1, a2, Number(Value(S, a1) * Value(S, a2)))
primdiv(S, a1, a2) ==
  Primitive(S, a1, a2,
            IF Value(S, a2) = 0 THEN Fails
            ELSE Number(Quotient(Value(S, a1), Value(S, a2))))
primmod(S, a1, a2) ==
  Primitive(S, a1, a2,
            IF Value(S, a2) = 0 THEN Fails
            ELSE Number(Value(S, a1)
                        - Value(S, a2) * Quotient(Value(S, a1), Value(S, a2))))

(* add, sub, mult, divide and mod.                                          *)
Calculates(prim, a1, a2) == F.primop $ prim $ a1 $ a2
inc(t) == F.add $ t $ F.one
dec(t) == F.sub $ t $ F.one
=============================================================================
