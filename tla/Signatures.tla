----------------------------- MODULE Signatures -----------------------------
(***************************************************************************)
(* The functions that FUN declares in lib.h with the number of their       *)
(* arguments, section by section, and the static constants.  Functions on  *)
(* floats, on GMP numbers, on strings, on rand_r and for output are left   *)
(* out.  nfib, parfib and peppyfib are those of examples/parfib.           *)
(***************************************************************************)
EXTENDS Integers, TLC, FiniteSets

Arity ==
  [id |-> 1, apply |-> 2, flip |-> 3, compose |-> 3, trash |-> 2,
   trash2 |-> 2,                                            \* basics
   lazy |-> 1, block |-> 1, stop |-> 1, halt |-> 1, catchHalt |-> 1,
   lazy_stop |-> 1, lazyApply |-> 2, reduce |-> 1, reducedApply |-> 2,
   stress |-> 1, stressedApply |-> 2, eagerApply |-> 2, force |-> 1,
   inheritApply |-> 3, opportune |-> 2,                     \* evaluation
   globalize |-> 1, par1f |-> 1, par |-> 1, parApply |-> 2, pseq |-> 1,
   pass |-> 2, gc |-> 1, stall |-> 1, postpone_stop |-> 1, postpone |-> 2,
   postponed |-> 2, postponedApplyNow |-> 2, postponedApply |-> 2,
   peppyApply2 |-> 3, peppyApply3 |-> 4,                    \* parallelism
   choose |-> 3, isTerm |-> 2, isReducedTerm |-> 2, isTrue |-> 1,
   isFalse |-> 1, isZero |-> 1, isNonZero |-> 1, primop |-> 3,
   blackhole_finish |-> 2, blackhole_finisher |-> 2,
   global_reduce_finish |-> 2, global_reduce_finisher |-> 2, \* comparison
   primxor |-> 2, bool_xor |-> 2, bool_and |-> 2, bool_or |-> 2,
   bool_not |-> 1, primeq |-> 2, primne |-> 2, primgt |-> 2, primlt |-> 2,
   primge |-> 2, primle |-> 2, eq |-> 2, ne |-> 2, gt |-> 2, lt |-> 2,
   ge |-> 2, le |-> 2,                                      \* boolean logic
   otherwise |-> 2, when |-> 3, next_when |-> 2, pick |-> 1, \* matching construct
   primadd |-> 2, primsub |-> 2, primmult |-> 2, primdiv |-> 2,
   primmod |-> 2, add |-> 2, sub |-> 2, mult |-> 2, divide |-> 2,
   mod |-> 2, inc |-> 1, dec |-> 1,                         \* math
   tuple |-> 3, fst |-> 1, snd |-> 1, swap |-> 1, front |-> 2, head |-> 1,
   tail |-> 1, isempty |-> 1, iterate |-> 2, take |-> 2, repeat |-> 1,
   replicate |-> 2, range1 |-> 1, range |-> 2, drop |-> 2, dropWhile |-> 2,
   concat2 |-> 2, concat |-> 1, zip |-> 2, zipWith |-> 3, zipAll |-> 2,
   foldl |-> 3, foldl1 |-> 2, scanl |-> 3, scanl1 |-> 2, map |-> 2,
   mapEager |-> 2, eagerList |-> 1, eagerMatrix |-> 1, mapPar |-> 2,
   sum |-> 1, length |-> 1, reverse |-> 1, rotate |-> 2, lindex |-> 2,
   find |-> 2, findIndices |-> 2, splitAt |-> 2, any |-> 2, all |-> 2,
   filter |-> 2, combine |-> 2,                             \* tuples and lists
   m_identity_ |-> 3, m_identity |-> 1, m_row |-> 2, m_col |-> 2,
   m_cell |-> 3, m_transpose |-> 1, m_map |-> 2, m_zipWith |-> 3,
   m_add |-> 2, m_sub |-> 2, m_mults |-> 2, m_mult_cell_ |-> 2,
   m_mult_rows_ |-> 2, m_mult |-> 2, m_swapRow |-> 3, m_multRow |-> 3,
   m_addRow |-> 3, m_cleanRow |-> 2,                        \* matrices
   nfib |-> 1, parfib |-> 2, peppyfib |-> 2]                \* examples/parfib

StaticValue == [nothing |-> 0, zero |-> 0, one |-> 1, two |-> 2, empty |-> -1]

(* The address of each.                                                     *)
F == [x \in DOMAIN Arity \cup DOMAIN StaticValue |-> <<x>>]

False == F.zero
True == F.one
end == F.empty
=============================================================================
