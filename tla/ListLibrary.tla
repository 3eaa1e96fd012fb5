----------------------------- MODULE ListLibrary -----------------------------
(***************************************************************************)
(* Tuples, lists and matrices of lib.h and the functions of                *)
(* examples/parfib, and the table from names to bodies.  A tuple is a      *)
(* function that waits for a selector, a list is a chain of tuples that    *)
(* ends in `end', a matrix is a list of rows.  Nothing here looks at the   *)
(* heap: these bodies only build terms, lazily.                            *)
(***************************************************************************)
EXTENDS Library

Choose(expr, nzero, zero) == F.choose $ nzero $ zero $ expr
Or(a, b) == F.bool_or $ a $ b
Empty(l) == F.isempty $ l
Head_(l) == F.head $ l
Tail_(l) == F.tail $ l
Dec(n) == F.dec $ n
Inc(n) == F.inc $ n

(* Tuples.                                                                  *)
tuple(left, right, c) == F.choose $ right $ left $ c
fst(tup) == tup $ F.zero
snd(tup) == tup $ F.one
swap(tup) == F.tuple $ (F.snd $ tup) $ (F.fst $ tup)

(* Lists: the ends of a list, and lists made from an element.               *)
front(t, list) == F.tuple $ t $ list
head(list) == F.fst $ list
tail(list) == F.snd $ list
isempty(list) == F.isReducedTerm $ end $ list

iterate(fun, start) ==
  F.front $ start $ (F.iterate $ fun $ (fun $ start))
repeat(val) == F.front $ val $ (F.repeat $ val)
replicate(count, val) == F.take $ count $ (F.iterate $ F.id $ val)
range1(till) == F.take $ till $ (F.iterate $ F.inc $ F.one)
range(from, till) ==
  F.take $ Inc(F.sub $ till $ from) $ (F.iterate $ F.inc $ from)

(* Parts of a list.                                                         *)
take(count, list) ==
  Choose(Or(F.isZero $ count, Empty(list)),
         end,
         F.front $ Head_(list) $ (F.take $ Dec(count) $ Tail_(list)))
drop(count, list) ==
  Choose(Or(F.isZero $ count, Empty(list)),
         list,
         F.drop $ Dec(count) $ Tail_(list))
dropWhile(fun, list) ==
  Choose(Or(Empty(list), F.bool_not $ (fun $ Head_(list))),
         list,
         F.dropWhile $ fun $ Tail_(list))
rotate(list, count) == F.concat2 $ (F.drop $ count $ list) $ (F.take $ count $ list)
lindex(list, ix) == Head_(F.drop $ ix $ list)
splitAt(at, xs) == F.tuple $ (F.take $ at $ xs) $ (F.drop $ at $ xs)

(* Lists from lists.                                                        *)
concat2(l1, l2) ==
  Choose(Empty(l1), l2, F.front $ Head_(l1) $ (F.concat2 $ Tail_(l1) $ l2))
concat(ls) ==
  Choose(Empty(ls), end, F.concat2 $ Head_(ls) $ (F.concat $ Tail_(ls)))
zip(l1, l2) ==
  Choose(Or(Empty(l1), Empty(l2)),
         end,
         F.front $ (F.tuple $ Head_(l1) $ Head_(l2))
                 $ (F.zip $ Tail_(l1) $ Tail_(l2)))
zipWith(fun, l1, l2) ==
  Choose(Empty(l1),
         end,
         F.front $ (fun $ Head_(l1) $ Head_(l2))
                 $ (F.zipWith $ fun $ Tail_(l1) $ Tail_(l2)))
zipAll(fun, lists) ==
  Let(<<Head_(lists), Tail_(lists)>>,
      Choose(Empty(lists),
             end,
             Choose(Empty(Tail_(lists)),
                    v(1),
                    F.zipWith $ fun $ v(1) $ (F.zipAll $ fun $ v(2)))))
map(fun, list) ==
  Choose(Empty(list), end, F.front $ (fun $ Head_(list)) $ (F.map $ fun $ Tail_(list)))
mapEager(fun, list) ==
  Let(<<fun $ Head_(list), F.mapEager $ fun $ Tail_(list)>>,
      Choose(Empty(list), end, Sequel(Sequel(v(1), v(2)), F.front $ v(1) $ v(2))))
eagerList(list) == F.mapEager $ F.id $ list
eagerMatrix(m) == F.mapEager $ F.eagerList $ m
mapPar(fun, list) == F.mapEager $ (F.parApply $ fun) $ list
reverse(list) ==
  Choose(Empty(list),
         end,
         F.concat2 $ (F.reverse $ Tail_(list)) $ (F.front $ Head_(list) $ end))
filter(fun, list) ==
  Let(<<Head_(list), F.filter $ fun $ Tail_(list)>>,
      Choose(Empty(list),
             end,
             Choose(fun $ v(1), F.front $ v(1) $ v(2), v(2))))
combine(l1, l2) ==
  Choose(Empty(l2),
         end,
         F.concat2 $ (F.map $ (F.flip $ F.tuple $ Head_(l2)) $ l1)
                   $ (F.combine $ l1 $ Tail_(l2)))

(* Folds and searches.                                                      *)
foldl(fun, start, list) ==
  Choose(Empty(list), start, F.foldl $ fun $ (fun $ start $ Head_(list)) $ Tail_(list))
foldl1(fun, list) == F.foldl $ fun $ Head_(list) $ Tail_(list)
scanl(fun, a, l) ==
  F.front $ a $ Choose(Empty(l), end, F.scanl $ fun $ (fun $ a $ Head_(l)) $ Tail_(l))
scanl1(fun, l) == Choose(Empty(l), end, F.scanl $ fun $ Head_(l) $ Tail_(l))
sum(list) ==
  Let(<<Head_(list), Tail_(list)>>,
      Choose(Empty(list),
             F.zero,
             Choose(Empty(v(2)), v(1), F.add $ v(1) $ (F.sum $ v(2)))))
length(list) == F.foldl $ Inc(F.trash2) $ F.zero $ list
find(fun, list) ==
  Choose(Or(Empty(list), fun $ Head_(list)), F.zero, Inc(F.find $ fun $ Tail_(list)))
findIndices(cmp, list) ==
  Let(<<F.map $ F.inc $ (F.findIndices $ cmp $ Tail_(list))>>,
      Choose(Empty(list),
             end,
             Choose(cmp $ Head_(list), F.front $ F.zero $ v(1), v(1))))
any(fun, list) == F.foldl $ (F.bool_or $ fun) $ False $ list
all(fun, list) == F.foldl $ (F.bool_and $ fun) $ True $ list

-----------------------------------------------------------------------------
(* Matrices.                                                                *)

m_identity_(zero, one, size) ==
  Let(<<F.front $ one $ (F.replicate $ Dec(size) $ zero),
        F.map $ (F.front $ zero) $ (F.m_identity_ $ zero $ one $ Dec(size))>>,
      Choose(size, F.front $ v(1) $ v(2), end))
m_identity(size) == F.m_identity_ $ F.zero $ F.one $ size
m_row(matrix, ix) == F.lindex $ matrix $ ix
m_col(matrix, ix) == F.map $ (F.flip $ F.lindex $ ix) $ matrix
m_cell(matrix, row, col) == F.lindex $ (F.m_row $ matrix $ row) $ col
m_transpose(matrix) ==
  Choose(Or(Empty(matrix), Empty(Head_(matrix))),
         end,
         F.front $ (F.map $ F.head $ matrix)
                 $ (F.m_transpose $ (F.map $ F.tail $ matrix)))
m_map(fun, matrix) == F.map $ (F.map $ fun) $ matrix
m_zipWith(fun, m1, m2) ==
  Choose(Empty(m1),
         end,
         F.front $ (F.zipWith $ fun $ Head_(m1) $ Head_(m2))
                 $ (F.m_zipWith $ fun $ Tail_(m1) $ Tail_(m2)))
m_add(m1, m2) == F.m_zipWith $ F.add $ m1 $ m2
m_sub(m1, m2) == F.m_zipWith $ F.sub $ m1 $ m2
m_mults(m, c) == F.m_map $ (F.mult $ c) $ m
m_mult_cell_(row, col) == F.sum $ (F.zipWith $ F.mult $ row $ col)
m_mult_rows_(rows, cols) ==
  Choose(Empty(rows),
         end,
         F.front $ (F.map $ (F.m_mult_cell_ $ Head_(rows)) $ cols)
                 $ (F.m_mult_rows_ $ Tail_(rows) $ cols))
m_mult(m1, m2) == F.m_mult_rows_ $ m1 $ (F.m_transpose $ m2)
m_swapRow(m, ix1, ix2) ==
  Let(<<F.take $ ix1 $ m,
        F.m_row $ m $ ix2,
        F.drop $ Inc(ix1) $ (F.take $ ix2 $ m),
        F.m_row $ m $ ix1,
        F.drop $ Inc(ix2) $ m>>,
      Choose(F.eq $ ix1 $ ix2,
             m,
             Choose(F.gt $ ix1 $ ix2,
                    F.m_swapRow $ m $ ix2 $ ix1,
                    F.concat2 $ v(1) $ (F.front $ v(2)
                      $ (F.concat2 $ v(3) $ (F.front $ v(4) $ v(5)))))))
m_multRow(m, ix, c) ==
  Let(<<F.take $ ix $ m, F.drop $ ix $ m>>,
      F.concat2 $ v(1)
        $ (F.front $ (F.map $ (F.mult $ c) $ Head_(v(2))) $ Tail_(v(2))))
m_addRow(m, rowToAddTo, rowToAdd) ==
  Let(<<F.m_row $ m $ rowToAdd, F.take $ rowToAddTo $ m, F.drop $ rowToAddTo $ m>>,
      F.concat2 $ v(2)
        $ (F.front $ (F.zipWith $ F.add $ v(1) $ Head_(v(3))) $ Tail_(v(3))))
m_cleanRow(cleaner, row) ==
  F.zipWith $ (F.flip $ F.sub $ (F.mult $ Head_(row))) $ row $ cleaner

-----------------------------------------------------------------------------
(* examples/parfib.                                                         *)

nfib(x) ==
  Choose(F.le $ x $ F.one,
         F.one,
         F.add $ (F.add $ (F.nfib $ (F.sub $ x $ F.two))
                        $ (F.nfib $ (F.sub $ x $ F.one))) $ F.one)

Smaller(fib, n, t) ==
  <<fib $ (F.sub $ n $ F.one) $ t, fib $ (F.sub $ n $ F.two) $ t>>
UpTo(n, t, e) ==
  F.pick $ (F.when $ (F.le $ n $ t) $ (F.force $ (F.nfib $ n))) $ (F.otherwise $ e)

parfib(n, t) ==
  Let(Smaller(F.parfib, n, t),
      UpTo(n, t, F.par $ v(2)
                   $ Sequel(v(1), F.add $ (F.add $ v(1) $ v(2)) $ F.one)))
peppyfib(n, t) ==
  Let(Smaller(F.peppyfib, n, t),
      UpTo(n, t, F.peppyApply2 $ (F.add $ F.inc) $ v(1) $ v(2)))

-----------------------------------------------------------------------------
(* m_f of each function; a holds its arguments.                             *)

Body(S, name, a) ==
  CASE name = "id" -> id(a[1])
    [] name = "apply" -> apply(S, a[1], a[2])
    [] name = "flip" -> flip(a[1], a[2], a[3])
    [] name = "compose" -> compose(a[1], a[2], a[3])
    [] name = "trash" -> trash(a[1], a[2])
    [] name = "trash2" -> trash2(a[1], a[2])
    [] name = "lazy" -> lazy(S, a[1])
    [] name = "block" -> block(S, a[1])
    [] name = "stop" -> stop(S, a[1])
    [] name = "halt" -> halt(S, a[1])
    [] name = "catchHalt" -> catchHalt(S, a[1])
    [] name = "lazy_stop" -> lazy_stop(a[1])
    [] name = "lazyApply" -> lazyApply(a[1], a[2])
    [] name = "reduce" -> reduce(a[1])
    [] name = "reducedApply" -> reducedApply(a[1], a[2])
    [] name = "stress" -> stress(a[1])
    [] name = "stressedApply" -> stressedApply(a[1], a[2])
    [] name = "eagerApply" -> eagerApply(a[1], a[2])
    [] name = "force" -> force(a[1])
    [] name = "inheritApply" -> inheritApply(S, a[1], a[2], a[3])
    [] name = "opportune" -> opportune(S, a[1], a[2])
    [] name = "globalize" -> globalize(S, a[1])
    [] name = "par1f" -> par1f(S, a[1])
    [] name = "par" -> par(S, a[1])
    [] name = "parApply" -> parApply(S, a[1], a[2])
    [] name = "pseq" -> pseq(a[1])
    [] name = "pass" -> pass(a[1], a[2])
    [] name = "gc" -> gc(a[1])
    [] name = "stall" -> stall(a[1])
    [] name = "postpone_stop" -> postpone_stop(a[1])
    [] name = "postpone" -> postpone(S, a[1], a[2])
    [] name = "postponed" -> postponed(S, a[1], a[2])
    [] name = "postponedApplyNow" -> postponedApplyNow(S, a[1], a[2])
    [] name = "postponedApply" -> postponedApply(S, a[1], a[2])
    [] name = "peppyApply2" -> peppyApply2(S, a[1], a[2], a[3])
    [] name = "peppyApply3" -> peppyApply3(S, a[1], a[2], a[3], a[4])
    [] name = "choose" -> choose(S, a[1], a[2], a[3])
    [] name = "isTerm" -> isTerm(S, a[1], a[2])
    [] name = "isReducedTerm" -> isReducedTerm(S, a[1], a[2])
    [] name = "isTrue" -> isTrue(a[1])
    [] name = "isFalse" -> isFalse(a[1])
    [] name = "isZero" -> isZero(S, a[1])
    [] name = "isNonZero" -> isNonZero(S, a[1])
    [] name = "primop" -> primop(S, a[1], a[2], a[3])
    [] name = "blackhole_finish" -> blackhole_finish(a[1], a[2])
    [] name = "blackhole_finisher" -> blackhole_finisher(a[1], a[2])
    [] name = "global_reduce_finish" -> global_reduce_finish(a[1], a[2])
    [] name = "global_reduce_finisher" -> global_reduce_finisher(a[1], a[2])
    [] name = "primxor" -> primxor(a[1], a[2])
    [] name = "bool_xor" -> bool_xor(a[1], a[2])
    [] name = "bool_and" -> bool_and(S, a[1], a[2])
    [] name = "bool_or" -> bool_or(S, a[1], a[2])
    [] name = "bool_not" -> bool_not(S, a[1])
    [] name = "primeq" -> primeq(S, a[1], a[2])
    [] name = "primne" -> primne(S, a[1], a[2])
    [] name = "primgt" -> primgt(S, a[1], a[2])
    [] name = "primlt" -> primlt(S, a[1], a[2])
    [] name = "primge" -> primge(S, a[1], a[2])
    [] name = "primle" -> primle(S, a[1], a[2])
    [] name = "eq" -> Compares(F.primeq, a[1], a[2])
    [] name = "ne" -> Compares(F.primne, a[1], a[2])
    [] name = "gt" -> Compares(F.primgt, a[1], a[2])
    [] name = "lt" -> Compares(F.primlt, a[1], a[2])
    [] name = "ge" -> Compares(F.primge, a[1], a[2])
    [] name = "le" -> Compares(F.primle, a[1], a[2])
    [] name = "otherwise" -> otherwise(a[1], a[2])
    [] name = "when" -> when(a[1], a[2], a[3])
    [] name = "next_when" -> next_when(a[1], a[2])
    [] name = "pick" -> pick(a[1])
    [] name = "primadd" -> primadd(S, a[1], a[2])
    [] name = "primsub" -> primsub(S, a[1], a[2])
    [] name = "primmult" -> primmult(S, a[1], a[2])
    [] name = "primdiv" -> primdiv(S, a[1], a[2])
    [] name = "primmod" -> primmod(S, a[1], a[2])
    [] name = "add" -> Calculates(F.primadd, a[1], a[2])
    [] name = "sub" -> Calculates(F.primsub, a[1], a[2])
    [] name = "mult" -> Calculates(F.primmult, a[1], a[2])
    [] name = "divide" -> Calculates(F.primdiv, a[1], a[2])
    [] name = "mod" -> Calculates(F.primmod, a[1], a[2])
    [] name = "inc" -> inc(a[1])
    [] name = "dec" -> dec(a[1])
    [] name = "tuple" -> tuple(a[1], a[2], a[3])
    [] name = "fst" -> fst(a[1])
    [] name = "snd" -> snd(a[1])
    [] name = "swap" -> swap(a[1])
    [] name = "front" -> front(a[1], a[2])
    [] name = "head" -> head(a[1])
    [] name = "tail" -> tail(a[1])
    [] name = "isempty" -> isempty(a[1])
    [] name = "iterate" -> iterate(a[1], a[2])
    [] name = "take" -> take(a[1], a[2])
    [] name = "repeat" -> repeat(a[1])
    [] name = "replicate" -> replicate(a[1], a[2])
    [] name = "range1" -> range1(a[1])
    [] name = "range" -> range(a[1], a[2])
    [] name = "drop" -> drop(a[1], a[2])
    [] name = "dropWhile" -> dropWhile(a[1], a[2])
    [] name = "concat2" -> concat2(a[1], a[2])
    [] name = "concat" -> concat(a[1])
    [] name = "zip" -> zip(a[1], a[2])
    [] name = "zipWith" -> zipWith(a[1], a[2], a[3])
    [] name = "zipAll" -> zipAll(a[1], a[2])
    [] name = "foldl" -> foldl(a[1], a[2], a[3])
    [] name = "foldl1" -> foldl1(a[1], a[2])
    [] name = "scanl" -> scanl(a[1], a[2], a[3])
    [] name = "scanl1" -> scanl1(a[1], a[2])
    [] name = "map" -> map(a[1], a[2])
    [] name = "mapEager" -> mapEager(a[1], a[2])
    [] name = "eagerList" -> eagerList(a[1])
    [] name = "eagerMatrix" -> eagerMatrix(a[1])
    [] name = "mapPar" -> mapPar(a[1], a[2])
    [] name = "sum" -> sum(a[1])
    [] name = "length" -> length(a[1])
    [] name = "reverse" -> reverse(a[1])
    [] name = "rotate" -> rotate(a[1], a[2])
    [] name = "lindex" -> lindex(a[1], a[2])
    [] name = "find" -> find(a[1], a[2])
    [] name = "findIndices" -> findIndices(a[1], a[2])
    [] name = "splitAt" -> splitAt(a[1], a[2])
    [] name = "any" -> any(a[1], a[2])
    [] name = "all" -> all(a[1], a[2])
    [] name = "filter" -> filter(a[1], a[2])
    [] name = "combine" -> combine(a[1], a[2])
    [] name = "m_identity_" -> m_identity_(a[1], a[2], a[3])
    [] name = "m_identity" -> m_identity(a[1])
    [] name = "m_row" -> m_row(a[1], a[2])
    [] name = "m_col" -> m_col(a[1], a[2])
    [] name = "m_cell" -> m_cell(a[1], a[2], a[3])
    [] name = "m_transpose" -> m_transpose(a[1])
    [] name = "m_map" -> m_map(a[1], a[2])
    [] name = "m_zipWith" -> m_zipWith(a[1], a[2], a[3])
    [] name = "m_add" -> m_add(a[1], a[2])
    [] name = "m_sub" -> m_sub(a[1], a[2])
    [] name = "m_mults" -> m_mults(a[1], a[2])
    [] name = "m_mult_cell_" -> m_mult_cell_(a[1], a[2])
    [] name = "m_mult_rows_" -> m_mult_rows_(a[1], a[2])
    [] name = "m_mult" -> m_mult(a[1], a[2])
    [] name = "m_swapRow" -> m_swapRow(a[1], a[2], a[3])
    [] name = "m_multRow" -> m_multRow(a[1], a[2], a[3])
    [] name = "m_addRow" -> m_addRow(a[1], a[2], a[3])
    [] name = "m_cleanRow" -> m_cleanRow(a[1], a[2])
    [] name = "nfib" -> nfib(a[1])
    [] name = "parfib" -> parfib(a[1], a[2])
    [] name = "peppyfib" -> peppyfib(a[1], a[2])
=============================================================================
