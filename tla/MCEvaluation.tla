---------------------------- MODULE MCEvaluation ----------------------------
(* Programs for Evaluation, each with the value it denotes.                *)
EXTENDS Evaluation

(* A program that yields one number, on n workers.                         *)
Run(n, main, value) == [main |-> main, value |-> value, workers |-> n]

(* The list of the elements of s, a matrix of rows, and both read as one   *)
(* number, digit by digit.                                                 *)
RECURSIVE ListOf(_), Read(_)
ListOf(s) == IF s = <<>> THEN end ELSE F.front $ Head(s) $ ListOf(Tail(s))
Ns(s) == [i \in DOMAIN s |-> Number(s[i])]
List(s) == ListOf(Ns(s))
Matrix(rows) == ListOf([i \in DOMAIN rows |-> List(rows[i])])
Read(s) == IF s = <<>> THEN 0 ELSE 10 * Read(SubSeq(s, 1, Len(s) - 1)) + s[Len(s)]
Digits(l) == F.foldl $ (F.compose $ F.add $ (F.mult $ Number(10))) $ F.zero $ l
Cells(m) == Digits(F.concat $ m)

N(i) == Number(i)
L123 == List(<<1, 2, 3>>)
L45 == List(<<4, 5>>)
M == Matrix(<<<<1, 2>>, <<3, 4>>>>)

(* A list program yields the sequence s.                                   *)
Yields(l, s) == Run(1, Digits(l), Read(s))
YieldsMatrix(m, s) == Run(1, Cells(m), Read(s))
Is(e, value) == Run(1, e, value)

Combinators ==
  { Is(F.flip $ F.sub $ N(3) $ N(7), 4),
    Is(F.compose $ F.inc $ (F.mult $ F.two) $ N(4), 9),
    Is(F.apply $ F.dec $ N(4), 3),
    Is(F.trash $ N(1) $ N(2), 2),
    Is(F.pass $ F.inc $ N(5), 5),
    Is(F.lazyApply $ F.inc $ N(5), 6),
    Is(F.add $ (F.stress $ (F.inc $ F.one)) $ (F.reduce $ (F.dec $ F.one)), 2),
    Is(F.lazy $ (F.block $ (F.stop $ (F.gc $ (F.stall $ F.two)))), 2),
    Is(F.opportune $ (F.inc $ F.one) $ F.zero, 2),
    Is(F.lazy_stop $ (F.postpone_stop $ (F.globalize $ (F.halt $ F.two))), 2),
    Is(F.par1f $ (F.inc $ F.one), 2),
    Is(F.postpone $ F.two $ F.one, 2),
    Is(F.peppyfib $ F.two $ F.one, 3),
    Is(F.peppyApply3 $ F.choose $ F.one $ F.two $ F.zero, 2) }

Arithmetic ==
  { Is(F.divide $ N(-7) $ F.two, -3),
    Is(F.mod $ N(-7) $ F.two, -1),
    Is(F.sub $ (F.mult $ N(3) $ N(4)) $ (F.dec $ F.two), 11),
    Is(F.add $ F.inc $ F.dec $ N(3) $ N(4), 7),
    Is(F.bool_and $ (F.lt $ F.one $ F.two) $ (F.ge $ F.two $ F.two), 1),
    Is(F.bool_or $ (F.gt $ F.one $ F.two) $ (F.ne $ F.two $ F.two), 0),
    Is(F.bool_not $ (F.eq $ F.one $ N(1)), 0),
    Is(F.add $ (F.isTrue $ (F.le $ F.one $ F.two)) $ (F.isFalse $ (F.isZero $ F.one)), 2),
    Is(F.isNonZero $ (F.sub $ F.two $ F.two), 0),
    Is(F.pick $ (F.when $ (F.gt $ F.one $ F.two) $ N(7))
              $ (F.when $ (F.gt $ F.two $ F.one) $ N(8)) $ (F.otherwise $ N(9)), 8),
    Is(F.pick $ (F.when $ F.zero $ N(7)) $ (F.otherwise $ N(9)), 9) }

Tuples ==
  { Is(F.fst $ (F.swap $ (F.tuple $ N(3) $ N(4))), 4),
    Yields(F.take $ F.two $ (F.iterate $ F.inc $ F.one), <<1, 2>>),
    Yields(F.take $ F.two $ (F.repeat $ N(4)), <<4, 4>>),
    Yields(F.replicate $ N(3) $ N(4), <<4, 4, 4>>),
    Yields(F.concat2 $ (F.range1 $ F.two) $ (F.range $ N(4) $ N(5)), <<1, 2, 4, 5>>),
    Yields(F.drop $ F.one $ L123, <<2, 3>>),
    Yields(F.dropWhile $ (F.gt $ F.two) $ L123, <<2, 3>>),
    Yields(F.rotate $ L123 $ F.one, <<2, 3, 1>>),
    Is(F.lindex $ L123 $ F.two, 3),
    Yields(F.snd $ (F.splitAt $ F.one $ L123), <<2, 3>>) }

Lists ==
  { Yields(F.concat $ ListOf(<<L123, end, L45>>), <<1, 2, 3, 4, 5>>),
    Yields(F.map $ F.fst $ (F.zip $ L123 $ L45), <<1, 2>>),
    Yields(F.zipWith $ F.add $ L45 $ L123, <<5, 7>>),
    Yields(F.zipAll $ F.add $ ListOf(<<L45, L45, L45>>), <<12, 15>>),
    Yields(F.mapEager $ F.inc $ L123, <<2, 3, 4>>),
    Yields(F.concat $ (F.eagerMatrix $ M), <<1, 2, 3, 4>>),
    Yields(F.mapPar $ F.inc $ L45, <<5, 6>>),
    Yields(F.reverse $ L123, <<3, 2, 1>>),
    Yields(F.filter $ (F.ne $ F.two) $ L123, <<1, 3>>),
    Yields(F.map $ F.snd $ (F.combine $ L45 $ L123), <<1, 1, 2, 2, 3, 3>>),
    Is(F.foldl1 $ F.sub $ L123, -4),
    Yields(F.scanl $ F.add $ F.one $ L123, <<1, 2, 4, 7>>),
    Yields(F.scanl1 $ F.add $ L123, <<1, 3, 6>>),
    Is(F.sum $ L123, 6),
    Is(F.length $ L123, 3),
    Is(F.find $ (F.eq $ N(3)) $ L123, 2),
    Yields(F.findIndices $ (F.ne $ F.two) $ L123, <<0, 2>>),
    Is(F.any $ (F.eq $ N(3)) $ L123, 1),
    Is(F.all $ (F.eq $ N(3)) $ L123, 0) }

Matrices ==
  { YieldsMatrix(F.m_identity $ F.two, <<1, 0, 0, 1>>),
    Yields(F.m_col $ M $ F.one, <<2, 4>>),
    Is(F.m_cell $ M $ F.one $ F.zero, 3),
    YieldsMatrix(F.m_transpose $ M, <<1, 3, 2, 4>>),
    YieldsMatrix(F.m_add $ M $ (F.m_mults $ M $ F.two), <<3, 6, 9, 12>>),
    YieldsMatrix(F.m_sub $ M $ M, <<0, 0, 0, 0>>),
    YieldsMatrix(F.m_mult $ M $ M, <<7, 10, 15, 22>>),
    YieldsMatrix(F.m_swapRow $ M $ F.one $ F.zero, <<3, 4, 1, 2>>),
    YieldsMatrix(F.m_multRow $ M $ F.one $ F.two, <<1, 2, 6, 8>>),
    YieldsMatrix(F.m_addRow $ M $ F.zero $ F.one, <<4, 6, 3, 4>>),
    Yields(F.m_cleanRow $ List(<<1, 2>>) $ List(<<3, 7>>), <<0, 1>>) }

(* Shared work.  A spark is lost, taken by another worker, or still there   *)
(* when main needs its value; v(1) is shared, so that others block on it.   *)
Succ(e) == F.inc $ e
Parallel ==
  { Run(2, Let(<<Succ(Succ(F.one))>>, F.par $ v(1) $ (F.add $ v(1) $ v(1))), 6),
    Run(2, Let(<<Succ(Succ(F.one))>>,
               F.par $ v(1) $ (F.par $ (F.add $ v(1) $ F.two) $ (F.add $ v(1) $ v(1)))), 6),
    Run(3, Let(<<Succ(F.one), Succ(F.two)>>,
               F.par $ v(1) $ (F.par $ v(2) $ (F.add $ v(1) $ v(2)))), 5),
    Run(2, Let(<<Succ(F.one), F.postponedApply $ F.inc $ v(1)>>,
               F.par $ v(1) $ (F.par $ v(2) $ (F.pseq $ v(1) $ v(2)))), 3),
    Run(2, Let(<<Succ(F.one)>>,
               F.par $ v(1) $ (F.globalize $ (F.opportune $ v(1) $ F.two))), 2),
    Run(2, F.parApply $ F.inc $ Succ(F.one), 3),
    Run(2, F.peppyApply2 $ F.add $ Succ(F.one) $ Succ(F.one), 4),
    Run(2, F.peppyApply3 $ F.choose $ F.one $ F.two $ Succ(F.one), 1),
    Run(2, F.head $ (F.mapPar $ F.inc $ List(<<1>>)), 2),
    Run(2, F.parfib $ F.two $ F.one, 3) }

AllPrograms == Combinators \cup Arithmetic \cup Tuples \cup Lists \cup Matrices \cup Parallel

(* A term is sparked that is a spark already.                               *)
SparkTwice ==
  { Run(2, Let(<<Succ(Succ(F.one))>>,
               F.par $ v(1) $ (F.par $ v(1) $ (F.add $ v(1) $ v(1)))), 6) }
=============================================================================
