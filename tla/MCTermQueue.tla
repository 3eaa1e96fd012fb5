---------------------------- MODULE MCTermQueue ----------------------------
(* Constants of the runs of TermQueue.                                     *)
EXTENDS TermQueue, TLC

CONSTANTS m, a, b, x, y, z

ThreeWorkers == {m, a, b}
TwoPoppers   == {a, b}
TwoTerms     == {x, y}
ThreeTerms   == {x, y, z}

(* Init and Next treat all terms alike, and so do the invariants.          *)
TermSymmetry == Permutations(Terms)
=============================================================================
