---------------------------- MODULE MCMarkSweep ----------------------------
(* An instance of MarkSweep for TLC: the heap of one worker has a local and *)
(* a global term, the heap of the other a global term.                      *)
EXTENDS MarkSweep, TLC

CONSTANTS w1, w2, t1, t2, t3

TwoHeaps == (t1 :> w1) @@ (t2 :> w1) @@ (t3 :> w2)
=============================================================================
