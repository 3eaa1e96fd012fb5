----------------------------- MODULE MCBlackhole -----------------------------
(* Constants of the runs of Blackhole.                                     *)
EXTENDS Blackhole, TLC

CONSTANTS m, a, b

TwoWorkers   == {m, a}
ThreeWorkers == {m, a, b}

(* A term that needs one, and the root that needs both.                    *)
Shared == <<{}, {1}, {1, 2}>>
(* Two terms that share a third, and the root that needs both.             *)
Diamond == <<{}, {1}, {1}, {2, 3}>>
(* The root needs one term.                                                *)
Chain == <<{}, {1}>>
==============================================================================
