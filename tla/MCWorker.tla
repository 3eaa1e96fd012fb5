------------------------------ MODULE MCWorker ------------------------------
(* Constants of the runs of Worker.                                        *)
EXTENDS Worker, TLC

CONSTANTS m, a, b

TwoThreads   == {m, a}
ThreeThreads == {m, a, b}

(* When signals or failing allocations happen: before main inspects the    *)
(* state for the first time, or at any time of Compute.                    *)
AnyTime == BeforeInspect \cup {"check", "set_shutdown", "inspect2"}

Interrupted == [sigint |-> BeforeInspect, oom |-> {}]
ShortOfMemory == [sigint |-> {}, oom |-> BeforeInspect]

EitherEvent == {Interrupted, ShortOfMemory}
SigintLate  == {[sigint |-> AnyTime, oom |-> {}]}
OOMLate     == {[sigint |-> {}, oom |-> AnyTime]}
=============================================================================
