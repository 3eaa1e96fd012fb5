-------------------------- MODULE MCPthreadBarrier --------------------------
(* Constants of the runs of PthreadBarrier.                                *)
EXTENDS PthreadBarrier, TLC

CONSTANTS a, b, c, d, e

FourThreads == {a, b, c, d}
FiveThreads == {a, b, c, d, e}
=============================================================================
