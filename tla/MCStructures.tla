---------------------------- MODULE MCStructures ----------------------------
(* The sequential structures that a worker keeps for itself: its           *)
(* evaluation stack, its roots and its memory.  A behaviour is one of any  *)
(* of them, the others rest.                                               *)
EXTENDS ChunkStack, RootStack, FreeList

(* What is stacked, and where a chunk is placed, makes no difference.      *)
Alike == Permutations(Elements) \cup Permutations(Addresses)

Init == ChunkStackInit /\ RootStackInit /\ FreeListInit

Resting(stack, roots, memory) ==
  /\ stack => ChunkStackInit /\ UNCHANGED stackVars
  /\ roots => RootStackInit /\ UNCHANGED rootVars
  /\ memory => FreeListInit /\ UNCHANGED freeVars

Next ==
  \/ ChunkStackNext /\ Resting(FALSE, TRUE, TRUE)
  \/ RootStackNext /\ Resting(TRUE, FALSE, TRUE)
  \/ FreeListNext /\ Resting(TRUE, TRUE, FALSE)

Spec == Init /\ [][Next]_<<stackVars, rootVars, freeVars>>
=============================================================================
