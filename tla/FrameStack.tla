------------------------------ MODULE FrameStack ------------------------------
(***************************************************************************)
(* What Term::FullReduce and Term::Globalize take the evaluation stack     *)
(* for: one sequence, of which every active call owns the part above the   *)
(* height that it found.  A call pops elements of its own part only and    *)
(* returns when that part is empty.  A call of FullReduce keeps its hand   *)
(* on the element that it reduces: that one is still there, at the same    *)
(* height, when the result is stored in it, whatever was put on top.       *)
(***************************************************************************)
EXTENDS Integers, Sequences

CONSTANTS Elements, None

VARIABLES stack,    \* the elements, top last
          marks,    \* per active call the height that it found
          turns,    \* per active call the height of the element it reduces; 0: none
          result,   \* what the last pop returned
          copy      \* what the collector saw at its last scan of the stack

vars == <<stack, marks, turns, result, copy>>

Init == stack = <<>> /\ marks = <<>> /\ turns = <<>> /\ result = None /\ copy = <<>>

Top(s) == s[Len(s)]

(* A call has elements of its own.                                         *)
Working == marks # <<>> /\ Len(stack) > Top(marks)

Enter(e) ==
  /\ stack' = Append(stack, e)
  /\ marks' = Append(marks, Len(stack))
  /\ turns' = Append(turns, 0)
  /\ UNCHANGED <<result, copy>>

Turn ==
  /\ Working /\ Top(turns) = 0
  /\ turns' = [turns EXCEPT ![Len(turns)] = Len(stack)]
  /\ UNCHANGED <<stack, marks, result, copy>>

Store(e) ==
  /\ marks # <<>> /\ Top(turns) \in Top(marks) + 1 .. Len(stack)
  /\ stack' = [stack EXCEPT ![Top(turns)] = e]
  /\ turns' = [turns EXCEPT ![Len(turns)] = 0]
  /\ UNCHANGED <<marks, result, copy>>

SetTop(e) ==
  /\ marks # <<>> /\ stack # <<>>
  /\ stack' = [stack EXCEPT ![Len(stack)] = e]
  /\ UNCHANGED <<marks, turns, result, copy>>

Push(e) ==
  /\ marks # <<>>
  /\ stack' = Append(stack, e)
  /\ UNCHANGED <<marks, turns, result, copy>>

Pop ==
  /\ Working /\ Top(turns) \in {0, Len(stack)}
  /\ stack' = SubSeq(stack, 1, Len(stack) - 1)
  /\ turns' = [turns EXCEPT ![Len(turns)] = 0]
  /\ result' = Top(stack)
  /\ UNCHANGED <<marks, copy>>

Return ==
  /\ marks # <<>> /\ Len(stack) = Top(marks) /\ Top(turns) = 0
  /\ marks' = SubSeq(marks, 1, Len(marks) - 1)
  /\ turns' = SubSeq(turns, 1, Len(turns) - 1)
  /\ UNCHANGED <<stack, result, copy>>

(* Only the collector pops an empty stack.                                 *)
PopNothing ==
  /\ marks = <<>> /\ stack = <<>>
  /\ result' = None
  /\ UNCHANGED <<stack, marks, turns, copy>>

Scan == copy' = stack /\ UNCHANGED <<stack, marks, turns, result>>

Next ==
  \/ \E e \in Elements : Enter(e) \/ Store(e) \/ SetTop(e) \/ Push(e)
  \/ Turn \/ Pop \/ PopNothing \/ Return \/ Scan

Spec == Init /\ [][Next]_vars
=============================================================================
