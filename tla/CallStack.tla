----------------------------- MODULE CallStack -----------------------------
(***************************************************************************)
(* What the stack of a program promises: last in, first out.  A step       *)
(* pushes one word, pops the last one, or leaves the stack alone, and      *)
(* nothing changes a word that is not on top.                              *)
(***************************************************************************)
EXTENDS Integers, Sequences

CONSTANT Words

VARIABLE stack

Init == stack = <<>>

Push ==
  /\ Len(stack') = Len(stack) + 1
  /\ stack'[Len(stack')] \in Words
  /\ SubSeq(stack', 1, Len(stack)) = stack

Pop ==
  /\ stack # <<>>
  /\ stack' = SubSeq(stack, 1, Len(stack) - 1)

Next == Push \/ Pop

Spec == Init /\ [][Next]_stack

=============================================================================
