--------------------------- MODULE AbstractStack ----------------------------
(***************************************************************************)
(* What lock-free-stack and mpsc-queue promise: a stack that changes only  *)
(* by a push of one new element, a pop of the top one, or the removal of   *)
(* everything, each in one step.                                           *)
(***************************************************************************)
EXTENDS Sequences, SequencesExt

CONSTANT Node
VARIABLE stack

Push(n) == n \notin ToSet(stack) /\ stack' = <<n>> \o stack
Pop == stack # <<>> /\ stack' = Tail(stack)
TakeAll == stack # <<>> /\ stack' = <<>>

Spec == stack = <<>> /\ [][(\E n \in Node : Push(n)) \/ Pop \/ TakeAll]_stack
=============================================================================
