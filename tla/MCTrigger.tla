----------------------------- MODULE MCTrigger -----------------------------
(***************************************************************************)
(* The triggers for TLC: one trigger of the signal, made, changed, deleted *)
(* and made again, beside the two of a module.                             *)
(***************************************************************************)
EXTENDS Trigger

High(tout) == [condType |-> "MORE", condValue |-> 0, condTOut |-> tout]

\* A delay of two cycles, and no delay.
SomeConditions == {High(2), High(0)}
=============================================================================
