-------------------------- MODULE MCAutomationRuns --------------------------
(* Instances of AutomationRuns for TLC. *)
EXTENDS AutomationRuns, TLC

CONSTANTS p1, p2

\* Revision 1 fires every 2 units, revision 2 every 3.
TwoAndThree == [v \in Revision |-> IF v = 1 THEN 2 ELSE 3]

ProcessSymmetry == Permutations({p1, p2})
=============================================================================
