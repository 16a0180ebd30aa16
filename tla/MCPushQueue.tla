---------------------------- MODULE MCPushQueue ----------------------------
(* Instances of PushQueue for TLC. *)
EXTENDS PushQueue, TLC

CONSTANTS summary, reminder, d1, d2

\* A task's summary, which is deferred and parked, and a message of a source
\* that is neither.  The summary's window is the one automation gets by default.
MCSource == [j \in Jobs |-> IF j = summary THEN "automation" ELSE "manual"]
MCWindow == [j \in Jobs |-> IF j = reminder THEN 3 ELSE Never]
MCRetryDelays == <<1, 2>>
DrainSymmetry == Permutations(Drains)

=============================================================================
