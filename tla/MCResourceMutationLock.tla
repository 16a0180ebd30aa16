----------------------- MODULE MCResourceMutationLock -----------------------
(* Instances of ResourceMutationLock for TLC. *)
EXTENDS ResourceMutationLock

CONSTANTS t1, t2, t3, runtime, mcp, h1

\* The calls of one process and those of another one on the same host.
TwoProcesses == [t \in Task |-> IF t = t1 THEN runtime ELSE mcp]
OneHost == [p \in Proc |-> h1]

\* One resource, wanted by everybody.
SameKey == [t \in Task |-> <<<<1>>>>]

\* A save takes the lock of its review (1) and that of the artifact (2) inside the
\* operation; a call of the other process wants both in one set, listed in the
\* other order; a third one wants the inner resource, named twice.
Layered == [t \in Task |-> CASE t = t1 -> <<<<1>>, <<2>>>>
                             [] t = t2 -> <<<<2, 1>>>>
                             [] OTHER -> <<<<2, 2>>>>]
=============================================================================
