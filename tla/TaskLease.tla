------------------------------ MODULE TaskLease ------------------------------
(***************************************************************************)
(* What the row of an automation task promises about its runs, without     *)
(* keys, cursors or a schedule.  A run that was granted the lease is the    *)
(* only one that runs.  Before the lease is over only the run's own worker  *)
(* ends it; from then on only others do, and what its worker reports later  *)
(* changes nothing.                                                        *)
(***************************************************************************)
EXTENDS Naturals

CONSTANTS RunId, Lease

VARIABLES
    now,
    phase,     \* RunId -> "none", "running" or "ended"
    until,     \* RunId -> when its lease is over
    working    \* RunId -> whether a worker is executing it

leaseVars == <<now, phase, until, working>>

Running == {r \in RunId : phase[r] = "running"}

LeaseInit ==
    /\ now = 0
    /\ phase \in [RunId -> {"none", "running", "ended"}]
    /\ \A r, q \in Running : r = q
    /\ until \in [RunId -> {0, Lease}]
    /\ working = [r \in RunId |-> FALSE]

\* The lease is free, or taken from a run that let it pass.
Grant(r) ==
    /\ phase[r] = "none"
    /\ \A q \in Running : until[q] <= now
    /\ phase' = [q \in RunId |-> IF q = r THEN "running"
                                 ELSE IF q \in Running THEN "ended" ELSE phase[q]]
    /\ until' = [q \in RunId |-> IF q = r THEN now + Lease
                                 ELSE IF q \in Running THEN 0 ELSE until[q]]
    /\ working' = [working EXCEPT ![r] = TRUE]
    /\ UNCHANGED now

Report(r) ==
    /\ r \in Running /\ working[r] /\ now < until[r]
    /\ phase' = [phase EXCEPT ![r] = "ended"]
    /\ until' = [until EXCEPT ![r] = 0]
    /\ working' = [working EXCEPT ![r] = FALSE]
    /\ UNCHANGED now

Recover(r) ==
    /\ r \in Running /\ until[r] <= now
    /\ phase' = [phase EXCEPT ![r] = "ended"]
    /\ until' = [until EXCEPT ![r] = 0]
    /\ UNCHANGED <<now, working>>

\* A run from before there were leases is given one while it may still be alive.
Adopt(r) ==
    /\ r \in Running /\ ~working[r] /\ now < until[r]
    /\ until' = [until EXCEPT ![r] = now + Lease]
    /\ UNCHANGED <<now, phase, working>>

\* An occurrence nobody executes is entered as ended.
Enter(r) ==
    /\ phase[r] = "none" /\ Running = {}
    /\ phase' = [phase EXCEPT ![r] = "ended"]
    /\ UNCHANGED <<now, until, working>>

\* Workers stop without a word, or after a report that came too late.
Leave ==
    /\ working' \in [RunId -> BOOLEAN]
    /\ \A r \in RunId : working'[r] => working[r]
    /\ UNCHANGED <<now, phase, until>>

Wait ==
    /\ now' = now + 1
    /\ UNCHANGED <<phase, until, working>>

LeaseNext ==
    \/ Wait \/ Leave
    \/ \E r \in RunId : Grant(r) \/ Report(r) \/ Recover(r) \/ Adopt(r) \/ Enter(r)

LeaseSpec == LeaseInit /\ [][LeaseNext]_leaseVars
=============================================================================
