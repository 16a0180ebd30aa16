------------------------ MODULE AutomationRunsProofs ------------------------
(***************************************************************************)
(* Theorems about AutomationRuns, for every number of processes, runs,     *)
(* revisions and keys and every length of lease.  The task row is treated  *)
(* as a value: first what each helper does to a well-formed row, then what *)
(* recovery leaves behind, then one step per action.  What leases promise  *)
(* is read off the refinement.                                             *)
(***************************************************************************)
EXTENDS AutomationRuns, FiniteSetTheorems, TLAPS

\* A task row is well formed when it is due exactly if it is active, and an active one
\* has failures to spare.
WellFormed(t) ==
    /\ t \in TaskRow
    /\ t.cursor # NoSlot <=> t.status = "active"
    /\ t.status = "active" => t.failures < MaxFailures

\* What a lock says: nothing, or the run that is running and until when.
LockAgrees(t, rows) ==
    t.holder # NoRun => rows[t.holder].status = "running" /\ t.until = rows[t.holder].until

AtMostOne(rows) ==
    \A r, q \in RunId : rows[r].status = "running" /\ rows[q].status = "running" => r = q

\* The constants, one by one.
LEMMA Constants ==
    /\ Lease \in Nat \ {0} /\ RetryDelay \in Nat \ {0} /\ MaxFailures \in Nat \ {0}
    /\ MaxRevision \in Nat \ {0} /\ MaxRuns \in Nat
    /\ MaxQueueDelay \in Nat /\ MaxTime \in Nat /\ ManualKeys \in Nat
    /\ Deadlines \subseteq Nat /\ Period \in [Revision -> Nat \ {0}]
BY ConstantsAssumption DEF ConstantsAssumption, Revision

\* The next occurrence lies in the future.
LEMMA NextRunAtLater ==
    ASSUME NEW v \in Revision, NEW t \in Nat
    PROVE NextRunAt(v, t) \in Nat /\ NextRunAt(v, t) > t
<1> DEFINE p == Period[v]
<1>1. p \in Nat /\ p > 0
    BY Constants
<1> HIDE DEF p
<1>2. t % p \in 0..(p - 1)
    BY <1>1
<1>3. t + (p - (t % p)) \in Nat /\ t + (p - (t % p)) > t
    BY <1>1, <1>2
<1> QED
    BY <1>3 DEF NextRunAt, p
-----------------------------------------------------------------------------
(* What the helpers do to a well-formed task row *)

\* Releasing a lock touches nothing else.
LEMMA ReleasedRow ==
    ASSUME NEW t, WellFormed(t), NEW r \in RunId
    PROVE  /\ WellFormed(Released(t, r))
           /\ Released(t, r).holder = IF t.holder = r THEN NoRun ELSE t.holder
           /\ Released(t, r).until = IF t.holder = r THEN 0 ELSE t.until
           /\ Released(t, r).status = t.status /\ Released(t, r).cursor = t.cursor
           /\ Released(t, r).failures = t.failures
BY DEF Released, WellFormed, TaskRow

\* Writing the lock does not disturb the row.
WithLock(t, r, u) == [t EXCEPT !.holder = r, !.until = u]
LEMMA LockedRow ==
    ASSUME NEW t, WellFormed(t), NEW r \in RunId \cup {NoRun}, NEW u \in Nat
    PROVE  /\ WellFormed(WithLock(t, r, u))
           /\ WithLock(t, r, u).holder = r /\ WithLock(t, r, u).until = u
           /\ WithLock(t, r, u).status = t.status /\ WithLock(t, r, u).cursor = t.cursor
           /\ WithLock(t, r, u).failures = t.failures
BY DEF WithLock, WellFormed, TaskRow

LEMMA AfterSuccessRow ==
    ASSUME NEW t, WellFormed(t), NEW v \in Revision, NEW at \in Nat
    PROVE  /\ WellFormed(AfterSuccess(t, v, at))
           /\ AfterSuccess(t, v, at).holder = t.holder /\ AfterSuccess(t, v, at).until = t.until
           /\ AfterSuccess(t, v, at).failures = 0
<1>1. NextRunAt(v, at) \in Nat /\ NextRunAt(v, at) # NoSlot
    BY NextRunAtLater DEF NoSlot
<1> DEFINE c == IF t.status = "active" THEN NextRunAt(v, at) ELSE t.cursor
<1>2. c \in Nat /\ (c # NoSlot <=> t.status = "active")
    BY <1>1 DEF WellFormed, TaskRow
<1>3. AfterSuccess(t, v, at) = [t EXCEPT !.failures = 0, !.cursor = c]
    BY DEF AfterSuccess
<1>4. MaxFailures \in Nat /\ 0 < MaxFailures
    BY Constants
<1> HIDE DEF c
<1> DEFINE n == [t EXCEPT !.failures = 0, !.cursor = c]
<1>5. n \in TaskRow /\ n.cursor = c /\ n.status = t.status /\ n.failures = 0
      /\ n.holder = t.holder /\ n.until = t.until
    BY <1>2 DEF WellFormed, TaskRow
<1> HIDE DEF n
<1>6. WellFormed(n)
    BY <1>2, <1>4, <1>5 DEF WellFormed
<1> QED
    BY <1>3, <1>5, <1>6 DEF n

LEMMA AfterFailureRow ==
    ASSUME NEW t, WellFormed(t), NEW next \in Nat, next # NoSlot
    PROVE  /\ WellFormed(AfterFailure(t, next))
           /\ AfterFailure(t, next).holder = t.holder /\ AfterFailure(t, next).until = t.until
           /\ AfterFailure(t, next).failures = t.failures + 1
<1> DEFINE stopped == t.failures + 1 >= MaxFailures
           st == IF stopped THEN "needs_attention" ELSE t.status
           c == IF t.status = "active" /\ ~stopped THEN next ELSE NoSlot
           f == t.failures + 1
<1>1. AfterFailure(t, next) = [t EXCEPT !.failures = f, !.status = st, !.cursor = c]
    BY DEF AfterFailure
<1>2. f \in Nat /\ (~stopped => f < MaxFailures)
    BY Constants DEF WellFormed, TaskRow
<1>3. st \in TaskStatus /\ c \in Nat /\ (c # NoSlot <=> st = "active")
    BY DEF WellFormed, TaskRow, TaskStatus, NoSlot
<1>4. st = "active" => ~stopped
    OBVIOUS
<1> HIDE DEF stopped, st, c
<1> QED
    BY <1>1, <1>2, <1>3, <1>4 DEF WellFormed, TaskRow

LEMMA ReconciledRow ==
    ASSUME NEW t, WellFormed(t), NEW r \in RunId, NEW at \in Nat, run[r].rev \in Revision
    PROVE  /\ WellFormed(Reconciled(t, r, at))
           /\ Reconciled(t, r, at).holder = t.holder /\ Reconciled(t, r, at).until = t.until
           /\ Reconciled(t, r, at).failures = t.failures
<1>1. NextRunAt(run[r].rev, at) \in Nat /\ NextRunAt(run[r].rev, at) # NoSlot
    BY NextRunAtLater DEF NoSlot
<1> QED
    BY <1>1 DEF Reconciled, WellFormed, TaskRow, NoSlot

\* A retry is due later than now.
LEMMA RetryAt ==
    ASSUME TypeOK
    PROVE  now + RetryDelay \in Nat /\ now + RetryDelay # NoSlot
BY Constants DEF TypeOK, NoSlot
-----------------------------------------------------------------------------
(* What recovery leaves behind *)

\* The rows of the database agree with each other.
Rows(t, rows) ==
    /\ WellFormed(t) /\ rows \in [RunId -> RunRow]
    /\ AtMostOne(rows) /\ LockAgrees(t, rows)

Inv == TypeOK /\ Rows(task, run)

LEMMA RecoveredTaskRow ==
    ASSUME Inv, NEW r \in RunId
    PROVE  /\ WellFormed(RecoveredTask(r))
           /\ RecoveredTask(r).holder = IF task.holder = r THEN NoRun ELSE task.holder
           /\ RecoveredTask(r).until = IF task.holder = r THEN 0 ELSE task.until
<1>1. now \in Nat /\ run[r].rev \in Revision /\ WellFormed(task)
    BY DEF Inv, Rows, TypeOK, RunRow
<1> DEFINE t == Released(task, r)
<1>2. /\ WellFormed(t)
      /\ t.holder = IF task.holder = r THEN NoRun ELSE task.holder
      /\ t.until = IF task.holder = r THEN 0 ELSE task.until
    BY <1>1, ReleasedRow
<1>3. WellFormed(AfterSuccess(t, run[r].rev, now)) /\ WellFormed(AfterFailure(t, now + RetryDelay))
    BY <1>1, <1>2, AfterSuccessRow, AfterFailureRow, RetryAt DEF Inv
<1>4. /\ AfterSuccess(t, run[r].rev, now).holder = t.holder
      /\ AfterSuccess(t, run[r].rev, now).until = t.until
      /\ AfterFailure(t, now + RetryDelay).holder = t.holder
      /\ AfterFailure(t, now + RetryDelay).until = t.until
    BY <1>1, <1>2, AfterSuccessRow, AfterFailureRow, RetryAt DEF Inv
<1>5. RecoveredTask(r) \in {t, AfterSuccess(t, run[r].rev, now), AfterFailure(t, now + RetryDelay)}
    BY DEF RecoveredTask
<1> QED
    BY <1>2, <1>3, <1>4, <1>5

\* Recovery ends the expired runs, leaves the live ones alone and keeps no lock of the
\* runs it ended.
LEMMA Settling ==
    ASSUME Inv
    PROVE  /\ \A r \in RunId : SettledRuns[r] = IF r \in Expired THEN RecoveredRun(r) ELSE run[r]
           /\ \A r \in RunId : SettledRuns[r].status = "running" <=> r \in Live
           /\ Rows(SettledTask, SettledRuns)
<1>1. \A r \in RunId : run[r] \in RunRow
    BY DEF Inv, TypeOK
<1>2. \A r \in RunId : RecoveredRun(r) \in RunRow /\ RecoveredRun(r).status # "running"
    BY <1>1 DEF RecoveredRun, RunRow, Terminal
<1>3. \A r \in RunId : SettledRuns[r] = IF r \in Expired THEN RecoveredRun(r) ELSE run[r]
    BY DEF SettledRuns
<1>4. SettledRuns \in [RunId -> RunRow]
    BY <1>1, <1>2 DEF SettledRuns
<1>5. \A r \in RunId : SettledRuns[r].status = "running" <=> r \in Live
    BY <1>2, <1>3 DEF Live, Expired, Active
<1>6. AtMostOne(SettledRuns)
    BY <1>5 DEF AtMostOne, Inv, Rows, Live, Active
<1>7. CASE Expired = {}
    <2>1. SettledTask = task /\ \A r \in RunId : SettledRuns[r] = run[r]
        BY <1>3, <1>7 DEF SettledTask
    <2> QED
        BY <2>1, <1>3, <1>4, <1>5, <1>6 DEF Inv, Rows, LockAgrees, TypeOK, TaskRow, NoRun
<1>8. CASE Expired # {}
    <2> DEFINE e == CHOOSE r \in Expired : TRUE
    <2>1. e \in Expired
        BY <1>8
    <2>2. SettledTask = RecoveredTask(e)
        BY <1>8 DEF SettledTask
    <2> HIDE DEF e
    <2>3. e \in RunId /\ run[e].status = "running"
        BY <2>1 DEF Expired, Active
    <2>4. \A r \in RunId : run[r].status = "running" => r = e
        BY <2>3 DEF Inv, Rows, AtMostOne
    <2>5. task.holder \in {NoRun, e}
        BY <2>4 DEF Inv, Rows, LockAgrees, TypeOK, TaskRow
    <2>6. WellFormed(SettledTask) /\ SettledTask.holder = NoRun
        BY <2>2, <2>3, <2>5, RecoveredTaskRow
    <2> QED
        BY <2>6, <1>3, <1>4, <1>5, <1>6 DEF LockAgrees, Rows
<1> QED
    BY <1>7, <1>8
-----------------------------------------------------------------------------
(* Each action keeps the rows in agreement *)

LEMMA JoinsRows ==
    ASSUME Inv, ClaimJoins
    PROVE  Rows(task', run')
<1>1. PICK r \in Live :
        IF task.holder = NoRun
        THEN /\ task' = [task EXCEPT !.holder = r, !.until = now + Lease]
             /\ run' = [run EXCEPT ![r].until = now + Lease]
        ELSE UNCHANGED <<task, run>>
    BY DEF ClaimJoins
<1>2. r \in RunId /\ run[r].status = "running" /\ now + Lease \in Nat
    BY Constants DEF Live, Active, Inv, TypeOK
<1>3. CASE task.holder = NoRun
    <2>1. /\ task' = [task EXCEPT !.holder = r, !.until = now + Lease]
          /\ run' = [run EXCEPT ![r].until = now + Lease]
        BY <1>1, <1>3
    <2>2. run' \in [RunId -> RunRow] /\ run'[r].until = now + Lease
          /\ \A q \in RunId : run'[q].status = run[q].status
        BY <1>2, <2>1 DEF Inv, Rows, RunRow
    <2>3. task' = WithLock(task, r, now + Lease) /\ r \in RunId \cup {NoRun}
        BY <1>2, <2>1 DEF WithLock
    <2>4. WellFormed(task') /\ task'.holder = r /\ task'.until = now + Lease
        BY <1>2, <2>3, LockedRow DEF Inv, Rows
    <2> QED
        BY <1>2, <2>2, <2>4 DEF Inv, Rows, AtMostOne, LockAgrees
<1>4. CASE task.holder # NoRun
    BY <1>1, <1>4 DEF Inv
<1> QED
    BY <1>3, <1>4

\* A reconciled row keeps its lock.
LEMMA ReconciledRows ==
    ASSUME NEW t, NEW rows, Rows(t, rows), NEW r \in RunId, NEW at \in Nat,
           run[r].rev \in Revision
    PROVE  Rows(Reconciled(t, r, at), rows)
BY ReconciledRow DEF Rows, LockAgrees

LEMMA ReplaysRows ==
    ASSUME Inv, NEW k, ClaimReplays(k)
    PROVE  Rows(task', run')
<1>1. PICK r \in RunId \ Expired : run' = SettledRuns /\ task' = Reconciled(SettledTask, r, now)
    BY DEF ClaimReplays
<1>2. now \in Nat /\ run[r].rev \in Revision
    BY DEF Inv, TypeOK, RunRow
<1>3. Rows(SettledTask, SettledRuns)
    BY Settling
<1> QED
    BY <1>1, <1>2, <1>3, ReconciledRows

LEMMA DeclinesRows ==
    ASSUME Inv, NEW o, NEW k, NEW s, ClaimDeclines(o, k, s)
    PROVE  Rows(task', run') /\ stage' = stage
<1>1. CASE ClaimJoins
    BY <1>1, JoinsRows DEF ClaimDeclines
<1>2. CASE ClaimReplays(k)
    BY <1>2, ReplaysRows DEF ClaimDeclines
<1>3. CASE UNCHANGED <<task, run>>
    BY <1>3 DEF Inv, ClaimDeclines
<1> QED
    BY <1>1, <1>2, <1>3 DEF ClaimDeclines

LEMMA StartsRows ==
    ASSUME Inv, NEW p \in Proc, NEW o \in {"manual", "scheduled"}, NEW k \in Nat \X Nat,
           NEW s \in Nat, NEW d \in Nat, ClaimStarts(p, o, k, s, d)
    PROVE  Rows(task', run')
           /\ stage' \in [RunId -> [step : {"none", "executing", "saving", "finishing"}, at : Proc]]
<1> DEFINE n == [NoRow EXCEPT !.status = "running", !.origin = o, !.key = k, !.slot = s,
                              !.rev = task.rev, !.until = now + Lease, !.deadline = now + d]
<1>1. PICK r \in RunId :
        /\ run' = [SettledRuns EXCEPT ![r] = n]
        /\ task' = [SettledTask EXCEPT !.holder = r, !.until = now + Lease]
        /\ stage' = [stage EXCEPT ![r] = [step |-> "executing", at |-> p]]
    BY DEF ClaimStarts
<1>2. now + Lease \in Nat /\ now + d \in Nat /\ task.rev \in Revision
    BY Constants DEF Inv, TypeOK, TaskRow
<1>3. n \in RunRow /\ n.status = "running" /\ n.until = now + Lease
    BY <1>2 DEF RunRow, NoRow, NoSlot
<1>4. Rows(SettledTask, SettledRuns) /\ \A q \in RunId : SettledRuns[q].status # "running"
    BY Settling DEF ClaimStarts, MayStart
<1> HIDE DEF n
<1>5. /\ run' \in [RunId -> RunRow] /\ run'[r] = n
      /\ \A q \in RunId : q # r => run'[q].status # "running"
    BY <1>1, <1>3, <1>4 DEF Rows
<1>6. task' = WithLock(SettledTask, r, now + Lease) /\ r \in RunId \cup {NoRun}
    BY <1>1 DEF WithLock
<1>7. WellFormed(SettledTask)
    BY <1>4 DEF Rows
<1>8. WellFormed(task') /\ task'.holder = r /\ task'.until = now + Lease
    <2> DEFINE t == SettledTask
               u == now + Lease
    <2>1. WellFormed(t) /\ u \in Nat
        BY <1>2, <1>7
    <2> HIDE DEF t, u
    <2>2. WellFormed(WithLock(t, r, u)) /\ WithLock(t, r, u).holder = r
          /\ WithLock(t, r, u).until = u
        BY <2>1, LockedRow
    <2>3. task' = WithLock(t, r, u)
        BY <1>6 DEF t, u
    <2> QED
        BY <2>2, <2>3 DEF u
<1>9. Rows(task', run')
    BY <1>3, <1>5, <1>8 DEF Rows, AtMostOne, LockAgrees
<1>10. stage' \in [RunId -> [step : {"none", "executing", "saving", "finishing"}, at : Proc]]
    BY <1>1 DEF Inv, TypeOK
<1> QED
    BY <1>9, <1>10

\* The end a worker reports.
LEMMA FinishRows ==
    ASSUME Inv, NEW r \in RunId, NEW asked \in Terminal, FinishRun(r, asked)
    PROVE  Rows(task', run')
<1>1. CASE OwnsLease(r)
    <2> DEFINE final == FinalStatus(r, asked)
               t == Released(task, r)
    <2>1. run' = [run EXCEPT ![r].status = final, ![r].until = 0] /\ task' = FinishedTask(r, final)
        BY <1>1 DEF FinishRun
    <2>2. final \in Terminal
        BY DEF FinalStatus, Terminal
    <2> HIDE DEF final
    <2> DEFINE n == [run[r] EXCEPT !.status = final, !.until = 0]
    <2>9. n \in RunRow /\ n.status = final /\ run' = [run EXCEPT ![r] = n] /\ final # "running"
        BY <2>1, <2>2 DEF Inv, Rows, RunRow, Terminal
    <2> HIDE DEF n
    <2>3. /\ run' \in [RunId -> RunRow]
          /\ \A q \in RunId : run'[q].status = "running" => q # r /\ run[q].status = "running"
        BY <2>9 DEF Inv, Rows
    <2>4. now \in Nat /\ run[r].rev \in Revision /\ NextRunAt(run[r].rev, now) \in Nat
          /\ NextRunAt(run[r].rev, now) # NoSlot
        BY NextRunAtLater DEF Inv, TypeOK, RunRow, NoSlot
    <2>5. WellFormed(t) /\ t.holder = NoRun
        BY <1>1, ReleasedRow DEF Inv, Rows, OwnsLease
    <2> HIDE DEF t
    <2>6. /\ WellFormed(AfterSuccess(t, run[r].rev, now))
          /\ AfterSuccess(t, run[r].rev, now).holder = NoRun
          /\ WellFormed(AfterFailure(t, NextRunAt(run[r].rev, now)))
          /\ AfterFailure(t, NextRunAt(run[r].rev, now)).holder = NoRun
        BY <2>4, <2>5, AfterSuccessRow, AfterFailureRow
    <2>7. task' \in {t, AfterSuccess(t, run[r].rev, now),
                     AfterFailure(t, NextRunAt(run[r].rev, now))}
        BY <2>1 DEF FinishedTask, t
    <2>8. WellFormed(task') /\ task'.holder = NoRun
        BY <2>5, <2>6, <2>7
    <2> QED
        BY <2>3, <2>8 DEF Rows, AtMostOne, LockAgrees, Inv
<1>2. CASE ~OwnsLease(r)
    BY <1>2 DEF FinishRun, Inv
<1> QED
    BY <1>1, <1>2

\* The user's operations write the row of the task and nothing else.
LEMMA UserRows ==
    ASSUME Inv,
           \/ ActivateTask \/ PauseTask \/ ArchiveTask \/ DeleteTask \/ BeginEdit
           \/ \E v \in Revision : CommitEdit(v)
    PROVE  Rows(task', run')
<1>1. WellFormed(task) /\ now \in Nat /\ task.rev \in Revision
    BY DEF Inv, Rows, WellFormed, TypeOK, TaskRow
<1>2. NextRunAt(task.rev, now) \in Nat /\ NextRunAt(task.rev, now) # NoSlot
    BY <1>1, NextRunAtLater DEF NoSlot
<1>3. MaxFailures \in Nat /\ 0 < MaxFailures
    BY Constants
<1>4. run' = run /\ WellFormed(task') /\ task'.holder = task.holder /\ task'.until = task.until
    <2>1. CASE ActivateTask
        BY <2>1, <1>1, <1>2, <1>3 DEF ActivateTask, Untouched, WellFormed, TaskRow, TaskStatus
    <2>2. CASE PauseTask
        BY <2>2, <1>1 DEF PauseTask, Untouched, WellFormed, TaskRow, TaskStatus, NoSlot
    <2>3. CASE ArchiveTask
        BY <2>3, <1>1 DEF ArchiveTask, Untouched, WellFormed, TaskRow, TaskStatus, NoSlot
    <2>4. CASE DeleteTask
        BY <2>4, <1>1 DEF DeleteTask, Untouched, WellFormed, TaskRow, TaskStatus, NoSlot
    <2>5. CASE BeginEdit
        BY <2>5, <1>1 DEF BeginEdit, Untouched
    <2>6. ASSUME NEW v \in Revision, CommitEdit(v)
          PROVE  run' = run /\ WellFormed(task')
                 /\ task'.holder = task.holder /\ task'.until = task.until
        <3>1. run' = run
            BY <2>6 DEF CommitEdit, Untouched
        <3>2. CASE v = task.rev
            <4>1. v + 1 \in Revision
                  /\ task' = [task EXCEPT !.status = "paused", !.rev = v + 1, !.cursor = 0,
                                          !.failures = 0]
                BY <2>6, <3>2 DEF CommitEdit, NoSlot
            <4> QED
                BY <4>1, <3>1, <1>1 DEF WellFormed, TaskRow, TaskStatus, NoSlot
        <3>3. CASE v # task.rev
            BY <2>6, <3>1, <3>3, <1>1 DEF CommitEdit
        <3> QED
            BY <3>1, <3>2, <3>3
    <2> QED
        BY <2>1, <2>2, <2>3, <2>4, <2>5, <2>6
<1> QED
    BY <1>4 DEF Inv, Rows, LockAgrees

\* The list of due tasks moves a cursor at most.
LEMMA ListRows ==
    ASSUME Inv, NEW p \in Proc, ListDue(p)
    PROVE  Rows(task', run')
<1>1. sched[p].at \in Nat /\ run' = run
    BY DEF Inv, TypeOK, ListDue
<1>2. CASE task' = task
    BY <1>1, <1>2 DEF Inv
<1>3. ASSUME NEW r \in RunId, task' = Reconciled(task, r, sched[p].at)
      PROVE  Rows(task', run')
    <2>1. run[r].rev \in Revision
        BY DEF Inv, TypeOK, RunRow
    <2> QED
        BY <1>1, <1>3, <2>1, ReconciledRows DEF Inv
<1>4. Reconcilable(sched[p].at) \subseteq RunId
    BY DEF Reconcilable
<1> QED
    BY <1>2, <1>3, <1>4 DEF ListDue

\* A slot that waited too long is entered as a failed run.
LEMMA ExpireRows ==
    ASSUME Inv, NEW p \in Proc, ExpireSlot(p)
    PROVE  Rows(task', run')
<1> DEFINE v == sched[p].rev
           s == sched[p].slot
           k == SlotKey(v, s)
<1>1. v \in Revision /\ s \in Nat /\ k \in Nat \X Nat /\ now \in Nat
    BY Constants DEF Inv, TypeOK, SlotKey, Revision
<1>2. ASSUME MayExpire(v, s), NEW r \in RunId,
             run' = [run EXCEPT ![r] = [NoRow EXCEPT !.status = "failed",
                        !.origin = "scheduled", !.key = k, !.slot = s, !.rev = v]],
             task' = AfterFailure([task EXCEPT !.holder = NoRun, !.until = 0], NextRunAt(v, now))
      PROVE  Rows(task', run')
    <2> DEFINE n == [NoRow EXCEPT !.status = "failed", !.origin = "scheduled", !.key = k,
                                  !.slot = s, !.rev = v]
               t == WithLock(task, NoRun, 0)
    <2>1. n \in RunRow /\ n.status # "running"
        BY <1>1 DEF NoRow, RunRow, Terminal, NoSlot
    <2>2. \A q \in RunId : run[q].status # "running"
        BY <1>2 DEF MayExpire, Active
    <2>3. run' = [run EXCEPT ![r] = n]
        BY <1>2
    <2> HIDE DEF n
    <2>4. run' \in [RunId -> RunRow] /\ \A q \in RunId : run'[q].status # "running"
        BY <2>1, <2>2, <2>3 DEF Inv, Rows
    <2>5. WellFormed(t) /\ t.holder = NoRun
        <3>1. WellFormed(task) /\ NoRun \in RunId \cup {NoRun} /\ 0 \in Nat
            BY DEF Inv, Rows
        <3> QED
            BY <3>1, LockedRow
    <2>6. task' = AfterFailure(t, NextRunAt(v, now))
        BY <1>2 DEF WithLock
    <2>7. NextRunAt(v, now) \in Nat /\ NextRunAt(v, now) # NoSlot
        BY <1>1, NextRunAtLater DEF NoSlot
    <2> HIDE DEF t, v
    <2>8. WellFormed(task') /\ task'.holder = NoRun
        BY <2>5, <2>6, <2>7, AfterFailureRow
    <2> QED
        BY <2>4, <2>8 DEF Rows, AtMostOne, LockAgrees
<1>3. ASSUME NEW r \in RunId, task' = Reconciled(task, r, now), run' = run
      PROVE  Rows(task', run')
    <2>1. run[r].rev \in Revision
        BY DEF Inv, TypeOK, RunRow
    <2> QED
        BY <1>1, <1>3, <2>1, ReconciledRows DEF Inv
<1>4. CASE UNCHANGED <<task, run>>
    BY <1>4 DEF Inv
<1> QED
    BY <1>2, <1>3, <1>4 DEF ExpireSlot

\* Publication marks the run and nothing else.
LEMMA PublishRows ==
    ASSUME Inv, NEW r \in RunId, Publish(r)
    PROVE  Rows(task', run')
<1>1. /\ run' \in [RunId -> RunRow]
      /\ \A q \in RunId : run'[q].status = run[q].status /\ run'[q].until = run[q].until
    BY DEF Publish, Inv, Rows, RunRow
<1>2. task' = task
    BY DEF Publish
<1> QED
    BY <1>1, <1>2 DEF Inv, Rows, AtMostOne, LockAgrees, WellFormed, TaskRow, NoRun
-----------------------------------------------------------------------------
(* The invariant is inductive *)

\* The variables other than the rows have their types.
OtherTypes ==
    /\ now \in Nat
    /\ stage \in [RunId -> [step : {"none", "executing", "saving", "finishing"}, at : Proc]]
    /\ sched \in [Proc -> [step : {"idle", "list", "dispatch", "claim"}, at : Nat,
                           rev : Revision, slot : Nat]]
    /\ busy \in [Proc -> SUBSET Revision]
    /\ edits \subseteq Revision

\* The initial rows, with and without rows older than the mutex.
LEMMA InitInv == Init => Inv
<1> SUFFICES ASSUME Init PROVE Inv
    OBVIOUS
<1>1. 1 \in Revision /\ Lease \in Nat /\ MaxFailures \in Nat /\ 0 < MaxFailures
      /\ Period[1] \in Nat /\ Period[1] # NoSlot /\ ManualKeys \in Nat
    BY Constants DEF Revision, NoSlot
<1>2. NoRow \in RunRow /\ LegacyRunning \in RunRow /\ LegacyEnded(Period[1]) \in RunRow
    BY <1>1 DEF NoRow, RunRow, LegacyRunning, LegacyEnded, ManualKey, SlotKey, Terminal, NoSlot
<1>3. NoRow.status = "none" /\ LegacyEnded(Period[1]).status = "succeeded"
    BY DEF NoRow, LegacyEnded
<1>4. WellFormed(NewTask) /\ NewTask.holder = NoRun
    BY <1>1 DEF NewTask, WellFormed, TaskRow, TaskStatus, NoSlot
<1>5. WellFormed([NewTask EXCEPT !.status = "active", !.cursor = Period[1]])
      /\ [NewTask EXCEPT !.status = "active", !.cursor = Period[1]].holder = NoRun
    BY <1>1 DEF NewTask, WellFormed, TaskRow, TaskStatus, NoSlot
<1>6. Rows(task, run)
    <2>1. WellFormed(task) /\ task.holder = NoRun
        BY <1>4, <1>5 DEF Init
    <2>2. run \in [RunId -> RunRow]
        BY <1>2 DEF Init
    <2>3. \A r \in RunId : run[r].status = "running" => r = 1
        BY <1>3 DEF Init
    <2> QED
        BY <2>1, <2>2, <2>3 DEF Rows, AtMostOne, LockAgrees
<1>7. OtherTypes
    BY <1>1 DEF Init, OtherTypes, IdleTick, NoSlot
<1> QED
    BY <1>6, <1>7 DEF Inv, TypeOK, OtherTypes, Rows, WellFormed

\* One step of the system, action by action.
LEMMA NextInv == Inv /\ [Next]_vars => Inv'
<1> SUFFICES ASSUME Inv, [Next]_vars PROVE Inv'
    OBVIOUS
<1>0. OtherTypes /\ 1 \in Revision
    BY Constants DEF Inv, TypeOK, OtherTypes, Revision
<1>1. ASSUME Rows(task', run'), OtherTypes' PROVE Inv'
    BY <1>1 DEF Inv, TypeOK, OtherTypes, Rows, WellFormed
<1>2. CASE PassTime
    <2>1. OtherTypes'
        BY <1>0, <1>2 DEF PassTime, OtherTypes
    <2> QED
        BY <1>1, <1>2, <2>1 DEF PassTime, Inv
<1>3. ASSUME \/ ActivateTask \/ PauseTask \/ ArchiveTask \/ DeleteTask \/ BeginEdit
             \/ \E v \in Revision : CommitEdit(v)
      PROVE  Inv'
    <2>1. OtherTypes'
        BY <1>0, <1>3 DEF OtherTypes, Untouched, ActivateTask, PauseTask, ArchiveTask, DeleteTask,
            BeginEdit, CommitEdit, Inv, TypeOK, TaskRow
    <2> QED
        BY <1>1, <1>3, <2>1, UserRows
<1>4. ASSUME NEW p \in Proc, NEW m \in 1..ManualKeys, NEW d \in Deadlines, ManualClaim(p, m, d)
      PROVE  Inv'
    <2>1. ManualKey(m) \in Nat \X Nat /\ d \in Nat /\ NoSlot \in Nat
        BY Constants DEF ManualKey, NoSlot
    <2>2. Rows(task', run')
          /\ stage' \in [RunId -> [step : {"none", "executing", "saving", "finishing"}, at : Proc]]
        BY <1>0, <1>4, <2>1, StartsRows, DeclinesRows DEF ManualClaim, OtherTypes
    <2>3. OtherTypes'
        BY <1>0, <1>4, <2>2 DEF ManualClaim, OtherTypes
    <2> QED
        BY <1>1, <2>2, <2>3
<1>5. ASSUME NEW p \in Proc, StartTick(p) PROVE Inv'
    <2>1. OtherTypes'
        BY <1>0, <1>5 DEF StartTick, OtherTypes, IdleTick, NoSlot
    <2> QED
        BY <1>1, <1>5, <2>1, Settling DEF StartTick
<1>6. ASSUME NEW p \in Proc, ListDue(p) PROVE Inv'
    <2>1. Rows(task', run')
        BY <1>6, ListRows
    <2>2. task'.rev \in Revision /\ task'.cursor \in Nat
        BY <2>1 DEF Rows, WellFormed, TaskRow
    <2>3. OtherTypes'
        BY <1>0, <1>6, <2>2 DEF ListDue, OtherTypes, IdleTick, NoSlot
    <2> QED
        BY <1>1, <2>1, <2>3
<1>7. ASSUME NEW p \in Proc, Dispatch(p) PROVE Inv'
    <2>1. OtherTypes'
        BY <1>0, <1>7 DEF Dispatch, OtherTypes
    <2> QED
        BY <1>1, <1>7, <2>1 DEF Dispatch, Inv
<1>8. ASSUME NEW p \in Proc, ScheduledClaim(p) PROVE Inv'
    <2> DEFINE v == sched[p].rev
               s == sched[p].slot
               k == SlotKey(v, s)
    <2>1. k \in Nat \X Nat /\ s \in Nat /\ Lease \in Nat
        BY <1>0, Constants DEF OtherTypes, SlotKey, Revision
    <2>2. \/ ClaimStarts(p, "scheduled", k, s, Lease) \/ ClaimDeclines("scheduled", k, s)
        BY <1>8 DEF ScheduledClaim
    <2>3. /\ sched' = [sched EXCEPT ![p] = IdleTick] /\ UNCHANGED <<now, edits>>
          /\ busy' = busy \/ busy' = [busy EXCEPT ![p] = @ \ {v}]
        BY <1>8 DEF ScheduledClaim
    <2> HIDE DEF v, s, k
    <2>4. Rows(task', run')
          /\ stage' \in [RunId -> [step : {"none", "executing", "saving", "finishing"}, at : Proc]]
        BY <1>0, <2>1, <2>2, StartsRows, DeclinesRows DEF OtherTypes
    <2>5. OtherTypes'
        BY <1>0, <2>3, <2>4 DEF OtherTypes, IdleTick, NoSlot
    <2> QED
        BY <1>1, <2>4, <2>5
<1>9. ASSUME NEW p \in Proc, ExpireSlot(p) PROVE Inv'
    <2>1. OtherTypes'
        BY <1>0, <1>9 DEF ExpireSlot, OtherTypes, IdleTick, NoSlot
    <2> QED
        BY <1>1, <1>9, <2>1, ExpireRows
<1>10. ASSUME NEW p \in Proc, Restart(p) PROVE Inv'
    <2>1. OtherTypes'
        BY <1>0, <1>10 DEF Restart, OtherTypes, IdleTick, NoSlot
    <2> QED
        BY <1>1, <1>10, <2>1 DEF Restart, Inv
<1>11. ASSUME NEW r \in RunId, Publish(r) PROVE Inv'
    <2>1. OtherTypes'
        BY <1>0, <1>11 DEF Publish, OtherTypes
    <2> QED
        BY <1>1, <1>11, <2>1, PublishRows
<1>12. ASSUME NEW r \in RunId, AssertLease(r) \/ SaveAsset(r) PROVE Inv'
    <2>1. OtherTypes'
        BY <1>0, <1>12 DEF AssertLease, SaveAsset, OtherTypes
    <2> QED
        BY <1>1, <1>12, <2>1 DEF AssertLease, SaveAsset, Inv
<1>13. ASSUME NEW r \in RunId, NEW asked \in Terminal, FinishRun(r, asked) PROVE Inv'
    <2>1. OtherTypes'
        BY <1>0, <1>13 DEF FinishRun, OtherTypes
    <2> QED
        BY <1>1, <1>13, <2>1, FinishRows
<1>14. CASE UNCHANGED vars
    BY <1>14 DEF vars, Inv, TypeOK, TaskRow, Rows, WellFormed, AtMostOne, LockAgrees
<1> QED
    BY <1>2, <1>3, <1>4, <1>5, <1>6, <1>7, <1>8, <1>9, <1>10, <1>11, <1>12, <1>13, <1>14
    DEF Next, UserStep, TickStep, WorkerStep
-----------------------------------------------------------------------------
(* Theorems *)

\* Every reachable state satisfies the invariant.
LEMMA Invariance == Spec => []Inv
<1>1. Init => Inv
    BY InitInv
<1>2. Inv /\ [Next]_vars => Inv'
    BY NextInv
<1> QED
    BY <1>1, <1>2, PTL DEF Spec

\* The variables keep their types.
THEOREM TypeCorrect == Spec => []TypeOK
<1>1. Inv => TypeOK
    BY DEF Inv
<1> QED
    BY <1>1, Invariance, PTL

\* However claims, the reaper, workers and restarts are interleaved, at most one run of
\* the task is running, and the lock names it with the expiry the run has.
THEOREM Mutex == Spec => []OneRunAtATime
<1>1. Inv => OneRunAtATime
    BY DEF Inv, Rows, AtMostOne, LockAgrees, TypeOK, TaskRow, OneRunAtATime, Active
<1> QED
    BY <1>1, Invariance, PTL

\* Only a claim starts a run, and a claim for a slot is admitted to a task that is active:
\* the key of a run that has ended is answered with that run.
LEMMA StartStep ==
    ASSUME Inv, [Next]_vars, NEW r \in RunId, Starts(r, "scheduled")
    PROVE  task.status = "active"
<1>0. run[r].status = "none" /\ run'[r].status = "running" /\ run'[r].origin = "scheduled"
    BY DEF Starts
<1>1. SettledRuns[r] = run[r] /\ SettledRuns \in [RunId -> RunRow]
    BY <1>0, Settling DEF Expired, Active, Rows
<1>2. ASSUME NEW o, NEW k, NEW s, ClaimDeclines(o, k, s) PROVE FALSE
    <2>1. CASE ClaimJoins
        BY <1>0, <2>1 DEF ClaimJoins, Live, Active, Inv, TypeOK, RunRow
    <2>2. CASE ClaimReplays(k)
        BY <1>0, <1>1, <2>2 DEF ClaimReplays
    <2> QED
        BY <1>0, <1>2, <2>1, <2>2 DEF ClaimDeclines
<1>3. ASSUME NEW p, NEW o, NEW k, NEW s, NEW d, ClaimStarts(p, o, k, s, d)
      PROVE  o = "scheduled"
    <2> DEFINE n == [NoRow EXCEPT !.status = "running", !.origin = o, !.key = k, !.slot = s,
                                  !.rev = task.rev, !.until = now + Lease, !.deadline = now + d]
    <2>1. PICK q \in RunId : run' = [SettledRuns EXCEPT ![q] = n]
        BY <1>3 DEF ClaimStarts
    <2>2. n.origin = o
        BY DEF NoRow
    <2> HIDE DEF n
    <2>3. q = r
        BY <1>0, <1>1, <2>1
    <2> QED
        BY <1>0, <1>1, <2>1, <2>2, <2>3
<1>4. ASSUME NEW p \in Proc, ScheduledClaim(p) PROVE task.status = "active"
    <2> DEFINE k == SlotKey(sched[p].rev, sched[p].slot)
    <2>1. Admitted("scheduled", k, sched[p].slot) /\ MayStart(k)
        BY <1>2, <1>4 DEF ScheduledClaim, ClaimStarts
    <2> HIDE DEF k
    <2>2. \A q \in RunId : IsLatest(q, k) => run[q].status = "running"
        BY <2>1 DEF MayStart, Expired, Active
    <2> QED
        BY <2>1, <2>2 DEF Admitted, Terminal
<1>5. ASSUME NEW p \in Proc, TickStep(p) PROVE task.status = "active"
    <2>1. CASE ExpireSlot(p)
        <3>1. ASSUME NEW q \in RunId, NEW n, n.status = "failed", run' = [run EXCEPT ![q] = n]
              PROVE  FALSE
            <4>1. run'[q] = n
                BY <3>1 DEF Inv, TypeOK
            <4> QED
                BY <1>0, <3>1, <4>1
        <3> DEFINE n == [NoRow EXCEPT !.status = "failed", !.origin = "scheduled",
                              !.key = SlotKey(sched[p].rev, sched[p].slot),
                              !.slot = sched[p].slot, !.rev = sched[p].rev]
        <3>2. n.status = "failed"
            BY DEF NoRow
        <3>3. run' = run \/ \E q \in RunId : run' = [run EXCEPT ![q] = n]
            BY <2>1 DEF ExpireSlot
        <3> HIDE DEF n
        <3> QED
            BY <1>0, <3>1, <3>2, <3>3
    <2>2. CASE StartTick(p) \/ ListDue(p) \/ Dispatch(p)
        BY <1>0, <1>1, <2>2 DEF StartTick, ListDue, Dispatch
    <2> QED
        BY <1>4, <1>5, <2>1, <2>2 DEF TickStep
<1>6. ~UserStep
    <2>1. ASSUME NEW p, NEW m, NEW d, ManualClaim(p, m, d) PROVE FALSE
        BY <1>2, <1>3, <2>1 DEF ManualClaim
    <2> QED
        BY <1>0, <2>1 DEF UserStep, ActivateTask, PauseTask, ArchiveTask, DeleteTask,
            BeginEdit, CommitEdit, Untouched
<1>7. ASSUME NEW q \in RunId, WorkerStep(q) PROVE FALSE
    <2>1. CASE Publish(q)
        BY <1>0, <2>1 DEF Publish, Inv, TypeOK, RunRow
    <2>2. ASSUME NEW asked \in Terminal, FinishRun(q, asked) PROVE FALSE
        <3>1. CASE OwnsLease(q)
            <4>1. q # r
                BY <1>0, <3>1 DEF OwnsLease
            <4>2. run'[r] = run[r]
                BY <2>2, <3>1, <4>1 DEF FinishRun, Inv, TypeOK
            <4> QED
                BY <1>0, <4>2
        <3>2. CASE ~OwnsLease(q)
            BY <1>0, <2>2, <3>2 DEF FinishRun
        <3> QED
            BY <3>1, <3>2
    <2> QED
        BY <1>0, <1>7, <2>1, <2>2 DEF WorkerStep, AssertLease, SaveAsset
<1> QED
    BY <1>0, <1>5, <1>6, <1>7 DEF Next, PassTime, Restart, vars

\* The task is due again exactly when it is active, and active only with failures to spare;
\* and a run for a slot starts only while it is active, whatever a tick had listed before.
THEOREM Cadence == Spec => ScheduleMatchesStatus
<1>1. Inv => /\ task.cursor # NoSlot <=> task.status = "active"
             /\ task.status = "active" => task.failures < MaxFailures
    BY DEF Inv, Rows, WellFormed
<1>2. Inv /\ [Next]_vars =>
          [\A r \in RunId : Starts(r, "scheduled") => task.status = "active"]_vars
    BY StartStep
<1> QED
    BY <1>1, <1>2, Invariance, PTL DEF Spec, ScheduleMatchesStatus
-----------------------------------------------------------------------------
(* Ended runs stay ended, and the circuit breaker counts them *)

\* Recovery leaves ended runs as they are.
LEMMA SettledKeeps ==
    ASSUME Inv, NEW r \in RunId, run[r].status \in Terminal
    PROVE  SettledRuns[r] = run[r]
BY Settling DEF Expired, Active, Terminal

\* A step keeps the outcome of every run that has ended.
LEMMA EndedStep ==
    ASSUME Inv, [Next]_vars, NEW r \in RunId, run[r].status \in Terminal
    PROVE  run'[r].status = run[r].status /\ run'[r].archived = run[r].archived
<1>1. run[r].status # "running" /\ run[r].status # "none" /\ run \in [RunId -> RunRow]
    BY DEF Terminal, Inv, TypeOK
<1>2. SettledRuns[r] = run[r] /\ SettledRuns \in [RunId -> RunRow]
    BY SettledKeeps, Settling DEF Rows
<1>3. ASSUME NEW p, NEW o, NEW k, NEW s, NEW d, ClaimStarts(p, o, k, s, d)
      PROVE  run'[r] = run[r]
    BY <1>1, <1>2, <1>3 DEF ClaimStarts, IsFresh
<1>4. ASSUME NEW o, NEW k, NEW s, ClaimDeclines(o, k, s)
      PROVE  run'[r] = run[r]
    <2>1. CASE ClaimJoins
        BY <1>1, <2>1 DEF ClaimJoins, Live, Active
    <2>2. CASE ClaimReplays(k)
        BY <1>2, <2>2 DEF ClaimReplays
    <2> QED
        BY <1>4, <2>1, <2>2 DEF ClaimDeclines
<1>5. ASSUME NEW p \in Proc, TickStep(p) PROVE run'[r] = run[r]
    <2>1. CASE ExpireSlot(p)
        BY <1>1, <2>1 DEF ExpireSlot, IsFresh
    <2>2. CASE ScheduledClaim(p)
        BY <1>3, <1>4, <2>2 DEF ScheduledClaim
    <2> QED
        BY <1>2, <1>5, <2>1, <2>2 DEF TickStep, StartTick, ListDue, Dispatch
<1>6. ASSUME UserStep PROVE run'[r] = run[r]
    BY <1>3, <1>4, <1>6 DEF UserStep, ManualClaim, ActivateTask, PauseTask, ArchiveTask, DeleteTask,
        BeginEdit, CommitEdit, Untouched
<1>7. ASSUME NEW q \in RunId, WorkerStep(q)
      PROVE  run'[r].status = run[r].status /\ run'[r].archived = run[r].archived
    <2>1. CASE Publish(q)
        BY <1>1, <2>1 DEF Publish, RunRow
    <2>2. ASSUME NEW asked \in Terminal, FinishRun(q, asked) PROVE run'[r] = run[r]
        BY <1>1, <2>2 DEF FinishRun, OwnsLease
    <2> QED
        BY <1>7, <2>1, <2>2 DEF WorkerStep, AssertLease, SaveAsset
<1> QED
    BY <1>5, <1>6, <1>7 DEF Next, PassTime, Restart, vars

\* A worker that reports after its run was recovered changes nothing, and an attempt that
\* was archived stays archived.
THEOREM EndedRunsStay == Spec => EndedRunStays
<1>1. Inv /\ [Next]_vars =>
          [\A r \in RunId : run[r].status \in Terminal =>
               run'[r].status = run[r].status /\ run'[r].archived = run[r].archived]_vars
    BY EndedStep
<1> QED
    BY <1>1, Invariance, PTL DEF Spec, EndedRunStays

\* The body of FailuresCountEnds.
Counted ==
    /\ (\E r \in RunId : Ends(r, "failed")) => task'.failures = task.failures + 1
    /\ (\E r \in RunId : Ends(r, "succeeded")) => task'.failures = 0
    /\ task'.failures > task.failures => \E r \in RunId : Ends(r, "failed")

\* A step that ends no run and raises no count.
LEMMA QuietCounted ==
    ASSUME Inv, \A r \in RunId : run[r].status \notin Terminal => run'[r].status \notin Terminal,
           task'.failures \in {0, task.failures}
    PROVE  Counted
<1>1. task.failures \in Nat
    BY DEF Inv, TypeOK, TaskRow
<1> QED
    BY <1>1 DEF Counted, Ends, Terminal

\* A step that ends one scheduled run and counts it.
LEMMA EndCounted ==
    ASSUME Inv, NEW e \in RunId, run[e].status \notin Terminal, run'[e].status \in Terminal,
           run'[e].origin = "scheduled",
           \A r \in RunId : r # e /\ run[r].status \notin Terminal => run'[r].status \notin Terminal,
           task'.failures = IF run'[e].status = "succeeded" THEN 0 ELSE task.failures + 1
    PROVE  Counted
<1>1. task.failures \in Nat
    BY DEF Inv, TypeOK, TaskRow
<1>2. CASE run'[e].status = "succeeded"
    BY <1>1, <1>2 DEF Counted, Ends, Terminal
<1>3. CASE run'[e].status = "failed"
    BY <1>1, <1>3 DEF Counted, Ends, Terminal
<1> QED
    BY <1>2, <1>3 DEF Terminal

\* A step that recovers the expired run, and counts what recovery counts.
LEMMA SettledCounted ==
    ASSUME Inv, \A r \in RunId \ Expired : run[r].status \notin Terminal => run'[r].status \notin Terminal,
           \A r \in Expired : run'[r] = RecoveredRun(r),
           task'.failures = SettledTask.failures
    PROVE  Counted
<1>1. CASE Expired = {}
    BY <1>1, QuietCounted DEF SettledTask
<1>2. CASE Expired # {}
    <2> DEFINE e == CHOOSE r \in Expired : TRUE
    <2>1. e \in Expired /\ SettledTask = RecoveredTask(e)
        BY <1>2 DEF SettledTask
    <2> HIDE DEF e
    <2>2. e \in RunId /\ run[e].status = "running" /\ run[e] \in RunRow
        BY <2>1 DEF Expired, Active, Inv, TypeOK
    <2>3. \A r \in Expired : r = e
        BY <2>1, <2>2 DEF Expired, Active, Inv, Rows, AtMostOne
    <2>4. /\ run'[e].status = IF run[e].published THEN "succeeded" ELSE "failed"
          /\ run'[e].origin = run[e].origin
        BY <2>1, <2>2 DEF RecoveredRun, RunRow
    <2> DEFINE t == Released(task, e)
    <2>5. WellFormed(t) /\ t.failures = task.failures /\ now \in Nat /\ run[e].rev \in Revision
        BY <2>2, ReleasedRow DEF Inv, Rows, TypeOK, RunRow
    <2>6. /\ AfterSuccess(t, run[e].rev, now).failures = 0
          /\ AfterFailure(t, now + RetryDelay).failures = task.failures + 1
        BY <2>5, AfterSuccessRow, AfterFailureRow, RetryAt DEF Inv
    <2>7. CASE run[e].origin # "scheduled"
        <3>1. task'.failures = task.failures
            BY <2>1, <2>5, <2>7 DEF RecoveredTask
        <3>2. \A r \in RunId : ~Ends(r, "failed") /\ ~Ends(r, "succeeded")
            BY <2>2, <2>3, <2>4, <2>7 DEF Ends, Terminal
        <3> QED
            BY <3>1, <3>2 DEF Counted, Inv, TypeOK, TaskRow
    <2>8. CASE run[e].origin = "scheduled"
        <3>1. task'.failures = IF run[e].published THEN 0 ELSE task.failures + 1
            BY <2>1, <2>6, <2>8 DEF RecoveredTask
        <3>2. /\ run[e].status \notin Terminal /\ run'[e].status \in Terminal
              /\ run'[e].origin = "scheduled"
              /\ task'.failures = IF run'[e].status = "succeeded" THEN 0 ELSE task.failures + 1
            BY <2>2, <2>4, <2>8, <3>1 DEF Terminal
        <3>3. \A r \in RunId : r # e /\ run[r].status \notin Terminal => run'[r].status \notin Terminal
            BY <2>3
        <3> QED
            BY <2>2, <3>2, <3>3, EndCounted
    <2> QED
        BY <2>7, <2>8
<1> QED
    BY <1>1, <1>2

\* The claims.
LEMMA StartsCounted ==
    ASSUME Inv, NEW p, NEW o, NEW k, NEW s, NEW d, ClaimStarts(p, o, k, s, d)
    PROVE  Counted
<1> DEFINE n == [NoRow EXCEPT !.status = "running", !.origin = o, !.key = k, !.slot = s,
                              !.rev = task.rev, !.until = now + Lease, !.deadline = now + d]
<1>1. PICK r \in RunId : /\ IsFresh(r)
                         /\ run' = [SettledRuns EXCEPT ![r] = n]
                         /\ task' = [SettledTask EXCEPT !.holder = r, !.until = now + Lease]
    BY DEF ClaimStarts
<1>2. n.status = "running"
    BY DEF NoRow
<1> HIDE DEF n
<1>3. SettledRuns \in [RunId -> RunRow] /\ SettledTask \in TaskRow
    BY Settling DEF Rows, WellFormed
<1>4. run'[r] = n /\ \A q \in RunId : q # r => run'[q] = SettledRuns[q]
    BY <1>1, <1>3
<1>5. r \notin Expired
    BY <1>1 DEF IsFresh, Expired, Active
<1>6. \A q \in Expired : run'[q] = RecoveredRun(q)
    BY <1>4, <1>5, Settling DEF Expired, Active
<1>7. \A q \in RunId \ Expired : run[q].status \notin Terminal => run'[q].status \notin Terminal
    BY <1>2, <1>4, Settling DEF Terminal
<1>8. task'.failures = SettledTask.failures
    BY <1>1, <1>3 DEF TaskRow
<1> QED
    BY <1>6, <1>7, <1>8, SettledCounted

LEMMA DeclinesCounted ==
    ASSUME Inv, NEW o, NEW k, NEW s, ClaimDeclines(o, k, s)
    PROVE  Counted
<1>1. CASE ClaimJoins
    <2>1. \A q \in RunId : run'[q].status = run[q].status
        BY <1>1 DEF ClaimJoins, Live, Active, Inv, Rows, RunRow
    <2>2. task'.failures = task.failures
        BY <1>1 DEF ClaimJoins, Inv, TypeOK, TaskRow
    <2> QED
        BY <2>1, <2>2, QuietCounted
<1>2. CASE ClaimReplays(k)
    <2>1. PICK r \in RunId \ Expired : run' = SettledRuns /\ task' = Reconciled(SettledTask, r, now)
        BY <1>2 DEF ClaimReplays
    <2>2. task'.failures = SettledTask.failures
        <3>1. now \in Nat /\ run[r].rev \in Revision
            BY DEF Inv, TypeOK, RunRow
        <3>2. WellFormed(SettledTask)
            BY Settling DEF Rows
        <3> QED
            BY <2>1, <3>1, <3>2, ReconciledRow
    <2>3. \A q \in RunId : run'[q] = IF q \in Expired THEN RecoveredRun(q) ELSE run[q]
        BY <2>1, Settling
    <2> QED
        BY <2>2, <2>3, SettledCounted DEF Expired, Active
<1>3. CASE UNCHANGED <<task, run>>
    BY <1>3, QuietCounted
<1> QED
    BY <1>1, <1>2, <1>3 DEF ClaimDeclines

\* The worker's report counts as what it ends up as.
LEMMA FinishCounted ==
    ASSUME Inv, NEW r \in RunId, NEW asked \in Terminal, FinishRun(r, asked)
    PROVE  Counted
<1>1. CASE ~OwnsLease(r)
    BY <1>1, QuietCounted DEF FinishRun
<1>2. CASE OwnsLease(r)
    <2> DEFINE final == FinalStatus(r, asked)
               t == Released(task, r)
    <2>1. /\ run' = [run EXCEPT ![r].status = final, ![r].until = 0]
          /\ task' = FinishedTask(r, final) /\ run[r].status = "running"
        BY <1>2 DEF FinishRun, OwnsLease
    <2>2. final \in Terminal
        BY DEF FinalStatus, Terminal
    <2>3. WellFormed(t) /\ t.failures = task.failures /\ now \in Nat /\ run[r].rev \in Revision
        BY ReleasedRow DEF Inv, Rows, TypeOK, RunRow
    <2>4. NextRunAt(run[r].rev, now) \in Nat /\ NextRunAt(run[r].rev, now) # NoSlot
        BY <2>3, NextRunAtLater DEF NoSlot
    <2>5. /\ AfterSuccess(t, run[r].rev, now).failures = 0
          /\ AfterFailure(t, NextRunAt(run[r].rev, now)).failures = task.failures + 1
        BY <2>3, <2>4, AfterSuccessRow, AfterFailureRow
    <2> HIDE DEF final
    <2>6. /\ run'[r].status = final /\ run'[r].origin = run[r].origin
          /\ \A q \in RunId : q # r => run'[q] = run[q]
        BY <2>1 DEF Inv, Rows, RunRow
    <2>7. CASE run[r].origin # "scheduled"
        <3>1. task'.failures = task.failures
            BY <2>1, <2>3, <2>7 DEF FinishedTask
        <3>2. \A q \in RunId : ~Ends(q, "failed") /\ ~Ends(q, "succeeded")
            BY <2>6, <2>7 DEF Ends, Terminal
        <3> QED
            BY <3>1, <3>2 DEF Counted, Inv, TypeOK, TaskRow
    <2>8. CASE run[r].origin = "scheduled"
        <3>1. task'.failures = IF final = "succeeded" THEN 0 ELSE task.failures + 1
            BY <2>1, <2>5, <2>8 DEF FinishedTask
        <3>2. run[r].status \notin Terminal /\ run'[r].status \in Terminal
            BY <2>1, <2>2, <2>6 DEF Terminal
        <3> QED
            BY <2>6, <2>8, <3>1, <3>2, EndCounted
    <2> QED
        BY <2>7, <2>8
<1> QED
    BY <1>1, <1>2

\* A slot that is given up counts as a failure.
LEMMA ExpireCounted ==
    ASSUME Inv, NEW p \in Proc, ExpireSlot(p)
    PROVE  Counted
<1> DEFINE v == sched[p].rev
           s == sched[p].slot
           k == SlotKey(v, s)
<1>1. v \in Revision /\ now \in Nat
    BY DEF Inv, TypeOK
<1>2. ASSUME NEW r \in RunId, IsFresh(r),
             run' = [run EXCEPT ![r] = [NoRow EXCEPT !.status = "failed",
                        !.origin = "scheduled", !.key = k, !.slot = s, !.rev = v]],
             task' = AfterFailure([task EXCEPT !.holder = NoRun, !.until = 0], NextRunAt(v, now))
      PROVE  Counted
    <2> DEFINE t == WithLock(task, NoRun, 0)
    <2>1. WellFormed(task) /\ NoRun \in RunId \cup {NoRun} /\ 0 \in Nat
        BY DEF Inv, Rows
    <2>2. WellFormed(t) /\ t.failures = task.failures
        BY <2>1, LockedRow
    <2>3. NextRunAt(v, now) \in Nat /\ NextRunAt(v, now) # NoSlot
        BY <1>1, NextRunAtLater DEF NoSlot
    <2>4. task' = AfterFailure(t, NextRunAt(v, now))
        BY <1>2 DEF WithLock
    <2> HIDE DEF t
    <2>5. task'.failures = task.failures + 1
        BY <2>2, <2>3, <2>4, AfterFailureRow
    <2>6. /\ run'[r].status = "failed" /\ run'[r].origin = "scheduled"
          /\ \A q \in RunId : q # r => run'[q] = run[q]
        BY <1>2 DEF Inv, Rows, NoRow
    <2>7. run[r].status = "none"
        BY <1>2 DEF IsFresh
    <2> QED
        BY <2>5, <2>6, <2>7, EndCounted DEF Terminal
<1>3. ASSUME NEW r \in RunId, task' = Reconciled(task, r, now), run' = run
      PROVE  Counted
    <2>1. task'.failures = task.failures
        BY <1>1, <1>3, ReconciledRow DEF Inv, Rows, TypeOK, RunRow
    <2> QED
        BY <1>3, <2>1, QuietCounted
<1>4. CASE UNCHANGED <<task, run>>
    BY <1>4, QuietCounted
<1> QED
    BY <1>2, <1>3, <1>4 DEF ExpireSlot

\* Every step counts what it ends.
LEMMA CountedStep == Inv /\ [Next]_vars => Counted
<1> SUFFICES ASSUME Inv, [Next]_vars PROVE Counted
    OBVIOUS
<1>1. CASE UserStep
    <2>1. ASSUME NEW p, NEW m, NEW d, ManualClaim(p, m, d) PROVE Counted
        BY <2>1, StartsCounted, DeclinesCounted DEF ManualClaim
    <2>2. CASE \/ ActivateTask \/ PauseTask \/ ArchiveTask \/ DeleteTask \/ BeginEdit
               \/ \E v \in Revision : CommitEdit(v)
        <3>1. run' = run
            BY <2>2 DEF ActivateTask, PauseTask, ArchiveTask, DeleteTask, BeginEdit, CommitEdit, Untouched
        <3>2. task'.failures \in {0, task.failures}
            BY <2>2 DEF ActivateTask, PauseTask, ArchiveTask, DeleteTask, BeginEdit, CommitEdit, Inv,
                TypeOK, TaskRow
        <3> QED
            BY <3>1, <3>2, QuietCounted
    <2> QED
        BY <1>1, <2>1, <2>2 DEF UserStep
<1>2. ASSUME NEW p \in Proc, TickStep(p) PROVE Counted
    <2>1. CASE StartTick(p)
        <3>1. \A q \in RunId : run'[q] = IF q \in Expired THEN RecoveredRun(q) ELSE run[q]
            BY <2>1, Settling DEF StartTick
        <3> QED
            BY <2>1, <3>1, SettledCounted DEF StartTick, Expired, Active
    <2>2. CASE ListDue(p)
        <3>1. run' = run
            BY <2>2 DEF ListDue
        <3>2. ASSUME NEW r \in RunId, task' = Reconciled(task, r, sched[p].at)
              PROVE  task'.failures = task.failures
            BY <3>2, ReconciledRow DEF Inv, Rows, TypeOK, RunRow
        <3>3. task'.failures = task.failures
            BY <2>2, <3>2 DEF ListDue, Reconcilable
        <3> QED
            BY <3>1, <3>3, QuietCounted
    <2>3. CASE Dispatch(p)
        BY <2>3, QuietCounted DEF Dispatch
    <2>4. CASE ScheduledClaim(p)
        BY <2>4, StartsCounted, DeclinesCounted DEF ScheduledClaim
    <2>5. CASE ExpireSlot(p)
        BY <2>5, ExpireCounted
    <2> QED
        BY <1>2, <2>1, <2>2, <2>3, <2>4, <2>5 DEF TickStep
<1>3. ASSUME NEW r \in RunId, WorkerStep(r) PROVE Counted
    <2>1. CASE Publish(r)
        <3>1. \A q \in RunId : run'[q].status = run[q].status
            BY <2>1 DEF Publish, Inv, Rows, RunRow
        <3> QED
            BY <2>1, <3>1, QuietCounted DEF Publish
    <2>2. CASE AssertLease(r) \/ SaveAsset(r)
        BY <2>2, QuietCounted DEF AssertLease, SaveAsset
    <2> QED
        BY <1>3, <2>1, <2>2, FinishCounted DEF WorkerStep
<1>4. CASE UNCHANGED <<task, run>>
    BY <1>4, QuietCounted
<1> QED
    BY <1>1, <1>2, <1>3, <1>4 DEF Next, PassTime, Restart, vars

\* The circuit breaker counts every end of a scheduled run exactly once, whoever writes it.
THEOREM FailuresCounted == Spec => FailuresCountEnds
<1>1. Inv /\ [Next]_vars => [Counted]_vars
    BY CountedStep
<1> QED
    BY <1>1, Invariance, PTL DEF Spec, FailuresCountEnds, Counted
-----------------------------------------------------------------------------
(* The task row implements the abstract lease *)

\* What the refinement needs besides Inv: a row that was never inserted has no expiry, and
\* a run that is running without the lock has no worker.
NoExpiry == \A r \in RunId : run[r].status = "none" => run[r].until = 0
NoWorker == \A r \in RunId : run[r].status = "running" /\ task.holder = NoRun => stage[r].step = "none"
LeaseInv == Inv /\ NoExpiry /\ NoWorker

\* The abstract variables.
aPhase == [r \in RunId |-> Phase(r)]
aUntil == [r \in RunId |-> run[r].until]
aWorking == [r \in RunId |-> stage[r].step # "none"]

\* In terms of the rows, a run is running in the abstraction, and its lease is over there,
\* when it is so here.
LEMMA AbstractRunning ==
    ASSUME Inv
    PROVE  /\ TL!Running = Active
           /\ \A r \in RunId : aUntil[r] = run[r].until /\ aPhase[r] = Phase(r)
           /\ \A r \in Active : LeaseExpired(r) <=> run[r].until <= now
<1>1. \A r \in RunId : Phase(r) = "running" <=> run[r].status = "running"
    BY DEF Phase, Terminal
<1>2. \A r \in Active : task.holder # NoRun => task.until = run[r].until
    BY DEF Inv, Rows, LockAgrees, AtMostOne, Active, TypeOK, TaskRow
<1> QED
    BY <1>1, <1>2 DEF TL!Running, Active, aUntil, aPhase, LeaseExpired

LEMMA InitLease == Init => LeaseInv /\ TL!LeaseInit
<1> SUFFICES ASSUME Init PROVE LeaseInv /\ TL!LeaseInit
    OBVIOUS
<1>1. Inv
    BY InitInv
<1>2. \A r \in RunId : stage[r].step = "none"
    BY DEF Init
<1>3. NoRow.until = 0 /\ NoRow.status = "none"
      /\ LegacyRunning.status = "running" /\ LegacyRunning.until = Lease
      /\ LegacyEnded(Period[1]).status = "succeeded" /\ LegacyEnded(Period[1]).until = 0
    BY DEF NoRow, LegacyRunning, LegacyEnded
<1>4. \A r \in RunId : run[r].until \in {0, Lease} /\ (run[r].status = "none" => run[r].until = 0)
                       /\ run[r].status \in {"none", "running", "succeeded"}
    BY <1>3 DEF Init
<1>5. aPhase \in [RunId -> {"none", "running", "ended"}] /\ aUntil \in [RunId -> {0, Lease}]
      /\ aWorking = [r \in RunId |-> FALSE]
    BY <1>2, <1>4 DEF aPhase, aUntil, aWorking, Phase, Terminal
<1>6. \A r, q \in TL!Running : r = q
    BY <1>1, AbstractRunning DEF Inv, Rows, AtMostOne, Active
<1> QED
    BY <1>1, <1>2, <1>4, <1>5, <1>6 DEF LeaseInv, NoExpiry, NoWorker, TL!LeaseInit, Init,
        aPhase, aUntil, aWorking

\* A step that leaves the abstract variables alone, and one that only loses workers.
LEMMA QuietLease ==
    ASSUME LeaseInv, now' = now,
           \A r \in RunId : run'[r].status = run[r].status /\ run'[r].until = run[r].until,
           \A r \in RunId : stage'[r].step # "none" => stage[r].step # "none",
           task'.holder = task.holder
    PROVE  NoExpiry' /\ NoWorker' /\ TL!Leave
<1>1. aPhase' = aPhase /\ aUntil' = aUntil
    BY DEF aPhase, aUntil, Phase
<1>2. aWorking' \in [RunId -> BOOLEAN] /\ \A r \in RunId : aWorking'[r] => aWorking[r]
    BY DEF aWorking
<1>3. NoExpiry' /\ NoWorker'
    BY DEF LeaseInv, NoExpiry, NoWorker
<1> QED
    BY <1>1, <1>2, <1>3 DEF TL!Leave, aPhase, aUntil, aWorking

\* Recovery is one Recover of the abstraction, or nothing.
LEMMA SettledLease ==
    ASSUME LeaseInv, now' = now, stage' = stage,
           \A r \in RunId : run'[r] = SettledRuns[r], task'.holder = SettledTask.holder
    PROVE  NoExpiry' /\ NoWorker' /\ (TL!Leave \/ \E r \in RunId : TL!Recover(r))
<1>1. \A r \in RunId : run[r] \in RunRow
    BY DEF LeaseInv, Inv, TypeOK
<1>2. \A r \in RunId : run'[r] = IF r \in Expired THEN RecoveredRun(r) ELSE run[r]
    BY Settling DEF LeaseInv
<1>3. CASE Expired = {}
    <2>1. task'.holder = task.holder /\ \A r \in RunId : run'[r] = run[r]
        BY <1>2, <1>3 DEF SettledTask
    <2> QED
        BY <2>1, QuietLease
<1>4. CASE Expired # {}
    <2>1. PICK e \in RunId : e \in Expired
        BY <1>4 DEF Expired, Active
    <2>2. run[e].status = "running" /\ \A r \in RunId : run[r].status = "running" => r = e
        BY <2>1 DEF Expired, Active, LeaseInv, Inv, Rows, AtMostOne
    <2>3. \A r \in RunId : run'[r] = IF r = e THEN RecoveredRun(e) ELSE run[r]
        BY <1>2, <2>1, <2>2 DEF Expired, Active
    <2>4. run'[e].status \in Terminal /\ run'[e].until = 0
        BY <1>1, <2>3 DEF RecoveredRun, RunRow, Terminal
    <2>5. NoExpiry' /\ NoWorker'
        BY <2>2, <2>3, <2>4 DEF LeaseInv, NoExpiry, NoWorker, Terminal
    <2>6. aPhase' = [aPhase EXCEPT ![e] = "ended"] /\ aUntil' = [aUntil EXCEPT ![e] = 0]
        BY <2>3, <2>4 DEF aPhase, aUntil, Phase
    <2>7. e \in TL!Running /\ aUntil[e] <= now
        BY <2>1, AbstractRunning DEF Expired, LeaseInv
    <2>8. TL!Recover(e)
        BY <2>6, <2>7 DEF TL!Recover, aPhase, aUntil
    <2> QED
        BY <2>5, <2>8
<1> QED
    BY <1>3, <1>4

\* A claim that starts a run is granted the lease.
LEMMA StartsLease ==
    ASSUME LeaseInv, now' = now, NEW p, NEW o, NEW k, NEW s, NEW d, ClaimStarts(p, o, k, s, d)
    PROVE  NoExpiry' /\ NoWorker' /\ \E r \in RunId : TL!Grant(r)
<1> DEFINE n == [NoRow EXCEPT !.status = "running", !.origin = o, !.key = k, !.slot = s,
                              !.rev = task.rev, !.until = now + Lease, !.deadline = now + d]
<1>1. PICK r \in RunId :
        /\ IsFresh(r)
        /\ run' = [SettledRuns EXCEPT ![r] = n]
        /\ task' = [SettledTask EXCEPT !.holder = r, !.until = now + Lease]
        /\ stage' = [stage EXCEPT ![r] = [step |-> "executing", at |-> p]]
    BY DEF ClaimStarts
<1>2. n.status = "running" /\ n.until = now + Lease
    BY DEF NoRow
<1> HIDE DEF n
<1>3. /\ SettledRuns \in [RunId -> RunRow] /\ SettledTask \in TaskRow
      /\ stage \in [RunId -> [step : {"none", "executing", "saving", "finishing"}, at : Proc]]
      /\ \A q \in RunId : run[q] \in RunRow
    BY Settling DEF Rows, WellFormed, LeaseInv, Inv, TypeOK
<1>4. Live = {} /\ run[r].status = "none"
    BY <1>1 DEF ClaimStarts, MayStart, IsFresh
<1>5. run'[r] = n /\ \A q \in RunId : q # r =>
          run'[q] = IF run[q].status = "running" THEN RecoveredRun(q) ELSE run[q]
    BY <1>1, <1>3, <1>4, Settling DEF LeaseInv, Live, Expired, Active
<1>6. \A q \in RunId : RecoveredRun(q).status \in Terminal /\ RecoveredRun(q).until = 0
    BY <1>3 DEF RecoveredRun, RunRow, Terminal
<1>7. task'.holder = r /\ r # NoRun
    BY <1>1, <1>3 DEF TaskRow, RunId, NoRun
<1>8. NoExpiry' /\ NoWorker'
    BY <1>2, <1>5, <1>6, <1>7 DEF LeaseInv, NoExpiry, NoWorker, Terminal
<1>9. /\ TL!Running = Active /\ aPhase[r] = "none"
      /\ \A q \in TL!Running : aUntil[q] <= now
    <2>1. aPhase[r] = "none"
        BY <1>4 DEF aPhase, Phase, Terminal
    <2>2. Active \subseteq Expired
        BY <1>4 DEF Live
    <2> QED
        BY <2>1, <2>2, AbstractRunning DEF LeaseInv, Expired, Active
<1>10. aPhase' = [q \in RunId |-> IF q = r THEN "running"
                                  ELSE IF q \in Active THEN "ended" ELSE aPhase[q]]
    BY <1>2, <1>5, <1>6 DEF aPhase, Phase, Active, Terminal
<1>11. aUntil' = [q \in RunId |-> IF q = r THEN now + Lease
                                  ELSE IF q \in Active THEN 0 ELSE aUntil[q]]
    BY <1>2, <1>5, <1>6 DEF aUntil, Active
<1>12. aWorking' = [aWorking EXCEPT ![r] = TRUE]
    BY <1>1, <1>3 DEF aWorking
<1>13. TL!Grant(r)
    BY <1>9, <1>10, <1>11, <1>12 DEF TL!Grant, aPhase, aUntil, aWorking
<1> QED
    BY <1>8, <1>13

\* A run older than the mutex that is adopted.
LEMMA JoinsLease ==
    ASSUME LeaseInv, now' = now, stage' = stage, ClaimJoins
    PROVE  NoExpiry' /\ NoWorker' /\ (TL!Leave \/ \E r \in RunId : TL!Adopt(r))
<1>1. PICK r \in Live :
        IF task.holder = NoRun
        THEN /\ task' = [task EXCEPT !.holder = r, !.until = now + Lease]
             /\ run' = [run EXCEPT ![r].until = now + Lease]
        ELSE UNCHANGED <<task, run>>
    BY DEF ClaimJoins
<1>2. CASE task.holder # NoRun
    BY <1>1, <1>2, QuietLease
<1>3. CASE task.holder = NoRun
    <2>1. r \in RunId /\ run[r].status = "running" /\ r # NoRun
        BY DEF Live, Active, RunId, NoRun
    <2>2. /\ run' = [run EXCEPT ![r].until = now + Lease] /\ task'.holder = r
        BY <1>1, <1>3 DEF LeaseInv, Inv, TypeOK, TaskRow
    <2>3. /\ run'[r].until = now + Lease /\ run'[r].status = "running"
          /\ \A q \in RunId : q # r => run'[q] = run[q]
        BY <2>1, <2>2 DEF LeaseInv, Inv, Rows, RunRow
    <2>4. NoExpiry' /\ NoWorker'
        BY <2>1, <2>2, <2>3 DEF LeaseInv, NoExpiry, NoWorker
    <2>5. aPhase' = aPhase /\ aUntil' = [aUntil EXCEPT ![r] = now + Lease] /\ aWorking' = aWorking
        BY <2>1, <2>3 DEF aPhase, aUntil, aWorking, Phase
    <2>6. ~aWorking[r]
        BY <2>1, <1>3 DEF aWorking, LeaseInv, NoWorker
    <2>7. r \in TL!Running /\ now < aUntil[r]
        <3>1. r \in Active /\ ~(run[r].until <= now)
            BY AbstractRunning DEF LeaseInv, Live, Expired
        <3>2. now \in Nat /\ run[r].until \in Nat
            BY <2>1 DEF LeaseInv, Inv, TypeOK, RunRow
        <3> QED
            BY <3>1, <3>2, <2>1, AbstractRunning DEF LeaseInv
    <2>8. TL!Adopt(r)
        BY <2>5, <2>6, <2>7 DEF TL!Adopt, aPhase, aUntil, aWorking
    <2> QED
        BY <2>1, <2>4, <2>8
<1> QED
    BY <1>2, <1>3

\* The claims that start nothing.
LEMMA DeclinesLease ==
    ASSUME LeaseInv, now' = now, NEW o, NEW k, NEW s, ClaimDeclines(o, k, s)
    PROVE  NoExpiry' /\ NoWorker'
           /\ (TL!Leave \/ \E r \in RunId : TL!Adopt(r) \/ TL!Recover(r))
<1>1. stage' = stage
    BY DEF ClaimDeclines
<1>2. CASE ClaimJoins
    BY <1>1, <1>2, JoinsLease
<1>3. CASE ClaimReplays(k)
    <2>1. PICK r \in RunId \ Expired : run' = SettledRuns /\ task' = Reconciled(SettledTask, r, now)
        BY <1>3 DEF ClaimReplays
    <2>2. task'.holder = SettledTask.holder
        <3>1. WellFormed(SettledTask)
            BY Settling DEF Rows, LeaseInv
        <3>2. r \in RunId /\ now \in Nat /\ run[r].rev \in Revision
            BY DEF LeaseInv, Inv, TypeOK, RunRow
        <3> QED
            BY <2>1, <3>1, <3>2, ReconciledRow
    <2> QED
        BY <1>1, <2>1, <2>2, SettledLease
<1>4. CASE UNCHANGED <<task, run>>
    BY <1>1, <1>4, QuietLease
<1> QED
    BY <1>2, <1>3, <1>4 DEF ClaimDeclines

\* An occurrence that waited too long is entered as ended.
LEMMA ExpireLease ==
    ASSUME LeaseInv, now' = now, stage' = stage, NEW p \in Proc, ExpireSlot(p)
    PROVE  NoExpiry' /\ NoWorker' /\ (TL!Leave \/ \E r \in RunId : TL!Enter(r))
<1> DEFINE v == sched[p].rev
           s == sched[p].slot
           k == SlotKey(v, s)
<1>1. ASSUME MayExpire(v, s), NEW r \in RunId, IsFresh(r),
             run' = [run EXCEPT ![r] = [NoRow EXCEPT !.status = "failed",
                        !.origin = "scheduled", !.key = k, !.slot = s, !.rev = v]]
      PROVE  NoExpiry' /\ NoWorker' /\ TL!Enter(r)
    <2>1. /\ run'[r].status = "failed" /\ run'[r].until = 0
          /\ \A q \in RunId : q # r => run'[q] = run[q]
        BY <1>1 DEF LeaseInv, Inv, Rows, NoRow
    <2>2. run[r].status = "none" /\ run[r].until = 0 /\ Active = {}
        BY <1>1 DEF IsFresh, MayExpire, LeaseInv, NoExpiry
    <2>3. NoExpiry' /\ NoWorker'
        BY <2>1, <2>2 DEF LeaseInv, NoExpiry, NoWorker, Active
    <2>4. /\ aPhase' = [aPhase EXCEPT ![r] = "ended"] /\ aUntil' = aUntil /\ aWorking' = aWorking
          /\ aPhase[r] = "none"
        BY <2>1, <2>2 DEF aPhase, aUntil, aWorking, Phase, Terminal
    <2>5. TL!Running = {}
        BY <2>2, AbstractRunning DEF LeaseInv
    <2> QED
        BY <2>3, <2>4, <2>5 DEF TL!Enter, aPhase, aUntil, aWorking
<1>2. ASSUME NEW r \in RunId, task' = Reconciled(task, r, now), run' = run
      PROVE  NoExpiry' /\ NoWorker' /\ TL!Leave
    <2>1. task'.holder = task.holder
        BY <1>2, ReconciledRow DEF LeaseInv, Inv, Rows, TypeOK, RunRow
    <2> QED
        BY <1>2, <2>1, QuietLease
<1>3. CASE UNCHANGED <<task, run>>
    BY <1>3, QuietLease
<1> QED
    BY <1>1, <1>2, <1>3 DEF ExpireSlot

\* A worker reports, in time or too late.
LEMMA FinishLease ==
    ASSUME LeaseInv, NEW r \in RunId, NEW asked \in Terminal, FinishRun(r, asked)
    PROVE  NoExpiry' /\ NoWorker' /\ (TL!Leave \/ TL!Report(r))
<1>1. /\ now' = now /\ stage[r].step # "none" /\ stage' = [stage EXCEPT ![r].step = "none"]
      /\ stage \in [RunId -> [step : {"none", "executing", "saving", "finishing"}, at : Proc]]
    BY DEF FinishRun, Works, LeaseInv, Inv, TypeOK
<1>2. aWorking' = [aWorking EXCEPT ![r] = FALSE] /\ aWorking[r]
      /\ \A q \in RunId : stage'[q].step # "none" => stage[q].step # "none"
    BY <1>1 DEF aWorking
<1>3. CASE ~OwnsLease(r)
    BY <1>1, <1>2, <1>3, QuietLease DEF FinishRun
<1>4. CASE OwnsLease(r)
    <2> DEFINE final == FinalStatus(r, asked)
    <2>1. run' = [run EXCEPT ![r].status = final, ![r].until = 0] /\ final \in Terminal
        BY <1>4 DEF FinishRun, FinalStatus, Terminal
    <2> HIDE DEF final
    <2>2. /\ run'[r].status \in Terminal /\ run'[r].until = 0
          /\ \A q \in RunId : q # r => run'[q] = run[q]
        BY <2>1 DEF LeaseInv, Inv, Rows, RunRow
    <2>3. r \in Active /\ \A q \in RunId : run[q].status = "running" => q = r
        BY <1>4 DEF OwnsLease, Active, LeaseInv, Inv, Rows, AtMostOne
    <2>4. NoExpiry' /\ NoWorker'
        BY <2>2, <2>3 DEF LeaseInv, NoExpiry, NoWorker, Terminal
    <2>5. aPhase' = [aPhase EXCEPT ![r] = "ended"] /\ aUntil' = [aUntil EXCEPT ![r] = 0]
        BY <2>2 DEF aPhase, aUntil, Phase
    <2>6. aUntil[r] = task.until
        BY <1>4 DEF aUntil, OwnsLease, LeaseInv, Inv, Rows, LockAgrees, RunId, NoRun
    <2>7. r \in TL!Running /\ now < aUntil[r]
        BY <1>4, <2>3, <2>6, AbstractRunning DEF OwnsLease, LeaseInv
    <2>8. TL!Report(r)
        BY <1>1, <1>2, <2>5, <2>7 DEF TL!Report, aPhase, aUntil, aWorking
    <2> QED
        BY <2>4, <2>8
<1> QED
    BY <1>3, <1>4

\* One step of the system is a step of the abstract lease, or leaves it alone.
LEMMA LeaseStep ==
    ASSUME LeaseInv, [Next]_vars
    PROVE  NoExpiry' /\ NoWorker' /\ [TL!LeaseNext]_(TL!leaseVars)
<1> DEFINE Goal == NoExpiry' /\ NoWorker'
                   /\ (TL!Leave \/ TL!Wait \/ \E r \in RunId : TL!Grant(r) \/ TL!Report(r)
                                    \/ TL!Recover(r) \/ TL!Adopt(r) \/ TL!Enter(r))
<1> SUFFICES Goal
    BY DEF TL!LeaseNext
<1>1. CASE PassTime
    <2>1. UNCHANGED <<aPhase, aUntil, aWorking>>
        BY <1>1 DEF PassTime, aPhase, aUntil, aWorking, Phase
    <2>2. NoExpiry' /\ NoWorker'
        BY <1>1 DEF PassTime, LeaseInv, NoExpiry, NoWorker
    <2> QED
        BY <1>1, <2>1, <2>2 DEF PassTime, TL!Wait, aPhase, aUntil, aWorking
<1>2. CASE UserStep
    <2>1. ASSUME NEW p, NEW m, NEW d, ManualClaim(p, m, d) PROVE Goal
        BY <2>1, StartsLease, DeclinesLease DEF ManualClaim
    <2>2. CASE \/ ActivateTask \/ PauseTask \/ ArchiveTask \/ DeleteTask \/ BeginEdit
               \/ \E v \in Revision : CommitEdit(v)
        <3>1. run' = run /\ stage' = stage /\ now' = now
            BY <2>2 DEF ActivateTask, PauseTask, ArchiveTask, DeleteTask, BeginEdit, CommitEdit, Untouched
        <3>2. task'.holder = task.holder
            BY <2>2 DEF ActivateTask, PauseTask, ArchiveTask, DeleteTask, BeginEdit, CommitEdit,
                LeaseInv, Inv, TypeOK, TaskRow
        <3> QED
            BY <3>1, <3>2, QuietLease
    <2> QED
        BY <1>2, <2>1, <2>2 DEF UserStep
<1>3. ASSUME NEW p \in Proc, TickStep(p) PROVE Goal
    <2>1. CASE StartTick(p)
        BY <2>1, SettledLease DEF StartTick
    <2>2. CASE ListDue(p)
        <3>1. run' = run /\ stage' = stage /\ now' = now
            BY <2>2 DEF ListDue
        <3>2. ASSUME NEW r \in RunId, task' = Reconciled(task, r, sched[p].at)
              PROVE  task'.holder = task.holder
            BY <3>2, ReconciledRow DEF LeaseInv, Inv, Rows, TypeOK, RunRow
        <3>3. task'.holder = task.holder
            BY <2>2, <3>2 DEF ListDue, Reconcilable
        <3> QED
            BY <3>1, <3>3, QuietLease
    <2>3. CASE Dispatch(p)
        BY <2>3, QuietLease DEF Dispatch
    <2>4. CASE ScheduledClaim(p)
        BY <2>4, StartsLease, DeclinesLease DEF ScheduledClaim
    <2>5. CASE ExpireSlot(p)
        BY <2>5, ExpireLease DEF ExpireSlot
    <2> QED
        BY <1>3, <2>1, <2>2, <2>3, <2>4, <2>5 DEF TickStep
<1>4. ASSUME NEW p \in Proc, Restart(p) PROVE Goal
    BY <1>4, QuietLease DEF Restart
<1>5. ASSUME NEW r \in RunId, WorkerStep(r) PROVE Goal
    <2>1. CASE Publish(r)
        <3>1. \A q \in RunId : run'[q].status = run[q].status /\ run'[q].until = run[q].until
            BY <2>1 DEF Publish, LeaseInv, Inv, Rows, RunRow
        <3> QED
            BY <2>1, <3>1, QuietLease DEF Publish
    <2>2. CASE AssertLease(r) \/ SaveAsset(r)
        <3>1. stage[r].step # "none"
            BY <2>2 DEF AssertLease, SaveAsset, Works
        <3>2. /\ UNCHANGED <<now, task, run>>
              /\ \A q \in RunId : stage'[q].step # "none" => stage[q].step # "none"
            BY <2>2, <3>1 DEF AssertLease, SaveAsset, LeaseInv, Inv, TypeOK
        <3> QED
            BY <3>2, QuietLease
    <2> QED
        BY <1>5, <2>1, <2>2, FinishLease DEF WorkerStep
<1>6. CASE UNCHANGED vars
    <2>1. now' = now /\ task' = task /\ run' = run /\ stage' = stage
        BY <1>6 DEF vars
    <2> QED
        BY <2>1, QuietLease
<1> QED
    BY <1>1, <1>2, <1>3, <1>4, <1>5, <1>6 DEF Next

\* The rows of the database implement the lease: a run is started only when no lease is
\* alive, its worker ends it before the lease is over and others only afterwards.
THEOREM Implements == Spec => ImplementsTaskLease
<1>1. Init => LeaseInv /\ TL!LeaseInit
    BY InitLease
<1>2. LeaseInv /\ [Next]_vars => LeaseInv' /\ [TL!LeaseNext]_(TL!leaseVars)
    BY LeaseStep, NextInv DEF LeaseInv
<1> QED
    BY <1>1, <1>2, PTL DEF Spec, ImplementsTaskLease, TL!LeaseSpec
-----------------------------------------------------------------------------
(* Each occurrence is executed once *)

\* A run takes the slot it was claimed for, and a tick that found the task due is about
\* to; a slot is ahead when it ended before the cursor came to it, as an old row may say.
Took(r) == run[r].slot # NoSlot
Pending(p) == sched[p].step \in {"dispatch", "claim"}
Ahead(r) ==
    /\ run[r].status \in Terminal
    /\ \A q \in RunId : q # r => run[q].slot < run[r].slot
    /\ \A p \in Proc : Pending(p) => sched[p].slot < run[r].slot

\* No tick and no run is for a slot of the future, save one that is ahead.
TicksKnown ==
    \A p \in Proc :
        /\ sched[p].at <= now
        /\ Pending(p) => sched[p].slot # NoSlot /\ sched[p].slot <= sched[p].at
RunsKnown ==
    \A r \in RunId :
        /\ Took(r) <=> run[r].status # "none" /\ run[r].origin = "scheduled"
        /\ Took(r) => run[r].key[2] = run[r].slot /\ (run[r].slot <= now \/ Ahead(r))
        /\ run[r].archived => run[r].status \in Terminal

\* A slot belongs to one revision, in the runs that took it and the ticks that may.
OneRevision ==
    /\ \A r, q \in RunId : Took(r) /\ run[r].slot = run[q].slot => run[r].key[1] = run[q].key[1]
    /\ \A p \in Proc, r \in RunId :
           Pending(p) /\ run[r].slot = sched[p].slot => run[r].key[1] = sched[p].rev
    /\ \A p, o \in Proc :
           Pending(p) /\ Pending(o) /\ sched[p].slot = sched[o].slot => sched[p].rev = sched[o].rev

\* The cursor is behind no slot that was taken: it is past it, or it stands at the slot of
\* the current revision while a tick or a run is at work on it, or the slot is ahead.
CursorKnown ==
    task.cursor # NoSlot =>
        /\ \A p \in Proc : Pending(p) =>
               \/ sched[p].slot < task.cursor
               \/ sched[p].slot = task.cursor /\ sched[p].rev = task.rev
        /\ \A r \in RunId : Took(r) =>
               \/ run[r].slot < task.cursor
               \/ /\ run[r].slot = task.cursor /\ run[r].status = "running"
                  /\ run[r].key[1] = task.rev
               \/ Ahead(r)

\* Of two runs of one slot one gave its key away.
OnceEach ==
    \A r, q \in RunId :
        /\ r # q /\ run[r].slot # NoSlot /\ run[r].slot = run[q].slot
        => run[r].archived \/ run[q].archived

SlotInv == TicksKnown /\ RunsKnown /\ OneRevision /\ CursorKnown /\ OnceEach

\* What a step may do to a row: keep what names it and its end, or enter it, for a
\* portal request or for the slot of a tick whose key is free.
KeptRow(r) ==
    /\ run'[r].slot = run[r].slot /\ run'[r].key = run[r].key /\ run'[r].origin = run[r].origin
    /\ run'[r].status = "none" <=> run[r].status = "none"
    /\ run[r].status \in Terminal => run'[r].status \in Terminal
    /\ run[r].archived => run'[r].archived
    /\ run'[r].archived => run'[r].status \in Terminal
ManualRow(r) ==
    /\ run[r].status = "none" /\ run'[r].status # "none"
    /\ run'[r].slot = NoSlot /\ run'[r].origin = "manual" /\ ~run'[r].archived
TakenRow(r, p) ==
    /\ run[r].status = "none" /\ run'[r].status # "none" /\ Pending(p)
    /\ run'[r].slot = sched[p].slot /\ run'[r].key = SlotKey(sched[p].rev, sched[p].slot)
    /\ run'[r].origin = "scheduled" /\ ~run'[r].archived
    /\ \A q \in RunId :
           q # r /\ run'[q].slot # NoSlot /\ run'[q].key = run'[r].key => run'[q].archived
RowsStep == \A r \in RunId : KeptRow(r) \/ ManualRow(r) \/ \E p \in Proc : TakenRow(r, p)

\* What it may do to the ticks: drop them, or pass them on.
TicksStep ==
    \A p \in Proc :
        /\ sched'[p].at <= now'
        /\ sched'[p].step \in {"dispatch", "claim"} =>
               /\ Pending(p) /\ sched'[p].at = sched[p].at
               /\ sched'[p].slot = sched[p].slot /\ sched'[p].rev = sched[p].rev

\* And to the cursor: clear it, move it into the future, or leave it where it is, while
\* no run of a slot ends.
CursorStep ==
    \/ task'.cursor = NoSlot \/ task'.cursor > now'
    \/ /\ task'.cursor = task.cursor /\ task'.rev = task.rev
       /\ \A r \in RunId :
              run'[r].slot # NoSlot /\ run[r].status \notin Terminal => run'[r].status = "running"

\* The numbers the slots are compared by.
Numbers ==
    /\ now \in Nat /\ task.cursor \in Nat
    /\ \A r \in RunId : run[r].slot \in Nat /\ run[r].key \in Nat \X Nat
    /\ \A p \in Proc : sched[p].at \in Nat /\ sched[p].slot \in Nat /\ sched[p].rev \in Nat
LEMMA TypedNumbers == TypeOK => Numbers
BY DEF TypeOK, TaskRow, RunRow, Numbers, Revision

\* A step of this shape keeps a slot ahead.
LEMMA AheadKept ==
    ASSUME SlotInv, Numbers, Numbers', RowsStep, TicksStep, NEW r \in RunId, Ahead(r), Took(r)
    PROVE  Ahead(r)' /\ KeptRow(r)
<1>1. run[r].status \in Terminal /\ run[r].status # "none"
    BY DEF Ahead, Terminal
<1>2. KeptRow(r)
    BY <1>1 DEF RowsStep, ManualRow, TakenRow
<1>3. \A p \in Proc : Pending(p)' => sched'[p].slot < run'[r].slot
    BY <1>2 DEF TicksStep, Pending, Ahead, KeptRow
<1>4. ASSUME NEW q \in RunId, q # r PROVE run'[q].slot < run'[r].slot
    <2>1. CASE KeptRow(q)
        BY <1>2, <1>4, <2>1 DEF KeptRow, Ahead
    <2>2. CASE ManualRow(q)
        BY <1>2, <2>2 DEF KeptRow, ManualRow, Took, NoSlot, Numbers
    <2>3. ASSUME NEW p \in Proc, TakenRow(q, p) PROVE run'[q].slot < run'[r].slot
        BY <1>2, <2>3 DEF KeptRow, TakenRow, Ahead
    <2> QED
        BY <2>1, <2>2, <2>3 DEF RowsStep
<1> QED
    BY <1>1, <1>2, <1>3, <1>4 DEF Ahead, KeptRow

\* A row after the step: as it was, without a slot, or with the slot of a tick.
LEMMA AfterRow ==
    ASSUME SlotInv, Numbers, RowsStep, NEW r \in RunId, run'[r].slot # NoSlot
    PROVE  \/ KeptRow(r) /\ Took(r)
           \/ /\ ~Took(r) /\ \E p \in Proc : TakenRow(r, p)
<1>1. KeptRow(r) => Took(r)
    BY DEF KeptRow, Took
<1>2. ~ManualRow(r)
    BY DEF ManualRow
<1>3. ASSUME NEW p \in Proc, TakenRow(r, p) PROVE ~Took(r)
    BY <1>3 DEF TakenRow, SlotInv, RunsKnown
<1> QED
    BY <1>1, <1>2, <1>3 DEF RowsStep

\* Ticks and rows of this shape keep what is known of them.
LEMMA KnownStep ==
    ASSUME SlotInv, Numbers, Numbers', RowsStep, TicksStep, now' >= now
    PROVE  TicksKnown' /\ RunsKnown'
<1>1. TicksKnown'
    BY DEF SlotInv, TicksKnown, TicksStep, Pending
<1>2. ASSUME NEW r \in RunId
      PROVE  /\ Took(r)' <=> run'[r].status # "none" /\ run'[r].origin = "scheduled"
             /\ Took(r)' => run'[r].key[2] = run'[r].slot /\ (run'[r].slot <= now' \/ Ahead(r)')
             /\ run'[r].archived => run'[r].status \in Terminal
    <2>1. CASE KeptRow(r)
        <3>1. Took(r)' <=> Took(r)
            BY <2>1 DEF KeptRow, Took
        <3>2. Took(r) => run[r].key[2] = run[r].slot /\ (run[r].slot <= now \/ Ahead(r))
            BY DEF SlotInv, RunsKnown
        <3>3. Took(r) => run'[r].slot <= now' \/ Ahead(r)'
            BY <2>1, <3>2, AheadKept DEF KeptRow, Numbers
        <3> QED
            BY <2>1, <3>1, <3>2, <3>3 DEF KeptRow, SlotInv, RunsKnown
    <2>2. CASE ManualRow(r)
        BY <2>2 DEF ManualRow, Took
    <2>3. ASSUME NEW p \in Proc, TakenRow(r, p)
          PROVE  /\ Took(r)' /\ run'[r].status # "none" /\ run'[r].origin = "scheduled"
                 /\ run'[r].key[2] = run'[r].slot /\ run'[r].slot <= now' /\ ~run'[r].archived
        <3>1. sched[p].slot # NoSlot /\ sched[p].slot <= now
            BY <2>3 DEF SlotInv, TicksKnown, TakenRow, Numbers
        <3> QED
            BY <2>3, <3>1 DEF TakenRow, SlotKey, Took, Numbers
    <2> QED
        BY <2>1, <2>2, <2>3 DEF RowsStep
<1> QED
    BY <1>1, <1>2 DEF RunsKnown

\* No slot gets a second revision, nor a second run that keeps its key.
LEMMA RevisionStep ==
    ASSUME SlotInv, Numbers, Numbers', RowsStep, TicksStep, now' >= now
    PROVE  OneRevision' /\ OnceEach'
<1>1. ASSUME NEW r \in RunId, NEW q \in RunId, run'[r].slot # NoSlot, run'[r].slot = run'[q].slot
      PROVE  run'[r].key[1] = run'[q].key[1]
    <2>1. CASE KeptRow(r) /\ KeptRow(q)
        BY <1>1, <2>1 DEF KeptRow, SlotInv, OneRevision, Took
    <2>2. ASSUME NEW p \in Proc, TakenRow(r, p), KeptRow(q) PROVE run'[r].key[1] = run'[q].key[1]
        <3>1. Pending(p) /\ run'[r].slot = sched[p].slot /\ run'[r].key[1] = sched[p].rev
            BY <2>2 DEF TakenRow, SlotKey
        <3>2. run[q].slot = run'[q].slot /\ run[q].key = run'[q].key
            BY <2>2 DEF KeptRow
        <3> QED
            BY <1>1, <3>1, <3>2 DEF SlotInv, OneRevision
    <2>3. ASSUME NEW p \in Proc, TakenRow(q, p), KeptRow(r) PROVE run'[r].key[1] = run'[q].key[1]
        BY <1>1, <2>3 DEF KeptRow, TakenRow, SlotKey, SlotInv, OneRevision
    <2>4. ASSUME NEW p \in Proc, NEW o \in Proc, TakenRow(r, p), TakenRow(q, o)
          PROVE  run'[r].key[1] = run'[q].key[1]
        BY <1>1, <2>4 DEF TakenRow, SlotKey, SlotInv, OneRevision
    <2> QED
        BY <1>1, <2>1, <2>2, <2>3, <2>4, AfterRow
<1>2. ASSUME NEW p \in Proc, NEW r \in RunId, Pending(p)', run'[r].slot = sched'[p].slot
      PROVE  run'[r].key[1] = sched'[p].rev
    <2>1. /\ Pending(p) /\ sched[p].slot # NoSlot
          /\ sched'[p].slot = sched[p].slot /\ sched'[p].rev = sched[p].rev
        BY <1>2 DEF TicksStep, Pending, SlotInv, TicksKnown
    <2>2. CASE KeptRow(r)
        BY <1>2, <2>1, <2>2 DEF KeptRow, SlotInv, OneRevision
    <2>3. ASSUME NEW o \in Proc, TakenRow(r, o) PROVE run'[r].key[1] = sched'[p].rev
        BY <1>2, <2>1, <2>3 DEF TakenRow, SlotKey, SlotInv, OneRevision
    <2> QED
        BY <1>2, <2>1, <2>2, <2>3, AfterRow
<1>3. \A p, o \in Proc : Pending(p)' /\ Pending(o)' /\ sched'[p].slot = sched'[o].slot
          => sched'[p].rev = sched'[o].rev
    BY DEF TicksStep, Pending, SlotInv, OneRevision
<1>4. ASSUME NEW r \in RunId, NEW q \in RunId, r # q, run'[r].slot # NoSlot,
             run'[r].slot = run'[q].slot
      PROVE  run'[r].archived \/ run'[q].archived
    <2>1. CASE KeptRow(r) /\ KeptRow(q)
        BY <1>4, <2>1 DEF KeptRow, SlotInv, OnceEach
    <2>2. run'[r].key = run'[q].key
        <3>1. run'[r].key[1] = run'[q].key[1]
            BY <1>1, <1>4
        <3>2. run'[r].key[2] = run'[r].slot /\ run'[q].key[2] = run'[q].slot
            BY <1>4, KnownStep DEF RunsKnown, Took
        <3>3. run'[r].key \in Nat \X Nat /\ run'[q].key \in Nat \X Nat
            BY DEF Numbers
        <3> QED
            BY <3>1, <3>2, <3>3, <1>4
    <2>3. ASSUME NEW p \in Proc, TakenRow(r, p) PROVE run'[q].archived
        BY <1>4, <2>2, <2>3 DEF TakenRow
    <2>4. ASSUME NEW p \in Proc, TakenRow(q, p) PROVE run'[r].archived
        BY <1>4, <2>2, <2>4 DEF TakenRow
    <2> QED
        BY <1>4, <2>1, <2>3, <2>4, AfterRow
<1> QED
    BY <1>1, <1>2, <1>3, <1>4 DEF OneRevision, OnceEach, Took

\* Nor does the cursor come back to a slot that was taken.
LEMMA SlotStep ==
    ASSUME SlotInv, Numbers, Numbers', RowsStep, TicksStep, CursorStep, now' >= now
    PROVE  SlotInv'
<1>1. TicksKnown' /\ RunsKnown' /\ OneRevision' /\ OnceEach'
    BY KnownStep, RevisionStep
<1>2. ASSUME task'.cursor = NoSlot PROVE CursorKnown'
    BY <1>2 DEF CursorKnown
<1>3. ASSUME task'.cursor > now' PROVE CursorKnown'
    <2>1. \A p \in Proc : Pending(p)' => sched'[p].slot < task'.cursor
        BY <1>1, <1>3 DEF TicksKnown, Numbers
    <2>2. \A r \in RunId : Took(r)' => run'[r].slot < task'.cursor \/ Ahead(r)'
        BY <1>1, <1>3 DEF RunsKnown, Numbers
    <2> QED
        BY <2>1, <2>2 DEF CursorKnown
<1>4. ASSUME task'.cursor = task.cursor, task'.rev = task.rev, task.cursor # NoSlot,
             \A r \in RunId : run'[r].slot # NoSlot /\ run[r].status \notin Terminal
                                 => run'[r].status = "running"
      PROVE  CursorKnown'
    <2>1. \A p \in Proc : Pending(p)' =>
              \/ sched'[p].slot < task'.cursor
              \/ sched'[p].slot = task'.cursor /\ sched'[p].rev = task'.rev
        BY <1>4 DEF TicksStep, Pending, SlotInv, CursorKnown
    <2>2. ASSUME NEW r \in RunId, Took(r)'
          PROVE  \/ run'[r].slot < task'.cursor
                 \/ /\ run'[r].slot = task'.cursor /\ run'[r].status = "running"
                    /\ run'[r].key[1] = task'.rev
                 \/ Ahead(r)'
        <3>1. CASE KeptRow(r) /\ Took(r)
            <4>1. \/ run[r].slot < task.cursor
                  \/ /\ run[r].slot = task.cursor /\ run[r].status = "running"
                     /\ run[r].key[1] = task.rev
                  \/ Ahead(r)
                BY <1>4, <3>1 DEF SlotInv, CursorKnown
            <4>2. CASE Ahead(r)
                BY <3>1, <4>2, AheadKept
            <4>3. run[r].status = "running" => run'[r].status = "running"
                BY <1>4, <2>2 DEF Took, Terminal
            <4> QED
                BY <1>4, <3>1, <4>1, <4>2, <4>3 DEF KeptRow
        <3>2. ASSUME NEW p \in Proc, TakenRow(r, p)
              PROVE  \/ run'[r].slot < task'.cursor
                     \/ /\ run'[r].slot = task'.cursor /\ run'[r].status = "running"
                        /\ run'[r].key[1] = task'.rev
            <4>1. \/ sched[p].slot < task.cursor
                  \/ sched[p].slot = task.cursor /\ sched[p].rev = task.rev
                BY <1>4, <3>2 DEF TakenRow, SlotInv, CursorKnown
            <4>2. run'[r].status = "running"
                BY <1>4, <2>2, <3>2 DEF TakenRow, Took, Terminal
            <4> QED
                BY <1>4, <3>2, <4>1, <4>2 DEF TakenRow, SlotKey
        <3> QED
            BY <2>2, <3>1, <3>2, AfterRow DEF Took
    <2> QED
        BY <2>1, <2>2 DEF CursorKnown
<1>5. CursorKnown'
    BY <1>2, <1>3, <1>4 DEF CursorStep
<1> QED
    BY <1>1, <1>5 DEF SlotInv
-----------------------------------------------------------------------------
(* Each action is a step of this shape, but for the listing of the due task *)

\* A key that no run is the latest of is no run's key.
LEMMA LatestExists ==
    ASSUME NEW k, \A r \in RunId : ~IsLatest(r, k)
    PROVE  \A r \in RunId : run[r].status # "none" => run[r].key # k
<1> DEFINE S == {r \in RunId : run[r].status # "none" /\ run[r].key = k}
           Later(r) == {q \in S : q > r}
           T == {Later(r) : r \in S}
<1> SUFFICES ASSUME S # {} PROVE FALSE
    OBVIOUS
<1>1. IsFiniteSet(RunId)
    BY Constants, FS_Interval DEF RunId
<1>2. T \subseteq FiniteSubsetsOf(RunId) /\ T # {}
    <2>1. ASSUME NEW r \in S PROVE Later(r) \in SUBSET RunId /\ IsFiniteSet(Later(r))
        BY <1>1, FS_Subset
    <2> QED
        BY <2>1 DEF FiniteSubsetsOf
<1>3. PICK x \in T : \A y \in T : <<y, x>> \notin StrictSubsetOrdering(RunId)
    <2> HIDE DEF T
    <2> QED
        BY <1>2, FS_StrictSubsetOrderingWellFounded, WFMin
<1>4. PICK r \in S : x = Later(r)
    OBVIOUS
<1>5. r \in RunId /\ S \subseteq RunId /\ RunId \subseteq Nat
    BY DEF RunId
<1>6. PICK q \in S : q > r
    <2>1. ~IsLatest(r, k)
        BY <1>5
    <2> QED
        BY <1>4, <2>1 DEF IsLatest
<1>7. Later(q) \subseteq Later(r) /\ q \in Later(r) /\ q \notin Later(q)
    <2>1. q \in Nat /\ r \in Nat /\ S \subseteq Nat
        BY <1>5
    <2>2. q \in S /\ q > r
        BY <1>6
    <2> HIDE DEF S
    <2>3. \A a \in S : a > q => a > r
        BY <2>1, <2>2
    <2>4. ~(q > q)
        BY <2>1
    <2> QED
        BY <2>2, <2>3, <2>4
<1>8. <<Later(q), Later(r)>> \in StrictSubsetOrdering(RunId)
    BY <1>5, <1>7 DEF StrictSubsetOrdering
<1> QED
    BY <1>3, <1>4, <1>8

\* A row that does not change is kept.
LEMMA SameRow ==
    ASSUME SlotInv, NEW r \in RunId, run'[r] = run[r]
    PROVE  KeptRow(r)
BY DEF KeptRow, SlotInv, RunsKnown

\* The cursor of a task that is not active is clear, and a success, a failure and a
\* reconciliation move the cursor of an active one into the future.
LEMMA SuccessCursor ==
    ASSUME NEW t, WellFormed(t), NEW v \in Revision, NEW at \in Nat
    PROVE  AfterSuccess(t, v, at).cursor = NoSlot \/ AfterSuccess(t, v, at).cursor > at
<1> DEFINE c == IF t.status = "active" THEN NextRunAt(v, at) ELSE t.cursor
<1>1. AfterSuccess(t, v, at).cursor = c
    BY DEF AfterSuccess, WellFormed, TaskRow
<1>2. c = NoSlot \/ c > at
    BY NextRunAtLater DEF WellFormed
<1> QED
    BY <1>1, <1>2
LEMMA FailureCursor ==
    ASSUME NEW t, WellFormed(t), NEW next
    PROVE  AfterFailure(t, next).cursor = NoSlot \/ AfterFailure(t, next).cursor = next
BY DEF AfterFailure, WellFormed, TaskRow
LEMMA ReconciledCursor ==
    ASSUME NEW t, WellFormed(t), NEW r \in RunId, NEW at \in Nat, run[r].rev \in Revision
    PROVE  \/ Reconciled(t, r, at).cursor = NoSlot \/ Reconciled(t, r, at).cursor > at
           \/ Reconciled(t, r, at) = t
<1>1. NextRunAt(run[r].rev, at) > at
    BY NextRunAtLater
<1> QED
    BY <1>1 DEF Reconciled, WellFormed, TaskRow

\* Recovery ends at most the running run, and moves the cursor if it was for a slot.
LEMMA SettledRow ==
    ASSUME Inv, SlotInv, NEW r \in RunId, run'[r] = SettledRuns[r]
    PROVE  KeptRow(r)
<1>1. run[r] \in RunRow
    BY DEF Inv, TypeOK
<1>2. CASE r \notin Expired
    BY <1>2, SameRow DEF SettledRuns
<1>3. CASE r \in Expired
    <2>1. run'[r] = RecoveredRun(r) /\ run[r].status = "running"
        BY <1>3 DEF SettledRuns, Expired, Active
    <2>2. ~run[r].archived
        BY <2>1 DEF SlotInv, RunsKnown, Terminal
    <2> QED
        BY <1>1, <2>1, <2>2 DEF RecoveredRun, RunRow, KeptRow, Terminal
<1> QED
    BY <1>2, <1>3
LEMMA SettledCursor ==
    ASSUME Inv, SlotInv
    PROVE  \/ SettledTask.cursor = NoSlot \/ SettledTask.cursor > now
           \/ /\ SettledTask.cursor = task.cursor /\ SettledTask.rev = task.rev
              /\ \A r \in Expired : run[r].slot = NoSlot
<1>1. CASE Expired = {}
    BY <1>1 DEF SettledTask
<1>2. CASE Expired # {}
    <2> DEFINE e == CHOOSE r \in Expired : TRUE
    <2>1. e \in Expired /\ SettledTask = RecoveredTask(e)
        BY <1>2 DEF SettledTask
    <2> HIDE DEF e
    <2>2. e \in RunId /\ \A r \in Expired : r = e
        BY <2>1 DEF Expired, Active, Inv, Rows, AtMostOne
    <2>3. now \in Nat /\ run[e] \in RunRow /\ WellFormed(task)
        BY <2>2 DEF Inv, Rows, TypeOK
    <2> DEFINE t == Released(task, e)
    <2>4. WellFormed(t) /\ t.cursor = task.cursor /\ t.rev = task.rev
        BY <2>2, <2>3, ReleasedRow DEF Released, WellFormed, TaskRow
    <2> HIDE DEF t
    <2>5. CASE run[e].origin # "scheduled"
        <3>1. SettledTask = t
            BY <2>1, <2>5 DEF RecoveredTask, t
        <3>2. run[e].slot = NoSlot
            BY <2>2, <2>5 DEF SlotInv, RunsKnown, Took
        <3> QED
            BY <3>1, <3>2, <2>2, <2>4
    <2>6. CASE run[e].origin = "scheduled" /\ run[e].published
        <3>1. SettledTask = AfterSuccess(t, run[e].rev, now)
            BY <2>1, <2>6 DEF RecoveredTask, t
        <3> QED
            BY <3>1, <2>3, <2>4, SuccessCursor DEF RunRow
    <2>7. CASE run[e].origin = "scheduled" /\ ~run[e].published
        <3>1. SettledTask = AfterFailure(t, now + RetryDelay)
            BY <2>1, <2>7 DEF RecoveredTask, t
        <3>2. now + RetryDelay > now
            BY <2>3, Constants
        <3> QED
            BY <3>1, <3>2, <2>4, FailureCursor
    <2> QED
        BY <2>5, <2>6, <2>7
<1> QED
    BY <1>1, <1>2

\* Recovery alone is a step of this shape, and so is a reconciliation after it.
LEMMA SettledShape ==
    ASSUME Inv, SlotInv, now' = now, \A r \in RunId : run'[r] = SettledRuns[r],
           \/ task' = SettledTask
           \/ \E r \in RunId : task' = Reconciled(SettledTask, r, now)
    PROVE  RowsStep /\ CursorStep
<1>1. \A r \in RunId : KeptRow(r)
    BY SettledRow
<1>2. ASSUME \A r \in Expired : run[r].slot = NoSlot, NEW r \in RunId,
             run'[r].slot # NoSlot, run[r].status \notin Terminal
      PROVE  run'[r].status = "running"
    <2>1. run[r].slot # NoSlot /\ r \notin Expired /\ run'[r] = run[r]
        BY <1>1, <1>2 DEF KeptRow, SettledRuns
    <2>2. run[r].status # "none" /\ run[r] \in RunRow
        BY <2>1 DEF SlotInv, RunsKnown, Took, Inv, TypeOK
    <2> QED
        BY <1>2, <2>1, <2>2 DEF RunRow, Terminal
<1>3. CASE task' = SettledTask
    BY <1>1, <1>2, <1>3, SettledCursor DEF RowsStep, CursorStep
<1>4. ASSUME NEW r \in RunId, task' = Reconciled(SettledTask, r, now) PROVE CursorStep
    <2>1. WellFormed(SettledTask) /\ now \in Nat /\ run[r].rev \in Revision
        BY Settling DEF Rows, Inv, TypeOK, RunRow
    <2>2. task'.cursor = NoSlot \/ task'.cursor > now \/ task' = SettledTask
        BY <1>4, <2>1, ReconciledCursor
    <2> QED
        BY <1>2, <2>2, SettledCursor DEF CursorStep
<1> QED
    BY <1>1, <1>3, <1>4 DEF RowsStep

\* Rows that keep their status are a step of this shape, whatever becomes of the cursor.
LEMMA SameShape ==
    ASSUME Inv, SlotInv, \A r \in RunId : run'[r] = run[r],
           \/ task'.cursor = NoSlot \/ task'.cursor > now'
           \/ task'.cursor = task.cursor /\ task'.rev = task.rev
    PROVE  RowsStep /\ CursorStep
<1>1. ASSUME NEW r \in RunId, run'[r].slot # NoSlot, run[r].status \notin Terminal
      PROVE  run'[r].status = "running"
    <2>1. run[r].status # "none" /\ run[r] \in RunRow
        BY <1>1 DEF SlotInv, RunsKnown, Took, Inv, TypeOK
    <2> QED
        BY <1>1, <2>1 DEF RunRow, Terminal
<1> QED
    BY <1>1, SameRow DEF RowsStep, CursorStep

\* A claim that starts nothing.
LEMMA DeclinesShape ==
    ASSUME Inv, SlotInv, now' = now, NEW o, NEW k, NEW s, ClaimDeclines(o, k, s)
    PROVE  RowsStep /\ CursorStep
<1>1. CASE ClaimJoins
    <2>1. PICK r \in Live :
            IF task.holder = NoRun
            THEN /\ task' = [task EXCEPT !.holder = r, !.until = now + Lease]
                 /\ run' = [run EXCEPT ![r].until = now + Lease]
            ELSE UNCHANGED <<task, run>>
        BY <1>1 DEF ClaimJoins
    <2>2. task'.cursor = task.cursor /\ task'.rev = task.rev
        BY <2>1 DEF Inv, TypeOK, TaskRow
    <2>3. \A q \in RunId :
              /\ run'[q].slot = run[q].slot /\ run'[q].key = run[q].key
              /\ run'[q].origin = run[q].origin /\ run'[q].status = run[q].status
              /\ run'[q].archived = run[q].archived
        BY <2>1 DEF Inv, TypeOK, RunRow
    <2>4. \A q \in RunId : KeptRow(q)
        BY <2>3 DEF KeptRow, SlotInv, RunsKnown
    <2>5. ASSUME NEW q \in RunId, run'[q].slot # NoSlot, run[q].status \notin Terminal
          PROVE  run'[q].status = "running"
        <3>1. run[q].status # "none" /\ run[q] \in RunRow
            BY <2>3, <2>5 DEF SlotInv, RunsKnown, Took, Inv, TypeOK
        <3> QED
            BY <2>3, <2>5, <3>1 DEF RunRow, Terminal
    <2> QED
        BY <2>2, <2>4, <2>5 DEF RowsStep, CursorStep
<1>2. CASE ClaimReplays(k)
    BY <1>2, SettledShape DEF ClaimReplays
<1>3. CASE UNCHANGED <<task, run>>
    BY <1>3, SameShape
<1> QED
    BY <1>1, <1>2, <1>3 DEF ClaimDeclines

\* A claim that starts a run, for a request or for the slot of a tick.
LEMMA StartsShape ==
    ASSUME Inv, SlotInv, now' = now, NEW p \in Proc, NEW o, NEW k, NEW s, NEW d,
           ClaimStarts(p, o, k, s, d),
           \/ o = "manual" /\ s = NoSlot
           \/ /\ o = "scheduled" /\ Pending(p)
              /\ s = sched[p].slot /\ k = SlotKey(sched[p].rev, sched[p].slot)
    PROVE  RowsStep /\ CursorStep
<1> DEFINE n == [NoRow EXCEPT !.status = "running", !.origin = o, !.key = k, !.slot = s,
                              !.rev = task.rev, !.until = now + Lease, !.deadline = now + d]
<1>1. PICK r \in RunId :
        /\ IsFresh(r)
        /\ run' = [SettledRuns EXCEPT ![r] = n]
        /\ task' = [SettledTask EXCEPT !.holder = r, !.until = now + Lease]
    BY DEF ClaimStarts
<1>2. /\ n.status = "running" /\ n.origin = o /\ n.key = k /\ n.slot = s /\ ~n.archived
    BY DEF NoRow
<1> HIDE DEF n
<1>3. SettledRuns \in [RunId -> RunRow] /\ SettledTask \in TaskRow
    BY Settling DEF Rows, WellFormed
<1>4. run'[r] = n /\ \A q \in RunId : q # r => run'[q] = SettledRuns[q]
    BY <1>1, <1>3
<1>5. \A q \in RunId : q # r => KeptRow(q)
    BY <1>4, SettledRow
<1>6. run[r].status = "none"
    BY <1>1 DEF IsFresh
<1>7. ManualRow(r) \/ TakenRow(r, p)
    <2>1. CASE o = "manual" /\ s = NoSlot
        BY <1>2, <1>4, <1>6, <2>1 DEF ManualRow
    <2>2. CASE /\ o = "scheduled" /\ Pending(p)
               /\ s = sched[p].slot /\ k = SlotKey(sched[p].rev, sched[p].slot)
        <3>1. ASSUME NEW q \in RunId, q # r, run'[q].slot # NoSlot, run'[q].key = k
              PROVE  run'[q].archived
            <4>1. run[q].slot # NoSlot /\ run[q].key = k
                BY <1>5, <3>1 DEF KeptRow
            <4>2. run[q].status # "none"
                BY <4>1 DEF SlotInv, RunsKnown, Took
            <4> QED
                BY <1>4, <3>1, <4>1, <4>2 DEF ClaimStarts, MayInsert, KeyTaken
        <3> QED
            BY <1>2, <1>4, <1>6, <2>2, <3>1 DEF TakenRow
    <2> QED
        BY <2>1, <2>2
<1>8. CursorStep
    <2>1. task'.cursor = SettledTask.cursor /\ task'.rev = SettledTask.rev
        BY <1>1, <1>3 DEF TaskRow
    <2>2. ASSUME \A q \in Expired : run[q].slot = NoSlot, NEW q \in RunId,
                 run'[q].slot # NoSlot, run[q].status \notin Terminal
          PROVE  run'[q].status = "running"
        <3>1. CASE q = r
            BY <1>2, <1>4, <3>1
        <3>2. CASE q # r
            <4>1. run[q].slot # NoSlot /\ q \notin Expired
                BY <1>5, <2>2, <3>2 DEF KeptRow
            <4>2. run'[q] = run[q] /\ run[q].status # "none" /\ run[q] \in RunRow
                BY <1>4, <3>2, <4>1 DEF SettledRuns, SlotInv, RunsKnown, Took, Inv, TypeOK
            <4> QED
                BY <2>2, <4>2 DEF RunRow, Terminal
        <3> QED
            BY <3>1, <3>2
    <2> QED
        BY <2>1, <2>2, SettledCursor DEF CursorStep
<1> QED
    BY <1>5, <1>7, <1>8 DEF RowsStep

\* A slot that waited too long.
LEMMA ExpireShape ==
    ASSUME Inv, SlotInv, now' = now, NEW p \in Proc, ExpireSlot(p)
    PROVE  RowsStep /\ CursorStep
<1> DEFINE v == sched[p].rev
           s == sched[p].slot
           k == SlotKey(v, s)
<1>0. v \in Revision /\ now \in Nat /\ Pending(p)
    BY DEF ExpireSlot, Pending, Inv, TypeOK
<1>1. ASSUME MayExpire(v, s), NEW r \in RunId, IsFresh(r),
             run' = [run EXCEPT ![r] = [NoRow EXCEPT !.status = "failed",
                        !.origin = "scheduled", !.key = k, !.slot = s, !.rev = v]],
             task' = AfterFailure([task EXCEPT !.holder = NoRun, !.until = 0], NextRunAt(v, now))
      PROVE  RowsStep /\ CursorStep
    <2>1. /\ run'[r].status = "failed" /\ run'[r].origin = "scheduled" /\ run'[r].key = k
          /\ run'[r].slot = s /\ ~run'[r].archived
          /\ \A q \in RunId : q # r => run'[q] = run[q]
        BY <1>1 DEF Inv, TypeOK, NoRow
    <2>2. \A q \in RunId : run[q].status # "none" => run[q].key # k
        <3> HIDE DEF k
        <3> QED
            BY <1>1, LatestExists DEF MayExpire, k
    <2>3. ASSUME NEW q \in RunId, q # r, run'[q].slot # NoSlot, run'[q].key = k PROVE FALSE
        <3>1. run[q].slot # NoSlot /\ run[q].key = k
            BY <2>1, <2>3
        <3> QED
            BY <2>2, <3>1 DEF SlotInv, RunsKnown, Took
    <2>4. TakenRow(r, p)
        BY <1>0, <1>1, <2>1, <2>3 DEF TakenRow, IsFresh
    <2>5. \A q \in RunId : q # r => KeptRow(q)
        BY <2>1, SameRow
    <2>6. CursorStep
        <3> DEFINE t == WithLock(task, NoRun, 0)
        <3>1. WellFormed(task) /\ NoRun \in RunId \cup {NoRun} /\ 0 \in Nat
            BY DEF Inv, Rows
        <3>2. WellFormed(t)
            BY <3>1, LockedRow
        <3>3. task' = AfterFailure(t, NextRunAt(v, now))
            BY <1>1 DEF WithLock
        <3> HIDE DEF t, v
        <3>4. task'.cursor = NoSlot \/ task'.cursor = NextRunAt(v, now)
            BY <3>2, <3>3, FailureCursor
        <3>5. NextRunAt(v, now) > now
            BY <1>0, NextRunAtLater
        <3> QED
            BY <3>4, <3>5 DEF CursorStep
    <2> QED
        BY <2>4, <2>5, <2>6 DEF RowsStep
<1>2. ASSUME NEW r \in RunId, task' = Reconciled(task, r, now), run' = run
      PROVE  RowsStep /\ CursorStep
    <2>1. WellFormed(task) /\ run[r].rev \in Revision
        BY DEF Inv, Rows, TypeOK, RunRow
    <2>2. task'.cursor = NoSlot \/ task'.cursor > now' \/ task' = task
        BY <1>0, <1>2, <2>1, ReconciledCursor
    <2> QED
        BY <1>2, <2>2, SameShape
<1>3. CASE UNCHANGED <<task, run>>
    BY <1>3, SameShape
<1> QED
    BY <1>1, <1>2, <1>3 DEF ExpireSlot

\* The report of a worker.
LEMMA FinishShape ==
    ASSUME Inv, SlotInv, NEW r \in RunId, NEW asked \in Terminal, FinishRun(r, asked)
    PROVE  RowsStep /\ CursorStep
<1>0. now' = now /\ now \in Nat /\ run[r] \in RunRow
    BY DEF FinishRun, Inv, TypeOK
<1>1. CASE ~OwnsLease(r)
    BY <1>1, SameShape DEF FinishRun
<1>2. CASE OwnsLease(r)
    <2> DEFINE final == FinalStatus(r, asked)
               t == Released(task, r)
    <2>1. /\ run' = [run EXCEPT ![r].status = final, ![r].until = 0] /\ final \in Terminal
          /\ task' = FinishedTask(r, final)
        BY <1>2 DEF FinishRun, FinalStatus, Terminal
    <2>2. WellFormed(t) /\ t.cursor = task.cursor /\ t.rev = task.rev
        BY ReleasedRow DEF Inv, Rows, Released, WellFormed, TaskRow
    <2>3. NextRunAt(run[r].rev, now) > now
        BY <1>0, NextRunAtLater DEF RunRow
    <2>4. FinishedTask(r, final) = IF run[r].origin # "scheduled" THEN t
            ELSE IF final = "succeeded" THEN AfterSuccess(t, run[r].rev, now)
            ELSE AfterFailure(t, NextRunAt(run[r].rev, now))
        BY DEF FinishedTask
    <2> HIDE DEF final, t
    <2>5. /\ run[r].status = "running" /\ run'[r].status = final
          /\ run'[r].slot = run[r].slot /\ run'[r].key = run[r].key
          /\ run'[r].origin = run[r].origin /\ run'[r].archived = run[r].archived
          /\ \A q \in RunId : q # r => run'[q] = run[q]
        BY <1>0, <1>2, <2>1 DEF OwnsLease, Inv, TypeOK, RunRow
    <2>6. KeptRow(r)
        BY <2>1, <2>5 DEF KeptRow, Terminal, SlotInv, RunsKnown
    <2>7. \A q \in RunId : KeptRow(q)
        BY <2>5, <2>6, SameRow
    <2>8. CASE run[r].origin # "scheduled"
        <3>1. task'.cursor = task.cursor /\ task'.rev = task.rev
            BY <2>1, <2>2, <2>4, <2>8
        <3>2. run'[r].slot = NoSlot
            BY <2>5, <2>8 DEF SlotInv, RunsKnown, Took
        <3>3. ASSUME NEW q \in RunId, run'[q].slot # NoSlot, run[q].status \notin Terminal
              PROVE  run'[q].status = "running"
            <4>1. run'[q] = run[q]
                BY <2>5, <3>2, <3>3
            <4>2. run[q].status # "none" /\ run[q] \in RunRow
                BY <3>3, <4>1 DEF SlotInv, RunsKnown, Took, Inv, TypeOK
            <4> QED
                BY <3>3, <4>1, <4>2 DEF RunRow, Terminal
        <3> QED
            BY <2>7, <3>1, <3>3 DEF RowsStep, CursorStep
    <2>9. CASE run[r].origin = "scheduled"
        <3>1. CASE final = "succeeded"
            <4>1. task' = AfterSuccess(t, run[r].rev, now)
                BY <2>1, <2>4, <2>9, <3>1
            <4> QED
                BY <1>0, <2>2, <2>7, <4>1, SuccessCursor DEF RowsStep, CursorStep, RunRow
        <3>2. CASE final # "succeeded"
            <4>1. task' = AfterFailure(t, NextRunAt(run[r].rev, now))
                BY <2>1, <2>4, <2>9, <3>2
            <4> QED
                BY <1>0, <2>2, <2>3, <2>7, <4>1, FailureCursor DEF RowsStep, CursorStep
        <3> QED
            BY <3>1, <3>2
    <2> QED
        BY <2>8, <2>9
<1> QED
    BY <1>1, <1>2

\* Ticks that go on, and a tick that is dropped, are a step of this shape.
LEMMA SameTicks ==
    ASSUME Inv, SlotInv, now' >= now, now' \in Nat, sched' = sched
    PROVE  TicksStep
<1>1. \A p \in Proc : sched[p].at \in Nat /\ now \in Nat
    BY DEF Inv, TypeOK
<1> QED
    BY <1>1 DEF TicksStep, Pending, SlotInv, TicksKnown
LEMMA DroppedTick ==
    ASSUME Inv, SlotInv, now' = now, NEW p \in Proc, sched' = [sched EXCEPT ![p] = IdleTick]
    PROVE  TicksStep
<1>1. sched'[p] = IdleTick /\ \A o \in Proc : o # p => sched'[o] = sched[o]
    BY DEF Inv, TypeOK
<1>2. IdleTick.step = "idle" /\ IdleTick.at = 0 /\ 0 <= now
    BY DEF IdleTick, Inv, TypeOK
<1> QED
    BY <1>1, <1>2 DEF TicksStep, Pending, SlotInv, TicksKnown

\* The listing: a slot that is ahead is passed over before a tick can take it, and what
\* the tick takes is the slot the cursor stands at.
LEMMA ListKeeps ==
    ASSUME Inv, SlotInv, Numbers', NEW p \in Proc, ListDue(p)
    PROVE  SlotInv'
<1> DEFINE at == sched[p].at
           tick == [sched[p] EXCEPT !.step = "dispatch", !.rev = task'.rev, !.slot = task'.cursor]
<1>0. Numbers
    BY TypedNumbers DEF Inv
<1>1. /\ now' = now /\ run' = run /\ ~Pending(p) /\ at \in Nat /\ at <= now
      /\ sched' = [sched EXCEPT ![p] =
             IF IsDue(task', at) /\ task'.rev \notin busy[p] THEN tick ELSE IdleTick]
    BY <1>0 DEF ListDue, Pending, Numbers, SlotInv, TicksKnown
<1>2. ASSUME sched' = [sched EXCEPT ![p] = IdleTick],
             task'.cursor = NoSlot \/ task'.cursor > now \/ task' = task
      PROVE  SlotInv'
    <2>1. TicksStep
        BY <1>1, <1>2, DroppedTick
    <2>2. RowsStep /\ CursorStep
        BY <1>1, <1>2, SameShape
    <2> QED
        BY <1>0, <1>1, <2>1, <2>2, SlotStep DEF Numbers
<1>3. ASSUME NEW r \in Reconcilable(at), task' = Reconciled(task, r, at), ~(task' = task),
             task'.cursor # NoSlot
      PROVE  /\ sched' = [sched EXCEPT ![p] = IdleTick] /\ task'.cursor > at
             /\ Took(r) /\ Ahead(r) /\ run[r].slot <= at
    <2>1. /\ r \in RunId /\ run[r].origin = "scheduled" /\ run[r].status \in Terminal
          /\ run[r].slot <= at /\ (task.status = "needs_attention" \/ task.cursor = run[r].slot)
        BY DEF Reconcilable
    <2>2. run[r].rev \in Revision /\ run[r].status # "none" /\ WellFormed(task)
        BY <2>1 DEF Inv, Rows, TypeOK, RunRow, Terminal
    <2>3. Took(r)
        BY <2>1, <2>2 DEF SlotInv, RunsKnown
    <2>4. task'.cursor > at
        BY <1>1, <1>3, <2>1, <2>2, ReconciledCursor
    <2>5. task.status # "needs_attention"
        BY <1>3, <2>1, <2>2 DEF Reconciled, WellFormed, TaskRow
    <2>6. Ahead(r)
        BY <1>0, <2>1, <2>3, <2>5 DEF SlotInv, CursorKnown, Took, Terminal, Numbers
    <2>7. ~IsDue(task', at)
        BY <1>1, <2>4, <1>0 DEF IsDue, Numbers
    <2> QED
        BY <1>1, <2>1, <2>3, <2>4, <2>6, <2>7
<1>4. ASSUME sched' = [sched EXCEPT ![p] = IdleTick], task'.cursor > at,
             NEW r \in RunId, Took(r), Ahead(r), run[r].slot <= at
      PROVE  SlotInv'
    <2>1. TicksStep
        BY <1>1, <1>4, DroppedTick
    <2>2. RowsStep
        BY <1>1, SameRow DEF RowsStep
    <2>3. TicksKnown' /\ RunsKnown' /\ OneRevision' /\ OnceEach'
        BY <1>0, <1>1, <2>1, <2>2, KnownStep, RevisionStep DEF Numbers
    <2>4. \A o \in Proc : Pending(o)' => sched'[o].slot < task'.cursor
        BY <1>0, <1>1, <1>4, <2>1 DEF TicksStep, Pending, Ahead, Numbers
    <2>5. \A q \in RunId : run'[q].slot < task'.cursor
        BY <1>0, <1>1, <1>4 DEF Ahead, Numbers
    <2> QED
        BY <2>3, <2>4, <2>5 DEF SlotInv, CursorKnown
<1>5. ASSUME sched' = [sched EXCEPT ![p] = tick], task' = task, IsDue(task, at) PROVE SlotInv'
    <2> DEFINE c == task.cursor
    <2>1. task.status = "active" /\ c # NoSlot /\ c <= at /\ c \in Nat
        BY <1>0, <1>5 DEF IsDue, Numbers
    <2>2. Reconcilable(at) = {}
        <3> SUFFICES ASSUME Reconcilable(at) # {} PROVE FALSE
            OBVIOUS
        <3>1. PICK r \in Reconcilable(at) : task = Reconciled(task, r, at)
            BY <1>5 DEF ListDue
        <3>2. /\ r \in RunId /\ run[r].origin = "scheduled" /\ run[r].status \in Terminal
              /\ c = run[r].slot
            BY <2>1 DEF Reconcilable
        <3>3. run[r].rev \in Revision
            BY <3>2 DEF Inv, TypeOK, RunRow
        <3>4. Reconciled(task, r, at) = [task EXCEPT !.cursor = NextRunAt(run[r].rev, at)]
            BY <2>1, <3>2 DEF Reconciled
        <3>5. task.cursor = NextRunAt(run[r].rev, at)
            BY <3>1, <3>4 DEF Inv, TypeOK, TaskRow
        <3>6. NextRunAt(run[r].rev, at) > at /\ NextRunAt(run[r].rev, at) \in Nat
            BY <1>1, <3>3, NextRunAtLater
        <3> QED
            BY <1>1, <2>1, <3>5, <3>6
    <2>3. /\ sched'[p].step = "dispatch" /\ sched'[p].slot = c /\ sched'[p].rev = task.rev
          /\ sched'[p].at = at
          /\ \A o \in Proc : o # p => sched'[o] = sched[o]
        BY <1>5 DEF Inv, TypeOK
    <2> HIDE DEF c
    <2>4. ASSUME NEW q \in RunId, Took(q), Ahead(q)
          PROVE  run[q].slot < c \/ Ahead(q)'
        <3>1. run[q].origin = "scheduled" /\ run[q].status \in Terminal
            BY <2>4 DEF SlotInv, RunsKnown, Ahead
        <3>2. run[q].slot # c
            BY <2>1, <2>2, <3>1 DEF Reconcilable, c
        <3>3. c < run[q].slot => Ahead(q)'
            BY <1>1, <2>3, <2>4 DEF Ahead, Pending
        <3> QED
            BY <1>0, <2>1, <3>2, <3>3 DEF Numbers
    <2>5. TicksKnown'
        BY <1>0, <1>1, <2>1, <2>3 DEF SlotInv, TicksKnown, Pending, Numbers
    <2>6. RunsKnown'
        <3>1. ASSUME NEW q \in RunId, Took(q), Ahead(q) PROVE run[q].slot <= now \/ Ahead(q)'
            BY <1>0, <1>1, <2>1, <2>4, <3>1 DEF Numbers
        <3> QED
            BY <1>1, <3>1 DEF SlotInv, RunsKnown, Took
    <2>7. CursorKnown'
        <3>1. ASSUME NEW o \in Proc, Pending(o)'
              PROVE  sched'[o].slot < c \/ (sched'[o].slot = c /\ sched'[o].rev = task.rev)
            BY <2>1, <2>3, <3>1 DEF SlotInv, CursorKnown, Pending, c
        <3>2. ASSUME NEW q \in RunId, Took(q)
              PROVE  \/ run[q].slot < c
                     \/ /\ run[q].slot = c /\ run[q].status = "running" /\ run[q].key[1] = task.rev
                     \/ Ahead(q)'
            BY <2>1, <2>4, <3>2 DEF SlotInv, CursorKnown, c
        <3> QED
            BY <1>1, <1>5, <3>1, <3>2 DEF CursorKnown, Took, c
    <2>8. OneRevision'
        <3>1. ASSUME NEW q \in RunId, run[q].slot = c PROVE run[q].key[1] = task.rev
            <4>1. Took(q) /\ ~(run[q].slot < c)
                BY <1>0, <2>1, <3>1 DEF Took, Numbers
            <4>2. ~Ahead(q)
                BY <2>1, <2>2, <3>1, <4>1 DEF Ahead, Reconcilable, SlotInv, RunsKnown, c
            <4> QED
                BY <2>1, <4>1, <4>2 DEF SlotInv, CursorKnown, c
        <3>2. ASSUME NEW o \in Proc, Pending(o), sched[o].slot = c PROVE sched[o].rev = task.rev
            BY <1>0, <2>1, <3>2 DEF SlotInv, CursorKnown, c, Numbers
        <3>3. \A r, q \in RunId :
                  Took(r)' /\ run'[r].slot = run'[q].slot => run'[r].key[1] = run'[q].key[1]
            BY <1>1 DEF SlotInv, OneRevision, Took
        <3>4. ASSUME NEW o \in Proc, NEW r \in RunId, Pending(o)', run'[r].slot = sched'[o].slot
              PROVE  run'[r].key[1] = sched'[o].rev
            BY <1>1, <2>3, <3>1, <3>4 DEF SlotInv, OneRevision, Pending
        <3>5. ASSUME NEW a \in Proc, NEW b \in Proc, Pending(a)', Pending(b)',
                     sched'[a].slot = sched'[b].slot
              PROVE  sched'[a].rev = sched'[b].rev
            BY <2>3, <3>2, <3>5 DEF SlotInv, OneRevision, Pending
        <3> QED
            BY <3>3, <3>4, <3>5 DEF OneRevision
    <2>9. OnceEach'
        BY <1>1 DEF SlotInv, OnceEach
    <2> QED
        BY <2>5, <2>6, <2>7, <2>8, <2>9 DEF SlotInv
<1>6. CASE task' = task
    <2>1. CASE IsDue(task', at) /\ task'.rev \notin busy[p]
        BY <1>1, <1>5, <1>6, <2>1
    <2>2. CASE ~(IsDue(task', at) /\ task'.rev \notin busy[p])
        BY <1>1, <1>2, <1>6, <2>2
    <2> QED
        BY <2>1, <2>2
<1>7. CASE task'.cursor = NoSlot
    BY <1>1, <1>2, <1>7 DEF IsDue
<1>8. CASE ~(task' = task) /\ task'.cursor # NoSlot
    <2>1. PICK r \in Reconcilable(at) : task' = Reconciled(task, r, at)
        BY <1>8 DEF ListDue
    <2>2. r \in RunId
        BY DEF Reconcilable
    <2> QED
        BY <1>3, <1>4, <1>8, <2>1, <2>2
<1> QED
    BY <1>6, <1>7, <1>8

\* The initial rows: no slot was taken, or the first one was and is ahead.
LEMMA InitSlots == Init => SlotInv
<1> SUFFICES ASSUME Init PROVE SlotInv
    OBVIOUS
<1>0. \A p \in Proc : ~Pending(p) /\ sched[p].at <= now
    <2>1. IdleTick.step = "idle" /\ IdleTick.at = 0
        BY DEF IdleTick
    <2>2. now = 0 /\ \A p \in Proc : sched[p] = IdleTick
        BY DEF Init
    <2>3. IdleTick.at <= now /\ IdleTick.step \notin {"dispatch", "claim"}
        BY <2>1, <2>2
    <2> QED
        BY <2>2, <2>3, Zenon DEF Pending
<1>1. Period[1] \in Nat /\ Period[1] > 0
    BY Constants DEF Revision
<1>2. ASSUME \A r \in RunId : ~Took(r) /\ run[r].origin = "manual" /\ ~run[r].archived
      PROVE  SlotInv
    BY <1>0, <1>2 DEF SlotInv, TicksKnown, RunsKnown, OneRevision, CursorKnown, OnceEach, Took
<1> DEFINE old == LegacyEnded(Period[1])
<1>3. /\ NoRow.slot = NoSlot /\ NoRow.origin = "manual" /\ NoRow.status = "none" /\ ~NoRow.archived
      /\ LegacyRunning.slot = NoSlot /\ LegacyRunning.origin = "manual" /\ ~LegacyRunning.archived
    BY DEF NoRow, LegacyRunning
<1>4. /\ old.slot = Period[1] /\ old.status = "succeeded" /\ old.origin = "scheduled"
      /\ ~old.archived /\ old.key[2] = Period[1]
    BY DEF NoRow, LegacyEnded, SlotKey
<1> HIDE DEF old
<1>5. CASE \A r \in RunId : run[r] = NoRow
    BY <1>2, <1>5, <1>3 DEF Took
<1>6. CASE \A r \in RunId : run[r] = IF r = 1 THEN LegacyRunning ELSE NoRow
    BY <1>2, <1>6, <1>3 DEF Took
<1>7. CASE \A r \in RunId : run[r] = IF r = 1 THEN old ELSE NoRow
    <2>1. /\ \A r \in RunId : r # 1 => /\ run[r].slot = NoSlot /\ run[r].status = "none"
                                       /\ ~run[r].archived
          /\ 1 \in RunId => /\ run[1].slot = Period[1] /\ run[1].status = "succeeded"
                            /\ run[1].origin = "scheduled" /\ ~run[1].archived
                            /\ run[1].key[2] = Period[1]
        BY <1>7, <1>3, <1>4
    <2>2. 1 \in RunId => Ahead(1)
        BY <1>0, <1>1, <2>1 DEF Ahead, Terminal, NoSlot
    <2>3. \A r \in RunId : Took(r) => r = 1
        BY <2>1 DEF Took
    <2>4. TicksKnown /\ RunsKnown
        BY <1>0, <1>1, <2>1, <2>2 DEF TicksKnown, RunsKnown, Took, Terminal, NoSlot
    <2>5. OneRevision /\ OnceEach
        BY <1>0, <1>1, <2>1, <2>3 DEF OneRevision, OnceEach, Took, NoSlot
    <2>6. CursorKnown
        BY <1>0, <2>2, <2>3 DEF CursorKnown
    <2> QED
        BY <2>4, <2>5, <2>6 DEF SlotInv
<1> QED
    BY <1>5, <1>6, <1>7 DEF Init, old

\* One step of the system, action by action.
LEMMA SlotNext ==
    ASSUME Inv, Inv', SlotInv, [Next]_vars
    PROVE  SlotInv'
<1>0. Numbers /\ Numbers' /\ now \in Nat /\ now' \in Nat
    BY DEF Inv, TypeOK, TaskRow, RunRow, Numbers, Revision
<1>1. ASSUME RowsStep, CursorStep, TicksStep, now' >= now PROVE SlotInv'
    BY <1>0, <1>1, SlotStep
<1>2. ASSUME RowsStep, CursorStep, now' = now, sched' = sched PROVE SlotInv'
    BY <1>0, <1>1, <1>2, SameTicks
<1>3. ASSUME RowsStep, CursorStep, now' = now, NEW p \in Proc,
             sched' = [sched EXCEPT ![p] = IdleTick]
      PROVE  SlotInv'
    <2>1. TicksStep
        BY <1>3, DroppedTick
    <2>2. now' >= now
        BY <1>0, <1>3
    <2> QED
        BY <1>1, <1>3, <2>1, <2>2
<1>4. CASE PassTime
    <2>1. RowsStep /\ CursorStep
        BY <1>4, SameShape DEF PassTime
    <2>2. TicksStep /\ now' >= now
        BY <1>0, <1>4, SameTicks DEF PassTime
    <2> QED
        BY <1>1, <2>1, <2>2
<1>5. CASE UserStep
    <2>1. ASSUME NEW p \in Proc, NEW m, NEW d, ManualClaim(p, m, d) PROVE SlotInv'
        <3>1. RowsStep /\ CursorStep
            BY <2>1, StartsShape, DeclinesShape DEF ManualClaim
        <3> QED
            BY <1>2, <2>1, <3>1 DEF ManualClaim
    <2>2. ASSUME task'.cursor = NoSlot \/ task'.cursor > now' \/ task' = task, Untouched
          PROVE  SlotInv'
        <3>1. RowsStep /\ CursorStep
            BY <2>2, SameShape DEF Untouched
        <3> QED
            BY <1>2, <2>2, <3>1 DEF Untouched
    <2>3. CASE ActivateTask
        <3>1. task'.cursor = NextRunAt(task.rev, now) /\ task.rev \in Revision
            BY <2>3 DEF ActivateTask, Inv, TypeOK, TaskRow
        <3>2. now' = now /\ Untouched
            BY <2>3 DEF ActivateTask, Untouched
        <3> QED
            BY <1>0, <2>2, <3>1, <3>2, NextRunAtLater
    <2>4. CASE PauseTask \/ ArchiveTask \/ DeleteTask
        <3>1. task'.cursor = NoSlot /\ Untouched
            BY <2>4 DEF PauseTask, ArchiveTask, DeleteTask, Inv, TypeOK, TaskRow
        <3> QED
            BY <2>2, <3>1
    <2>5. CASE BeginEdit
        BY <2>2, <2>5 DEF BeginEdit
    <2>6. ASSUME NEW v \in Revision, CommitEdit(v) PROVE SlotInv'
        <3>1. (task'.cursor = NoSlot \/ task' = task) /\ Untouched
            BY <2>6 DEF CommitEdit, Inv, TypeOK, TaskRow
        <3> QED
            BY <2>2, <3>1
    <2> QED
        BY <1>5, <2>1, <2>3, <2>4, <2>5, <2>6 DEF UserStep
<1>6. ASSUME NEW p \in Proc, TickStep(p) PROVE SlotInv'
    <2>1. CASE StartTick(p)
        <3> DEFINE tick == [IdleTick EXCEPT !.step = "list", !.at = now]
        <3>1. RowsStep /\ CursorStep
            BY <2>1, SettledShape DEF StartTick
        <3>2. /\ sched'[p] = tick /\ tick.step = "list" /\ tick.at = now /\ now' = now
              /\ \A o \in Proc : o # p => sched'[o] = sched[o]
            BY <2>1 DEF StartTick, Inv, TypeOK, IdleTick
        <3> HIDE DEF tick
        <3>3. TicksStep
            BY <1>0, <3>2 DEF TicksStep, Pending, SlotInv, TicksKnown
        <3> QED
            BY <1>0, <1>1, <3>1, <3>2, <3>3
    <2>2. CASE ListDue(p)
        BY <1>0, <2>2, ListKeeps
    <2>3. CASE Dispatch(p)
        <3>1. RowsStep /\ CursorStep /\ now' = now
            BY <2>3, SameShape DEF Dispatch
        <3>2. Pending(p) /\ \A o \in Proc :
                  /\ sched'[o].at = sched[o].at /\ sched'[o].slot = sched[o].slot
                  /\ sched'[o].rev = sched[o].rev /\ (o # p => sched'[o] = sched[o])
            BY <2>3 DEF Dispatch, Pending, Inv, TypeOK
        <3>3. TicksStep
            BY <3>1, <3>2 DEF TicksStep, Pending, SlotInv, TicksKnown
        <3> QED
            BY <1>0, <1>1, <3>1, <3>3
    <2>4. CASE ScheduledClaim(p)
        <3>1. Pending(p) /\ now' = now /\ sched' = [sched EXCEPT ![p] = IdleTick]
            BY <2>4 DEF ScheduledClaim, Pending
        <3>2. RowsStep /\ CursorStep
            BY <2>4, <3>1, StartsShape, DeclinesShape DEF ScheduledClaim
        <3> QED
            BY <1>3, <3>1, <3>2
    <2>5. CASE ExpireSlot(p)
        <3>1. now' = now /\ sched' = [sched EXCEPT ![p] = IdleTick]
            BY <2>5 DEF ExpireSlot
        <3> QED
            BY <1>3, <2>5, <3>1, ExpireShape
    <2> QED
        BY <1>6, <2>1, <2>2, <2>3, <2>4, <2>5 DEF TickStep
<1>7. ASSUME NEW p \in Proc, Restart(p) PROVE SlotInv'
    <2>1. RowsStep /\ CursorStep
        BY <1>7, SameShape DEF Restart
    <2> QED
        BY <1>3, <1>7, <2>1 DEF Restart
<1>8. ASSUME NEW r \in RunId, WorkerStep(r) PROVE SlotInv'
    <2>1. CASE Publish(r)
        <3>1. /\ now' = now /\ sched' = sched /\ task' = task
              /\ \A q \in RunId :
                     /\ run'[q].slot = run[q].slot /\ run'[q].key = run[q].key
                     /\ run'[q].origin = run[q].origin /\ run'[q].status = run[q].status
                     /\ run'[q].archived = run[q].archived
            BY <2>1 DEF Publish, Inv, TypeOK, RunRow
        <3>2. RowsStep
            BY <3>1 DEF RowsStep, KeptRow, SlotInv, RunsKnown
        <3>3. ASSUME NEW q \in RunId, run'[q].slot # NoSlot, run[q].status \notin Terminal
              PROVE  run'[q].status = "running"
            <4>1. run[q].status # "none" /\ run[q] \in RunRow
                BY <3>1, <3>3 DEF SlotInv, RunsKnown, Took, Inv, TypeOK
            <4> QED
                BY <3>1, <3>3, <4>1 DEF RunRow, Terminal
        <3> QED
            BY <1>2, <3>1, <3>2, <3>3 DEF CursorStep
    <2>2. CASE AssertLease(r) \/ SaveAsset(r)
        <3>1. UNCHANGED <<now, task, run, sched>>
            BY <2>2 DEF AssertLease, SaveAsset
        <3> QED
            BY <1>2, <3>1, SameShape
    <2>3. ASSUME NEW s \in Terminal, FinishRun(r, s) PROVE SlotInv'
        <3>1. now' = now /\ sched' = sched
            BY <2>3 DEF FinishRun
        <3> QED
            BY <1>2, <2>3, <3>1, FinishShape
    <2> QED
        BY <1>8, <2>1, <2>2, <2>3 DEF WorkerStep
<1>9. CASE UNCHANGED vars
    <2>1. UNCHANGED <<now, task, run, sched>>
        BY <1>9 DEF vars
    <2> QED
        BY <1>2, <2>1, SameShape
<1> QED
    BY <1>4, <1>5, <1>6, <1>7, <1>8, <1>9 DEF Next

-----------------------------------------------------------------------------
(* The end of a run whose report is out *)

\* After the success of a scheduled run: the task is due at its next occurrence, or not.
PastTheSlot(t, r) == t.cursor \in {NoSlot, NextRunAt(run[r].rev, now)}

\* A success, written by the worker or by recovery, moves the cursor of an active task.
LEMMA SuccessPasses ==
    ASSUME Inv, NEW r \in RunId, NEW t, t = AfterSuccess(Released(task, r), run[r].rev, now)
    PROVE  PastTheSlot(t, r)
<1> DEFINE u == Released(task, r)
<1>1. WellFormed(u)
    BY ReleasedRow DEF Inv, Rows
<1> HIDE DEF u
<1>2. t.cursor = IF u.status = "active" THEN NextRunAt(run[r].rev, now) ELSE u.cursor
    BY <1>1 DEF AfterSuccess, WellFormed, TaskRow, u
<1> QED
    BY <1>1, <1>2 DEF WellFormed, PastTheSlot

LEMMA RecoveryPasses ==
    ASSUME Inv, NEW r \in Expired, run[r].origin = "scheduled", run[r].published
    PROVE  PastTheSlot(SettledTask, r)
<1> DEFINE e == CHOOSE q \in Expired : TRUE
<1>1. e \in Expired /\ SettledTask = RecoveredTask(e)
    BY DEF SettledTask
<1> HIDE DEF e
<1>2. e = r /\ r \in RunId
    BY <1>1 DEF Expired, Active, Inv, Rows, AtMostOne
<1>3. SettledTask = AfterSuccess(Released(task, r), run[r].rev, now)
    BY <1>1, <1>2 DEF RecoveredTask
<1> QED
    BY <1>2, <1>3, SuccessPasses

\* What the step owes to a run that was running with its report out.
WellEnded(r) ==
    /\ ~run'[r].archived
    /\ run'[r].status = "succeeded" /\ run[r].origin = "scheduled" => PastTheSlot(task', r)

\* A step that leaves the row alone, or recovers it, gives no key away.
LEMMA RowKeepsKey ==
    ASSUME Inv, SlotInv, NEW r \in RunId, run[r].status = "running", run[r].published,
           run'[r] \in {run[r], SettledRuns[r]}
    PROVE  ~run'[r].archived
<1>1. ~run[r].archived
    BY DEF SlotInv, RunsKnown, Terminal
<1>2. ~RecoveredRun(r).archived
    BY DEF RecoveredRun, Inv, TypeOK, RunRow
<1> QED
    BY <1>1, <1>2, Settling

\* A claim that replays a run finds the cursor past it.
LEMMA DeclinesPasses ==
    ASSUME Inv, SlotInv, NEW o, NEW k, NEW s, ClaimDeclines(o, k, s),
           o = "manual" \/ \E p \in Proc : Pending(p) /\ s = sched[p].slot,
           NEW r \in RunId, run[r].status = "running", run[r].published
    PROVE  WellEnded(r)
<1>1. CASE ClaimJoins \/ UNCHANGED <<task, run>>
    <2>1. run'[r].status = run[r].status /\ run'[r].archived = run[r].archived
        <3>1. \/ run' = run
              \/ \E q \in RunId : run' = [run EXCEPT ![q].until = now + Lease]
            BY <1>1 DEF ClaimJoins, Live, Active
        <3> QED
            BY <3>1 DEF Inv, TypeOK, RunRow
    <2> QED
        BY <2>1 DEF WellEnded, SlotInv, RunsKnown, Terminal
<1>2. CASE ClaimReplays(k) /\ Admitted(o, k, s)
    <2>1. PICK q \in RunId \ Expired :
            /\ IsLatest(q, k) /\ run' = SettledRuns /\ task' = Reconciled(SettledTask, q, now)
        BY <1>2 DEF ClaimReplays
    <2>2. ~run'[r].archived
        BY <2>1, RowKeepsKey
    <2>3. ASSUME run'[r].status = "succeeded", run[r].origin = "scheduled"
          PROVE  PastTheSlot(task', r)
        <3>1. r \in Expired
            BY <2>1, <2>3, Settling
        <3>2. PastTheSlot(SettledTask, r) /\ WellFormed(SettledTask)
            BY <2>3, <3>1, RecoveryPasses, Settling DEF Rows
        <3>3. run[q].origin = o /\ run[q].slot = s /\ run[q].status # "none"
            BY <1>2, <2>1 DEF Admitted, IsLatest
        <3>4. CASE run[q].origin # "scheduled"
            BY <2>1, <3>2, <3>4 DEF Reconciled
        <3>5. CASE run[q].origin = "scheduled"
            <4>1. PICK p \in Proc : Pending(p) /\ run[q].slot = sched[p].slot
                BY <3>3, <3>5
            <4>2. run[q].slot <= now /\ run[q].slot \in Nat /\ now \in Nat
                BY <4>1, TypedNumbers DEF SlotInv, TicksKnown, Inv, Numbers
            <4>3. NextRunAt(run[r].rev, now) > now
                BY NextRunAtLater DEF Inv, TypeOK, RunRow
            <4>4. SettledTask.status = "active" => SettledTask.cursor \notin {NoSlot, run[q].slot}
                BY <3>2, <4>2, <4>3 DEF PastTheSlot, WellFormed
            <4> QED
                BY <2>1, <3>2, <4>4 DEF Reconciled, PastTheSlot, WellFormed, TaskRow
        <3> QED
            BY <3>4, <3>5
    <2> QED
        BY <2>2, <2>3 DEF WellEnded
<1> QED
    BY <1>1, <1>2 DEF ClaimDeclines

\* A claim that starts a run only writes the lock.
LEMMA StartsPasses ==
    ASSUME Inv, SlotInv, NEW p, NEW o, NEW k, NEW s, NEW d, ClaimStarts(p, o, k, s, d),
           NEW r \in RunId, run[r].status = "running", run[r].published
    PROVE  WellEnded(r)
<1>1. PICK q \in RunId :
        /\ IsFresh(q)
        /\ \E n : run' = [SettledRuns EXCEPT ![q] = n]
        /\ task' = [SettledTask EXCEPT !.holder = q, !.until = now + Lease]
    BY DEF ClaimStarts
<1>2. SettledTask \in TaskRow /\ task'.cursor = SettledTask.cursor
    BY <1>1, Settling DEF Rows, WellFormed, TaskRow
<1>3. r \in Expired
    BY DEF ClaimStarts, MayStart, Live, Active
<1>4. run'[r] = SettledRuns[r]
    BY <1>1 DEF IsFresh
<1> QED
    BY <1>2, <1>3, <1>4, RowKeepsKey, RecoveryPasses DEF WellEnded, PastTheSlot

\* One step of the system, action by action: most of them leave the row alone.
LEMMA EndStep ==
    ASSUME Inv, SlotInv, [Next]_vars, NEW r \in RunId, run[r].status = "running", run[r].published
    PROVE  WellEnded(r)
<1>0. ASSUME run'[r].status = run[r].status, run'[r].archived = run[r].archived PROVE WellEnded(r)
    BY <1>0 DEF WellEnded, SlotInv, RunsKnown, Terminal
<1>1. CASE UserStep
    <2>1. ASSUME NEW p, NEW m, NEW d, ManualClaim(p, m, d) PROVE WellEnded(r)
        BY <2>1, StartsPasses, DeclinesPasses DEF ManualClaim
    <2> QED
        BY <1>0, <1>1, <2>1 DEF UserStep, ActivateTask, PauseTask, ArchiveTask, DeleteTask,
            BeginEdit, CommitEdit, Untouched
<1>2. ASSUME NEW p \in Proc, TickStep(p) PROVE WellEnded(r)
    <2>1. CASE StartTick(p)
        <3>1. run' = SettledRuns /\ task' = SettledTask
            BY <2>1 DEF StartTick
        <3>2. run'[r].status = "succeeded" => r \in Expired
            BY <3>1, Settling
        <3> QED
            BY <3>1, <3>2, RowKeepsKey, RecoveryPasses DEF WellEnded
    <2>2. CASE ListDue(p) \/ Dispatch(p)
        BY <1>0, <2>2 DEF ListDue, Dispatch
    <2>3. CASE ScheduledClaim(p)
        <3>1. Pending(p)
            BY <2>3 DEF ScheduledClaim, Pending
        <3> QED
            BY <2>3, <3>1, StartsPasses, DeclinesPasses DEF ScheduledClaim
    <2>4. CASE ExpireSlot(p)
        <3>1. run' = run \/ \E q \in RunId : IsFresh(q) /\ \E n : run' = [run EXCEPT ![q] = n]
            BY <2>4 DEF ExpireSlot
        <3>2. run' = run \/ run'[r] = run[r]
            BY <3>1 DEF IsFresh, Inv, TypeOK
        <3> QED
            BY <1>0, <3>2
    <2> QED
        BY <1>2, <2>1, <2>2, <2>3, <2>4 DEF TickStep
<1>3. ASSUME NEW q \in RunId, WorkerStep(q) PROVE WellEnded(r)
    <2>1. CASE Publish(q)
        BY <1>0, <2>1 DEF Publish, Inv, TypeOK, RunRow
    <2>2. CASE AssertLease(q) \/ SaveAsset(q)
        BY <1>0, <2>2 DEF AssertLease, SaveAsset
    <2>3. ASSUME NEW asked \in Terminal, FinishRun(q, asked) PROVE WellEnded(r)
        <3>1. CASE ~OwnsLease(q)
            BY <1>0, <2>3, <3>1 DEF FinishRun
        <3>2. CASE OwnsLease(q)
            <4>1. q = r
                BY <3>2 DEF OwnsLease, Inv, Rows, AtMostOne
            <4>2. /\ run' = [run EXCEPT ![r].status = FinalStatus(r, asked), ![r].until = 0]
                  /\ task' = FinishedTask(r, FinalStatus(r, asked))
                BY <2>3, <3>2, <4>1 DEF FinishRun
            <4>3. run'[r].status = FinalStatus(r, asked) /\ run'[r].archived = run[r].archived
                BY <4>2 DEF Inv, TypeOK, RunRow
            <4>4. ASSUME FinalStatus(r, asked) = "succeeded", run[r].origin = "scheduled"
                  PROVE  PastTheSlot(task', r)
                <5>1. task' = AfterSuccess(Released(task, r), run[r].rev, now)
                    BY <4>2, <4>4 DEF FinishedTask
                <5> QED
                    BY <5>1, SuccessPasses
            <4> QED
                BY <4>3, <4>4 DEF WellEnded, SlotInv, RunsKnown, Terminal
        <3> QED
            BY <3>1, <3>2
    <2> QED
        BY <1>3, <2>1, <2>2, <2>3 DEF WorkerStep
<1> QED
    BY <1>0, <1>1, <1>2, <1>3 DEF Next, PassTime, Restart, vars

\* One occurrence is executed once: across processes, restarts, replays and edits, of two
\* runs of one slot one gave its key away because its lease expired; and a run whose report
\* is out gives nothing away, nor does its end make the task due for a retry.
THEOREM OneRunPerSlot == Spec => SlotRunsOnce
<1> DEFINE EndsWell == \A r \in RunId :
               run[r].status = "running" /\ run[r].published =>
                   /\ ~run'[r].archived
                   /\ run'[r].status = "succeeded" /\ run[r].origin = "scheduled" =>
                         task'.cursor \in {NoSlot, NextRunAt(run[r].rev, now)}
<1>1. Init => SlotInv
    BY InitSlots
<1>2. Inv /\ Inv' /\ SlotInv /\ [Next]_vars => SlotInv'
    BY SlotNext
<1>3. SlotInv => OnceEach
    BY DEF SlotInv
<1>4. Inv /\ SlotInv /\ [Next]_vars => EndsWell
    BY EndStep DEF WellEnded, PastTheSlot
<1>5. SlotRunsOnce <=> []OnceEach /\ [][EndsWell]_vars
    BY DEF SlotRunsOnce, OnceEach
<1> HIDE DEF EndsWell
<1> QED
    BY <1>1, <1>2, <1>3, <1>4, <1>5, Invariance, PTL DEF Spec
-----------------------------------------------------------------------------
(* The keys of the dispatches in flight *)

\* The worker of r came from a dispatch of revision v in process p.
HoldsKey(r, p, v) ==
    /\ stage[r].step # "none" /\ stage[r].at = p
    /\ run[r].origin = "scheduled" /\ run[r].key[1] = v
Claims(p, v) == sched[p].step = "claim" /\ sched[p].rev = v

\* A key has one holder: the tick that is about to claim, or one worker.  A tick that is
\* about to dispatch a revision found its key free, and nobody works for a row unused.
KeyInv ==
    /\ KeysAreHeldByWork
    /\ \A p \in Proc : sched[p].step = "dispatch" => sched[p].rev \notin busy[p]
    /\ \A p \in Proc, v \in Revision, r \in RunId : ~(Claims(p, v) /\ HoldsKey(r, p, v))
    /\ \A p \in Proc, v \in Revision, r, q \in RunId :
           HoldsKey(r, p, v) /\ HoldsKey(q, p, v) => r = q
    /\ \A r \in RunId : stage[r].step # "none" => run[r].status # "none"

LEMMA InitKeys == Init => KeyInv
<1> SUFFICES ASSUME Init PROVE KeyInv
    OBVIOUS
<1>1. \A r \in RunId : stage[r].step = "none"
    BY DEF Init
<1>2. \A p \in Proc : sched[p].step = "idle" /\ busy[p] = {}
    BY DEF Init, IdleTick
<1> QED
    BY <1>1, <1>2 DEF KeyInv, KeysAreHeldByWork, DispatchedBy, HoldsKey, Claims

\* A row that was entered keeps what it was entered for.
LEMMA NamesKept ==
    ASSUME Inv, [Next]_vars, NEW r \in RunId, run[r].status # "none"
    PROVE  /\ run'[r].status # "none" /\ run'[r].origin = run[r].origin
           /\ run'[r].key = run[r].key
<1> DEFINE Kept == /\ run'[r].status # "none" /\ run'[r].origin = run[r].origin
                   /\ run'[r].key = run[r].key
<1>0. run'[r] = run[r] => Kept
    OBVIOUS
<1>1. run'[r] = SettledRuns[r] => Kept
    <2>1. run[r] \in RunRow
        BY DEF Inv, TypeOK
    <2>2. /\ RecoveredRun(r).status # "none" /\ RecoveredRun(r).origin = run[r].origin
          /\ RecoveredRun(r).key = run[r].key
        BY <2>1 DEF RecoveredRun, RunRow
    <2> QED
        BY <2>2, Settling
<1>2. ASSUME NEW q, NEW n, IsFresh(q), run' = [run EXCEPT ![q] = n] PROVE Kept
    BY <1>0, <1>2 DEF IsFresh, Inv, TypeOK
<1>3. ASSUME NEW p, NEW o, NEW k, NEW s, NEW d, ClaimStarts(p, o, k, s, d) PROVE Kept
    <2>1. PICK q \in RunId : IsFresh(q) /\ \E n : run' = [SettledRuns EXCEPT ![q] = n]
        BY <1>3 DEF ClaimStarts
    <2> QED
        BY <1>1, <2>1, Settling DEF IsFresh, Rows
<1>4. ASSUME NEW o, NEW k, NEW s, ClaimDeclines(o, k, s) PROVE Kept
    <2>1. CASE ClaimJoins
        <3>1. \/ run' = run
              \/ \E q \in RunId : run' = [run EXCEPT ![q].until = now + Lease]
            BY <2>1 DEF ClaimJoins, Live, Active
        <3> QED
            BY <1>0, <3>1 DEF Inv, TypeOK, RunRow
    <2>2. CASE ClaimReplays(k)
        BY <1>1, <2>2 DEF ClaimReplays
    <2> QED
        BY <1>0, <1>4, <2>1, <2>2 DEF ClaimDeclines
<1>5. ASSUME NEW p \in Proc, TickStep(p) PROVE Kept
    <2>1. CASE ExpireSlot(p)
        <3>1. run' = run \/ \E q \in RunId : IsFresh(q) /\ \E n : run' = [run EXCEPT ![q] = n]
            BY <2>1 DEF ExpireSlot
        <3> QED
            BY <1>0, <1>2, <3>1
    <2>2. CASE ScheduledClaim(p)
        BY <1>3, <1>4, <2>2 DEF ScheduledClaim
    <2>3. CASE StartTick(p) \/ ListDue(p) \/ Dispatch(p)
        BY <1>0, <1>1, <2>3 DEF StartTick, ListDue, Dispatch
    <2> QED
        BY <1>5, <2>1, <2>2, <2>3 DEF TickStep
<1>6. ASSUME UserStep PROVE Kept
    <2>1. ASSUME NEW p, NEW m, NEW d, ManualClaim(p, m, d) PROVE Kept
        BY <1>3, <1>4, <2>1 DEF ManualClaim
    <2> QED
        BY <1>0, <1>6, <2>1 DEF UserStep, ActivateTask, PauseTask, ArchiveTask, DeleteTask,
            BeginEdit, CommitEdit, Untouched
<1>7. ASSUME NEW q \in RunId, WorkerStep(q) PROVE Kept
    <2>1. CASE Publish(q)
        BY <2>1 DEF Publish, Inv, TypeOK, RunRow
    <2>2. ASSUME NEW asked \in Terminal, FinishRun(q, asked) PROVE Kept
        <3>1. \/ run' = run
              \/ run' = [run EXCEPT ![q].status = FinalStatus(q, asked), ![q].until = 0]
            BY <2>2 DEF FinishRun
        <3>2. FinalStatus(q, asked) # "none"
            BY DEF FinalStatus, Terminal
        <3> QED
            BY <1>0, <3>1, <3>2 DEF Inv, TypeOK, RunRow
    <2> QED
        BY <1>0, <1>7, <2>1, <2>2 DEF WorkerStep, AssertLease, SaveAsset
<1> QED
    BY <1>0, <1>5, <1>6, <1>7 DEF Next, PassTime, Restart, vars

\* A step that starts and ends no work, and lists a revision only if its key is free.
LEMMA QuietKeys ==
    ASSUME Inv, KeyInv, [Next]_vars, busy' = busy,
           \A r \in RunId : /\ stage'[r].step = "none" <=> stage[r].step = "none"
                            /\ stage'[r].at = stage[r].at,
           \A p \in Proc : /\ sched'[p].step = "claim" <=> sched[p].step = "claim"
                           /\ sched[p].step = "claim" => sched'[p].rev = sched[p].rev
                           /\ sched'[p].step = "dispatch" => sched'[p].rev \notin busy[p]
    PROVE  KeyInv'
<1>1. ASSUME NEW r \in RunId, NEW p \in Proc, NEW v \in Revision
      PROVE  HoldsKey(r, p, v)' <=> HoldsKey(r, p, v)
    BY NamesKept DEF HoldsKey, KeyInv
<1>2. ASSUME NEW p \in Proc, NEW v \in Revision PROVE Claims(p, v)' <=> Claims(p, v)
    BY DEF Claims
<1>3. ASSUME NEW p \in Proc, NEW v \in Revision
      PROVE  /\ DispatchedBy(p, v) <=> Claims(p, v) \/ \E r \in RunId : HoldsKey(r, p, v)
             /\ DispatchedBy(p, v)' <=> Claims(p, v)' \/ \E r \in RunId : HoldsKey(r, p, v)'
    BY DEF DispatchedBy, Claims, HoldsKey
<1>4. KeysAreHeldByWork'
    BY <1>1, <1>2, <1>3 DEF KeyInv, KeysAreHeldByWork
<1>5. \A r \in RunId : stage'[r].step # "none" => run'[r].status # "none"
    BY NamesKept DEF KeyInv
<1> QED
    BY <1>1, <1>2, <1>4, <1>5 DEF KeyInv

\* A claim for the tick of process p: its key goes to the worker, or is given back.
LEMMA ClaimKeys ==
    ASSUME Inv, KeyInv, [Next]_vars, NEW p \in Proc, ScheduledClaim(p)
    PROVE  KeyInv'
<1> DEFINE v == sched[p].rev
<1>1. /\ Claims(p, v) /\ v \in Revision /\ v \in busy[p] /\ \A r \in RunId : ~HoldsKey(r, p, v)
      /\ sched'[p].step = "idle" /\ \A o \in Proc : o # p => sched'[o] = sched[o]
    <2>1. v \in Revision /\ sched[p].step = "claim"
        BY DEF ScheduledClaim, Inv, TypeOK
    <2>2. sched'[p].step = "idle" /\ \A o \in Proc : o # p => sched'[o] = sched[o]
        BY DEF ScheduledClaim, Inv, TypeOK, IdleTick
    <2> QED
        BY <2>1, <2>2 DEF KeyInv, KeysAreHeldByWork, DispatchedBy, Claims
<1>2. \A o \in Proc, w \in Revision : Claims(o, w)' <=> o # p /\ Claims(o, w)
    BY <1>1 DEF Claims
<1>3. \A r \in RunId : run[r].status # "none" =>
          run'[r].status # "none" /\ run'[r].origin = run[r].origin /\ run'[r].key = run[r].key
    BY NamesKept
<1>4. ASSUME NEW e \in RunId, run[e].status = "none", run'[e].status # "none",
             run'[e].origin = "scheduled", run'[e].key = SlotKey(v, sched[p].slot),
             stage' = [stage EXCEPT ![e] = [step |-> "executing", at |-> p]], busy' = busy
      PROVE  KeyInv'
    <2>1. stage[e].step = "none" /\ run'[e].key[1] = v
        BY <1>4 DEF KeyInv, SlotKey
    <2>2. stage'[e].step = "executing" /\ stage'[e].at = p
          /\ \A r \in RunId : r # e => stage'[r] = stage[r]
        BY <1>4 DEF Inv, TypeOK
    <2>3. ASSUME NEW r \in RunId, NEW o \in Proc, NEW w \in Revision
          PROVE  HoldsKey(r, o, w)' <=> HoldsKey(r, o, w) \/ (r = e /\ o = p /\ w = v)
        BY <1>3, <1>4, <2>1, <2>2 DEF HoldsKey, KeyInv
    <2>4. ASSUME NEW o \in Proc, NEW w \in Revision
          PROVE  DispatchedBy(o, w)' <=> DispatchedBy(o, w)
        <3>1. /\ DispatchedBy(o, w) <=> Claims(o, w) \/ \E r \in RunId : HoldsKey(r, o, w)
              /\ DispatchedBy(o, w)' <=> Claims(o, w)' \/ \E r \in RunId : HoldsKey(r, o, w)'
            BY DEF DispatchedBy, Claims, HoldsKey
        <3>2. Claims(p, w) => w = v
            BY DEF Claims
        <3> QED
            BY <1>1, <1>2, <2>3, <3>1, <3>2
    <2>5. KeysAreHeldByWork'
        BY <1>4, <2>4 DEF KeyInv, KeysAreHeldByWork
    <2>6. \A o \in Proc : sched'[o].step = "dispatch" => sched'[o].rev \notin busy'[o]
        BY <1>1, <1>4 DEF KeyInv
    <2>7. \A o \in Proc, w \in Revision, r \in RunId : ~(Claims(o, w)' /\ HoldsKey(r, o, w)')
        BY <1>2, <2>3 DEF KeyInv
    <2>8. \A o \in Proc, w \in Revision, r, q \in RunId :
              HoldsKey(r, o, w)' /\ HoldsKey(q, o, w)' => r = q
        BY <1>1, <2>3 DEF KeyInv
    <2>9. \A r \in RunId : stage'[r].step # "none" => run'[r].status # "none"
        BY <1>3, <1>4, <2>2 DEF KeyInv
    <2> QED
        BY <2>5, <2>6, <2>7, <2>8, <2>9 DEF KeyInv
<1>5. ASSUME stage' = stage, busy' = [busy EXCEPT ![p] = @ \ {v}] PROVE KeyInv'
    <2>1. busy'[p] = busy[p] \ {v} /\ \A o \in Proc : o # p => busy'[o] = busy[o]
        BY <1>5 DEF Inv, TypeOK
    <2>2. \A r \in RunId, o \in Proc, w \in Revision : HoldsKey(r, o, w)' <=> HoldsKey(r, o, w)
        BY <1>3, <1>5 DEF HoldsKey, KeyInv
    <2>3. ASSUME NEW o \in Proc, NEW w \in Revision
          PROVE  DispatchedBy(o, w)' <=> DispatchedBy(o, w) /\ ~(o = p /\ w = v)
        <3>1. /\ DispatchedBy(o, w) <=> Claims(o, w) \/ \E r \in RunId : HoldsKey(r, o, w)
              /\ DispatchedBy(o, w)' <=> Claims(o, w)' \/ \E r \in RunId : HoldsKey(r, o, w)'
            BY DEF DispatchedBy, Claims, HoldsKey
        <3>2. Claims(p, w) => w = v
            BY DEF Claims
        <3> QED
            BY <1>1, <1>2, <2>2, <3>1, <3>2
    <2>4. KeysAreHeldByWork'
        BY <2>1, <2>3 DEF KeyInv, KeysAreHeldByWork
    <2>5. \A o \in Proc : sched'[o].step = "dispatch" => sched'[o].rev \notin busy'[o]
        BY <1>1, <2>1 DEF KeyInv
    <2>6. \A r \in RunId : stage'[r].step # "none" => run'[r].status # "none"
        BY <1>3, <1>5 DEF KeyInv
    <2> QED
        BY <1>2, <2>2, <2>4, <2>5, <2>6 DEF KeyInv
<1>6. CASE ClaimDeclines("scheduled", SlotKey(v, sched[p].slot), sched[p].slot)
           /\ busy' = [busy EXCEPT ![p] = @ \ {v}]
    BY <1>5, <1>6 DEF ClaimDeclines
<1>7. CASE ClaimStarts(p, "scheduled", SlotKey(v, sched[p].slot), sched[p].slot, Lease)
           /\ busy' = busy
    <2> DEFINE k == SlotKey(v, sched[p].slot)
               n == [NoRow EXCEPT !.status = "running", !.origin = "scheduled", !.key = k,
                        !.slot = sched[p].slot, !.rev = task.rev, !.until = now + Lease,
                        !.deadline = now + Lease]
    <2>1. PICK e \in RunId :
            /\ IsFresh(e) /\ run' = [SettledRuns EXCEPT ![e] = n]
            /\ stage' = [stage EXCEPT ![e] = [step |-> "executing", at |-> p]]
        BY <1>7 DEF ClaimStarts
    <2>2. n.status = "running" /\ n.origin = "scheduled" /\ n.key = k
        BY DEF NoRow
    <2> HIDE DEF n, k
    <2>3. run'[e] = n
        BY <2>1, Settling DEF Rows
    <2>4. run[e].status = "none" /\ run'[e].status # "none" /\ run'[e].origin = "scheduled"
          /\ run'[e].key = k
        BY <2>1, <2>2, <2>3 DEF IsFresh
    <2> QED
        BY <1>4, <1>7, <2>1, <2>4 DEF k
<1> QED
    BY <1>6, <1>7 DEF ScheduledClaim

\* A portal request takes no key.
LEMMA RequestKeys ==
    ASSUME Inv, KeyInv, [Next]_vars, NEW p \in Proc, NEW m, NEW d, ManualClaim(p, m, d)
    PROVE  KeyInv'
<1>0. sched' = sched /\ busy' = busy
    BY DEF ManualClaim
<1>1. CASE stage' = stage
    BY <1>0, <1>1, QuietKeys DEF KeyInv
<1>2. CASE ClaimStarts(p, "manual", ManualKey(m), NoSlot, d)
    <2> DEFINE n == [NoRow EXCEPT !.status = "running", !.origin = "manual", !.key = ManualKey(m),
                        !.slot = NoSlot, !.rev = task.rev, !.until = now + Lease,
                        !.deadline = now + d]
    <2>1. PICK e \in RunId :
            /\ IsFresh(e) /\ run' = [SettledRuns EXCEPT ![e] = n]
            /\ stage' = [stage EXCEPT ![e] = [step |-> "executing", at |-> p]]
        BY <1>2 DEF ClaimStarts
    <2>2. n.status = "running" /\ n.origin = "manual"
        BY DEF NoRow
    <2> HIDE DEF n
    <2>3. run'[e] = n
        BY <2>1, Settling DEF Rows
    <2>4. run[e].status = "none" /\ stage[e].step = "none"
        BY <2>1 DEF IsFresh, KeyInv
    <2>5. \A r \in RunId : r # e => stage'[r] = stage[r]
        BY <2>1 DEF Inv, TypeOK
    <2>6. ASSUME NEW r \in RunId, NEW o \in Proc, NEW w \in Revision
          PROVE  HoldsKey(r, o, w)' <=> HoldsKey(r, o, w)
        BY <2>2, <2>3, <2>4, <2>5, NamesKept DEF HoldsKey, KeyInv
    <2>7. \A o \in Proc, w \in Revision : Claims(o, w)' <=> Claims(o, w)
        BY <1>0 DEF Claims
    <2>8. ASSUME NEW o \in Proc, NEW w \in Revision
          PROVE  DispatchedBy(o, w)' <=> DispatchedBy(o, w)
        <3>1. /\ DispatchedBy(o, w) <=> Claims(o, w) \/ \E r \in RunId : HoldsKey(r, o, w)
              /\ DispatchedBy(o, w)' <=> Claims(o, w)' \/ \E r \in RunId : HoldsKey(r, o, w)'
            BY DEF DispatchedBy, Claims, HoldsKey
        <3> QED
            BY <2>6, <2>7, <3>1
    <2>9. KeysAreHeldByWork'
        BY <1>0, <2>8 DEF KeyInv, KeysAreHeldByWork
    <2>10. \A r \in RunId : stage'[r].step # "none" => run'[r].status # "none"
        BY <2>2, <2>3, <2>5, NamesKept DEF KeyInv
    <2>11. \A o \in Proc : sched'[o].step = "dispatch" => sched'[o].rev \notin busy'[o]
        BY <1>0 DEF KeyInv
    <2> QED
        BY <2>6, <2>7, <2>9, <2>10, <2>11 DEF KeyInv
<1> QED
    BY <1>1, <1>2 DEF ManualClaim, ClaimDeclines

\* The dispatch of a due task takes its key.
LEMMA DispatchKeys ==
    ASSUME Inv, KeyInv, [Next]_vars, NEW p \in Proc, Dispatch(p)
    PROVE  KeyInv'
<1> DEFINE v == sched[p].rev
<1>1. /\ sched[p].step = "dispatch" /\ v \in Revision /\ v \notin busy[p]
      /\ \A r \in RunId : ~HoldsKey(r, p, v)
    <2>1. sched[p].step = "dispatch" /\ v \in Revision
        BY DEF Dispatch, Inv, TypeOK
    <2> QED
        BY <2>1 DEF KeyInv, KeysAreHeldByWork, DispatchedBy, HoldsKey
<1>2. /\ sched'[p].step = "claim" /\ sched'[p].rev = v /\ busy'[p] = busy[p] \cup {v}
      /\ \A o \in Proc : o # p => sched'[o] = sched[o] /\ busy'[o] = busy[o]
      /\ stage' = stage /\ run' = run
    BY DEF Dispatch, Inv, TypeOK
<1>3. \A r \in RunId, o \in Proc, w \in Revision : HoldsKey(r, o, w)' <=> HoldsKey(r, o, w)
    BY <1>2 DEF HoldsKey
<1>4. \A o \in Proc, w \in Revision : Claims(o, w)' <=> Claims(o, w) \/ (o = p /\ w = v)
    BY <1>1, <1>2 DEF Claims
<1>5. ASSUME NEW o \in Proc, NEW w \in Revision
      PROVE  DispatchedBy(o, w)' <=> DispatchedBy(o, w) \/ (o = p /\ w = v)
    <2>1. /\ DispatchedBy(o, w) <=> Claims(o, w) \/ \E r \in RunId : HoldsKey(r, o, w)
          /\ DispatchedBy(o, w)' <=> Claims(o, w)' \/ \E r \in RunId : HoldsKey(r, o, w)'
        BY DEF DispatchedBy, Claims, HoldsKey
    <2> QED
        BY <1>3, <1>4, <2>1
<1>6. KeysAreHeldByWork'
    BY <1>2, <1>5 DEF KeyInv, KeysAreHeldByWork
<1>7. \A o \in Proc : sched'[o].step = "dispatch" => sched'[o].rev \notin busy'[o]
    BY <1>2 DEF KeyInv
<1>8. \A r \in RunId : stage'[r].step # "none" => run'[r].status # "none"
    BY <1>2 DEF KeyInv
<1> QED
    BY <1>1, <1>3, <1>4, <1>6, <1>7, <1>8 DEF KeyInv

\* A worker that is done gives its key back, and no other worker has that key.
LEMMA FinishKeys ==
    ASSUME Inv, KeyInv, [Next]_vars, NEW e \in RunId, NEW asked \in Terminal, FinishRun(e, asked)
    PROVE  KeyInv'
<1>1. /\ stage[e].step # "none" /\ stage'[e].step = "none" /\ sched' = sched
      /\ \A r \in RunId : r # e => stage'[r] = stage[r]
      /\ busy' = IF run[e].origin = "scheduled"
                 THEN [busy EXCEPT ![stage[e].at] = @ \ {run[e].key[1]}] ELSE busy
    BY DEF FinishRun, Works, Inv, TypeOK
<1>2. ASSUME NEW r \in RunId, NEW o \in Proc, NEW w \in Revision
      PROVE  HoldsKey(r, o, w)' <=> HoldsKey(r, o, w) /\ r # e
    BY <1>1, NamesKept DEF HoldsKey, KeyInv
<1>3. \A o \in Proc, w \in Revision : Claims(o, w)' <=> Claims(o, w)
    BY <1>1 DEF Claims
<1>4. ASSUME NEW o \in Proc, NEW w \in Revision
      PROVE  w \in busy'[o] <=> w \in busy[o] /\ ~HoldsKey(e, o, w)
    BY <1>1 DEF HoldsKey, Inv, TypeOK
<1>5. ASSUME NEW o \in Proc, NEW w \in Revision
      PROVE  DispatchedBy(o, w)' <=> DispatchedBy(o, w) /\ ~HoldsKey(e, o, w)
    <2>1. /\ DispatchedBy(o, w) <=> Claims(o, w) \/ \E r \in RunId : HoldsKey(r, o, w)
          /\ DispatchedBy(o, w)' <=> Claims(o, w)' \/ \E r \in RunId : HoldsKey(r, o, w)'
        BY DEF DispatchedBy, Claims, HoldsKey
    <2> QED
        BY <1>2, <1>3, <2>1 DEF KeyInv
<1>6. KeysAreHeldByWork'
    BY <1>4, <1>5 DEF KeyInv, KeysAreHeldByWork
<1>7. \A o \in Proc : sched'[o].step = "dispatch" => sched'[o].rev \notin busy'[o]
    BY <1>1, <1>4 DEF KeyInv, Inv, TypeOK
<1>8. \A r \in RunId : stage'[r].step # "none" => run'[r].status # "none"
    BY <1>1, NamesKept DEF KeyInv
<1> QED
    BY <1>2, <1>3, <1>6, <1>7, <1>8 DEF KeyInv

\* A restart forgets the keys with the workers.
LEMMA RestartKeys ==
    ASSUME Inv, KeyInv, [Next]_vars, NEW p \in Proc, Restart(p)
    PROVE  KeyInv'
<1>1. /\ sched'[p].step = "idle" /\ busy'[p] = {} /\ run' = run
      /\ \A o \in Proc : o # p => sched'[o] = sched[o] /\ busy'[o] = busy[o]
      /\ \A r \in RunId : /\ stage'[r].at = stage[r].at
                          /\ stage'[r].step = IF stage[r].at = p THEN "none" ELSE stage[r].step
    BY DEF Restart, IdleTick, Inv, TypeOK
<1>2. ASSUME NEW r \in RunId, NEW o \in Proc, NEW w \in Revision
      PROVE  HoldsKey(r, o, w)' <=> HoldsKey(r, o, w) /\ o # p
    BY <1>1 DEF HoldsKey
<1>3. \A o \in Proc, w \in Revision : Claims(o, w)' <=> Claims(o, w) /\ o # p
    BY <1>1 DEF Claims
<1>4. ASSUME NEW o \in Proc, NEW w \in Revision
      PROVE  DispatchedBy(o, w)' <=> DispatchedBy(o, w) /\ o # p
    <2>1. /\ DispatchedBy(o, w) <=> Claims(o, w) \/ \E r \in RunId : HoldsKey(r, o, w)
          /\ DispatchedBy(o, w)' <=> Claims(o, w)' \/ \E r \in RunId : HoldsKey(r, o, w)'
        BY DEF DispatchedBy, Claims, HoldsKey
    <2> QED
        BY <1>2, <1>3, <2>1
<1>5. KeysAreHeldByWork'
    BY <1>1, <1>4 DEF KeyInv, KeysAreHeldByWork
<1>6. \A r \in RunId : stage'[r].step # "none" => run'[r].status # "none"
    BY <1>1 DEF KeyInv
<1>7. \A o \in Proc : sched'[o].step = "dispatch" => sched'[o].rev \notin busy'[o]
    BY <1>1 DEF KeyInv
<1> QED
    BY <1>2, <1>3, <1>5, <1>6, <1>7 DEF KeyInv

\* One step of the system: the rest starts and ends no work.
LEMMA KeyStep == Inv /\ KeyInv /\ [Next]_vars => KeyInv'
<1> SUFFICES ASSUME Inv, KeyInv, [Next]_vars PROVE KeyInv'
    OBVIOUS
<1>0. ASSUME UNCHANGED <<sched, stage, busy>> PROVE KeyInv'
    BY <1>0, QuietKeys DEF KeyInv
<1>1. CASE UserStep
    <2>1. CASE \E p \in Proc, m \in 1..ManualKeys, d \in Deadlines : ManualClaim(p, m, d)
        BY <2>1, RequestKeys
    <2> QED
        BY <1>0, <1>1, <2>1 DEF UserStep, ActivateTask, PauseTask, ArchiveTask, DeleteTask,
            BeginEdit, CommitEdit, Untouched
<1>2. ASSUME NEW p \in Proc, TickStep(p) PROVE KeyInv'
    <2>1. ASSUME stage' = stage, busy' = busy, NEW tick, sched' = [sched EXCEPT ![p] = tick],
                 sched[p].step # "claim", tick.step # "claim",
                 tick.step = "dispatch" => tick.rev \notin busy[p]
          PROVE  KeyInv'
        <3>1. sched'[p] = tick /\ \A o \in Proc : o # p => sched'[o] = sched[o]
            BY <2>1 DEF Inv, TypeOK
        <3> QED
            BY <2>1, <3>1, QuietKeys DEF KeyInv
    <2>2. CASE StartTick(p)
        <3> DEFINE tick == [IdleTick EXCEPT !.step = "list", !.at = now]
        <3>1. tick.step = "list"
            BY DEF IdleTick
        <3> HIDE DEF tick
        <3> QED
            BY <2>1, <2>2, <3>1 DEF StartTick, tick
    <2>3. CASE ListDue(p)
        <3> DEFINE due == [sched[p] EXCEPT !.step = "dispatch", !.rev = task'.rev,
                                           !.slot = task'.cursor]
                   tick == IF IsDue(task', sched[p].at) /\ task'.rev \notin busy[p]
                           THEN due ELSE IdleTick
        <3>1. due.rev = task'.rev /\ due.step = "dispatch" /\ IdleTick.step = "idle"
            BY DEF IdleTick, Inv, TypeOK
        <3>2. sched[p].step = "list" /\ stage' = stage /\ busy' = busy
              /\ sched' = [sched EXCEPT ![p] = tick]
            BY <2>3 DEF ListDue
        <3> HIDE DEF due
        <3>3. tick.step # "claim" /\ (tick.step = "dispatch" => tick.rev \notin busy[p])
            BY <3>1
        <3> HIDE DEF tick
        <3> QED
            BY <2>1, <3>2, <3>3
    <2>4. CASE ExpireSlot(p)
        <3>1. IdleTick.step = "idle"
            BY DEF IdleTick
        <3> QED
            BY <2>1, <2>4, <3>1 DEF ExpireSlot
    <2> QED
        BY <1>2, <2>2, <2>3, <2>4, DispatchKeys, ClaimKeys DEF TickStep
<1>3. ASSUME NEW r \in RunId, WorkerStep(r) PROVE KeyInv'
    <2>1. CASE Publish(r)
        BY <1>0, <2>1 DEF Publish
    <2>2. CASE AssertLease(r) \/ SaveAsset(r)
        <3>1. \A q \in RunId : /\ stage'[q].step = "none" <=> stage[q].step = "none"
                               /\ stage'[q].at = stage[q].at
            BY <2>2 DEF AssertLease, SaveAsset, Works, Inv, TypeOK
        <3>2. sched' = sched /\ busy' = busy
            BY <2>2 DEF AssertLease, SaveAsset
        <3> QED
            BY <3>1, <3>2, QuietKeys DEF KeyInv
    <2> QED
        BY <1>3, <2>1, <2>2, FinishKeys DEF WorkerStep
<1> QED
    BY <1>0, <1>1, <1>2, <1>3, RestartKeys DEF Next, PassTime, vars

\* A process leaves a revision out of its ticks exactly while a tick or a worker of its own
\* is at work on it, through lost leases, late ends, refused claims and restarts.
THEOREM KeysHeld == Spec => []KeysAreHeldByWork
<1>1. KeyInv => KeysAreHeldByWork
    BY DEF KeyInv
<1> QED
    BY <1>1, InitKeys, KeyStep, Invariance, PTL DEF Spec
-----------------------------------------------------------------------------
(* Manual runs observe *)

SameCadence == /\ task'.status = task.status /\ task'.cursor = task.cursor
               /\ task'.failures = task.failures

\* Recovering a manual run only frees the lock.
LEMMA SettledManual ==
    ASSUME Inv, NEW r \in Expired, run[r].origin = "manual"
    PROVE  /\ SettledTask.status = task.status /\ SettledTask.cursor = task.cursor
           /\ SettledTask.failures = task.failures
<1> DEFINE e == CHOOSE q \in Expired : TRUE
<1>1. e \in Expired /\ SettledTask = RecoveredTask(e)
    BY DEF SettledTask
<1> HIDE DEF e
<1>2. e = r /\ r \in RunId
    BY <1>1 DEF Expired, Active, Inv, Rows, AtMostOne
<1>3. SettledTask = Released(task, r)
    BY <1>1, <1>2 DEF RecoveredTask
<1> QED
    BY <1>2, <1>3, ReleasedRow DEF Inv, Rows

\* A claim that replays a run finds the cursor elsewhere.
LEMMA DeclinesObserve ==
    ASSUME Inv, SlotInv, NEW o, NEW k, NEW s, ClaimDeclines(o, k, s),
           o = "manual" \/ \E p \in Proc : Pending(p) /\ s = sched[p].slot,
           NEW r \in RunId, run[r].status = "running", run[r].origin = "manual",
           run'[r].status \in Terminal
    PROVE  SameCadence
<1>1. ~ClaimJoins
    <2> SUFFICES ASSUME ClaimJoins PROVE FALSE
        OBVIOUS
    <2>1. run'[r].status = run[r].status
        <3>1. \/ run' = run
              \/ \E q \in RunId : run' = [run EXCEPT ![q].until = now + Lease]
            BY DEF ClaimJoins, Live, Active
        <3> QED
            BY <3>1 DEF Inv, TypeOK, RunRow
    <2> QED
        BY <2>1 DEF Terminal
<1>2. run' # run
    BY DEF Terminal
<1>3. Admitted(o, k, s) /\ ClaimReplays(k)
    BY <1>1, <1>2 DEF ClaimDeclines
<1>4. PICK q \in RunId \ Expired :
        /\ IsLatest(q, k) /\ run' = SettledRuns /\ task' = Reconciled(SettledTask, q, now)
    BY <1>3 DEF ClaimReplays
<1>5. r \in Expired
    BY <1>4, Settling DEF Terminal
<1>6. /\ SettledTask.status = task.status /\ SettledTask.cursor = task.cursor
      /\ SettledTask.failures = task.failures /\ WellFormed(SettledTask)
    BY <1>5, SettledManual, Settling DEF Rows
<1>7. run[q].origin = o /\ run[q].slot = s /\ run[q].status # "none"
    BY <1>3, <1>4 DEF Admitted, IsLatest
<1>8. CASE run[q].origin # "scheduled"
    BY <1>4, <1>6, <1>8 DEF Reconciled, SameCadence
<1>9. CASE run[q].origin = "scheduled"
    <2>1. PICK p \in Proc : Pending(p) /\ run[q].slot = sched[p].slot
        BY <1>7, <1>9
    <2>2. Took(q) /\ q # r
        BY <1>7, <1>9 DEF SlotInv, RunsKnown
    <2>3. run[q].status \in Terminal
        BY <1>7, <2>2 DEF Inv, Rows, AtMostOne, TypeOK, RunRow
    <2>4. ~Ahead(q)
        <3>1. run[q].slot \in Nat
            BY DEF Inv, TypeOK, RunRow
        <3> QED
            BY <2>1, <3>1 DEF Ahead
    <2>5. task.cursor # NoSlot => task.cursor # run[q].slot
        <3>1. task.cursor \in Nat /\ run[q].slot \in Nat
            BY DEF Inv, TypeOK, TaskRow, RunRow
        <3> QED
            BY <2>2, <2>3, <2>4, <3>1 DEF SlotInv, CursorKnown, Terminal
    <2> QED
        BY <1>4, <1>6, <2>5 DEF Reconciled, WellFormed, SameCadence, TaskRow
<1> QED
    BY <1>8, <1>9

\* A claim that starts a run only writes the lock.
LEMMA StartsObserve ==
    ASSUME Inv, NEW p, NEW o, NEW k, NEW s, NEW d, ClaimStarts(p, o, k, s, d),
           NEW r \in RunId, run[r].status = "running", run[r].origin = "manual"
    PROVE  SameCadence
<1>1. PICK q \in RunId : task' = [SettledTask EXCEPT !.holder = q, !.until = now + Lease]
    BY DEF ClaimStarts
<1>2. SettledTask \in TaskRow
    BY Settling DEF Rows, WellFormed
<1>3. r \in Expired
    BY DEF ClaimStarts, MayStart, Live, Active
<1> QED
    BY <1>1, <1>2, <1>3, SettledManual DEF SameCadence, TaskRow

\* One step of the system, action by action: most of them end no run.
LEMMA ObserveStep ==
    ASSUME Inv, SlotInv, [Next]_vars, NEW r \in RunId, run[r].status = "running",
           run[r].origin = "manual", run'[r].status \in Terminal
    PROVE  SameCadence
<1>0. run'[r].status # run[r].status /\ run' # run
    BY DEF Terminal
<1>1. CASE PassTime
    BY <1>0, <1>1 DEF PassTime
<1>2. CASE UserStep
    <2>1. ASSUME NEW p \in Proc, NEW m, NEW d, ManualClaim(p, m, d) PROVE SameCadence
        BY <2>1, StartsObserve, DeclinesObserve DEF ManualClaim
    <2> QED
        BY <1>0, <1>2, <2>1 DEF UserStep, ActivateTask, PauseTask, ArchiveTask, DeleteTask,
            BeginEdit, CommitEdit, Untouched
<1>3. ASSUME NEW p \in Proc, TickStep(p) PROVE SameCadence
    <2>1. CASE StartTick(p)
        <3>1. r \in Expired
            BY <2>1, Settling DEF StartTick, Terminal
        <3> QED
            BY <2>1, <3>1, SettledManual DEF StartTick, SameCadence
    <2>2. CASE ListDue(p) \/ Dispatch(p)
        BY <1>0, <2>2 DEF ListDue, Dispatch
    <2>3. CASE ScheduledClaim(p)
        <3>1. Pending(p)
            BY <2>3 DEF ScheduledClaim, Pending
        <3> QED
            BY <2>3, <3>1, StartsObserve, DeclinesObserve DEF ScheduledClaim
    <2>4. CASE ExpireSlot(p)
        <3>1. ASSUME NEW q \in RunId, IsFresh(q), NEW n, run' = [run EXCEPT ![q] = n] PROVE FALSE
            <4>1. q # r
                BY <3>1 DEF IsFresh
            <4> QED
                BY <1>0, <3>1, <4>1
        <3> QED
            BY <1>0, <2>4, <3>1 DEF ExpireSlot
    <2> QED
        BY <1>3, <2>1, <2>2, <2>3, <2>4 DEF TickStep
<1>4. ASSUME NEW p \in Proc, Restart(p) PROVE SameCadence
    BY <1>0, <1>4 DEF Restart
<1>5. ASSUME NEW q \in RunId, WorkerStep(q) PROVE SameCadence
    <2>1. CASE Publish(q)
        <3>1. run'[r].status = run[r].status
            BY <2>1 DEF Publish, Inv, TypeOK, RunRow
        <3> QED
            BY <1>0, <3>1
    <2>2. CASE AssertLease(q) \/ SaveAsset(q)
        BY <1>0, <2>2 DEF AssertLease, SaveAsset
    <2>3. ASSUME NEW s \in Terminal, FinishRun(q, s) PROVE SameCadence
        <3>1. OwnsLease(q) /\ q = r
            BY <1>0, <2>3 DEF FinishRun, OwnsLease, Inv, Rows, AtMostOne
        <3>2. task' = Released(task, r)
            BY <2>3, <3>1 DEF FinishRun, FinishedTask
        <3> QED
            BY <3>2, ReleasedRow DEF Inv, Rows, SameCadence
    <2> QED
        BY <1>5, <2>1, <2>2, <2>3 DEF WorkerStep
<1>6. CASE UNCHANGED vars
    BY <1>0, <1>6 DEF vars
<1> QED
    BY <1>1, <1>2, <1>3, <1>4, <1>5, <1>6 DEF Next

\* The end of a manual run, by its worker, by the reaper or by the next claim, leaves the
\* cadence and the circuit breaker alone.
THEOREM ManualObserves == Spec => ManualRunsObserve
<1>1. Init => SlotInv
    BY InitSlots
<1>2. Inv /\ Inv' /\ SlotInv /\ [Next]_vars => SlotInv'
    BY SlotNext
<1> DEFINE Observes == \A r \in RunId :
               /\ run[r].status = "running" /\ run[r].origin = "manual"
               /\ run'[r].status \in Terminal
               => /\ task'.status = task.status /\ task'.cursor = task.cursor
                  /\ task'.failures = task.failures
<1>3. Inv /\ SlotInv /\ [Next]_vars => Observes
    BY ObserveStep DEF SameCadence
<1>4. ManualRunsObserve <=> [][Observes]_vars
    BY DEF ManualRunsObserve
<1> HIDE DEF Observes
<1> QED
    BY <1>1, <1>2, <1>3, <1>4, Invariance, PTL DEF Spec
-----------------------------------------------------------------------------
(* What the abstract lease says of the rows *)

\* No run holds the lease for longer than AUTOMATION_RUN_LEASE_MS from now, so that the
\* reaper gets at every run that hangs.
LeaseIsShort == \A r \in RunId : run[r].until <= now + Lease

\* Before the lease of a running run is over nobody but its own worker ends it, and the
\* worker is done with it then.
LeaseIsRespected ==
    [][\A r \in RunId :
           run[r].status = "running" /\ run'[r].status # "running"
           => \/ run[r].until <= now
              \/ stage[r].step # "none" /\ stage'[r].step = "none"]_vars

\* Both hold of every step of the abstraction.
LEMMA LeaseKept ==
    ASSUME Inv, Inv', [TL!LeaseNext]_(TL!leaseVars), LeaseIsShort
    PROVE  /\ LeaseIsShort'
           /\ \A r \in RunId : run[r].status = "running" /\ run'[r].status # "running"
                               => \/ run[r].until <= now
                                  \/ stage[r].step # "none" /\ stage'[r].step = "none"
<1> DEFINE Kept == /\ \A r \in RunId : aUntil'[r] <= now' + Lease
                   /\ \A r \in RunId : aPhase[r] = "running" /\ aPhase'[r] # "running"
                                       => aUntil[r] <= now \/ (aWorking[r] /\ ~aWorking'[r])
<1>1. /\ now \in Nat /\ now' \in Nat /\ Lease \in Nat
      /\ \A r \in RunId : run[r].until \in Nat /\ run'[r].until \in Nat
    BY ConstantsAssumption DEF ConstantsAssumption, Inv, TypeOK, RunRow
<1>2. \A r \in RunId : /\ aUntil[r] = run[r].until /\ aUntil'[r] = run'[r].until
                       /\ aPhase[r] = "running" <=> run[r].status = "running"
                       /\ aPhase'[r] = "running" <=> run'[r].status = "running"
                       /\ aWorking[r] <=> stage[r].step # "none"
                       /\ aWorking'[r] <=> stage'[r].step # "none"
    BY DEF aUntil, aPhase, aWorking, Phase, Terminal
<1>3. /\ DOMAIN aPhase = RunId /\ DOMAIN aUntil = RunId /\ DOMAIN aWorking = RunId
      /\ \A r \in RunId : aUntil[r] \in Nat /\ aUntil[r] <= now + Lease
      /\ TL!Running = {r \in RunId : aPhase[r] = "running"}
    BY <1>1, <1>2 DEF aUntil, aPhase, aWorking, LeaseIsShort, TL!Running
<1>4. ASSUME TL!Wait \/ TL!Leave \/ UNCHANGED TL!leaseVars PROVE Kept
    <2>1. aPhase' = aPhase /\ aUntil' = aUntil /\ now' \in {now, now + 1}
        BY <1>4 DEF TL!Wait, TL!Leave, TL!leaseVars, aPhase, aUntil
    <2> QED
        BY <1>1, <1>3, <2>1
<1>5. ASSUME NEW r \in RunId, TL!Grant(r) PROVE Kept
    <2>1. /\ \A q \in TL!Running : aUntil[q] <= now
          /\ aPhase' = [q \in RunId |-> IF q = r THEN "running"
                                        ELSE IF q \in TL!Running THEN "ended" ELSE aPhase[q]]
          /\ aUntil' = [q \in RunId |-> IF q = r THEN now + Lease
                                        ELSE IF q \in TL!Running THEN 0 ELSE aUntil[q]]
          /\ now' = now
        BY <1>5 DEF TL!Grant, aPhase, aUntil
    <2> QED
        BY <1>1, <1>3, <2>1
<1>6. ASSUME NEW r \in RunId, TL!Report(r) PROVE Kept
    <2>1. /\ aPhase' = [aPhase EXCEPT ![r] = "ended"] /\ aUntil' = [aUntil EXCEPT ![r] = 0]
          /\ aWorking[r] /\ aWorking' = [aWorking EXCEPT ![r] = FALSE] /\ now' = now
        BY <1>6 DEF TL!Report, aPhase, aUntil, aWorking
    <2> QED
        BY <1>1, <1>3, <2>1
<1>7. ASSUME NEW r \in RunId, TL!Recover(r) PROVE Kept
    <2>1. /\ aPhase' = [aPhase EXCEPT ![r] = "ended"] /\ aUntil' = [aUntil EXCEPT ![r] = 0]
          /\ aUntil[r] <= now /\ now' = now
        BY <1>7 DEF TL!Recover, aPhase, aUntil
    <2> QED
        BY <1>1, <1>3, <2>1
<1>8. ASSUME NEW r \in RunId, TL!Adopt(r) \/ TL!Enter(r) PROVE Kept
    <2>1. /\ \A q \in RunId : aPhase[q] = "running" => aPhase'[q] = "running"
          /\ aUntil' = aUntil \/ aUntil' = [aUntil EXCEPT ![r] = now + Lease]
          /\ now' = now
        <3>1. CASE TL!Adopt(r)
            BY <3>1 DEF TL!Adopt, aPhase, aUntil
        <3>2. CASE TL!Enter(r)
            <4>1. /\ TL!Running = {} /\ aUntil' = aUntil /\ now' = now
                BY <3>2 DEF TL!Enter, aUntil
            <4> QED
                BY <1>3, <4>1
        <3> QED
            BY <1>8, <3>1, <3>2
    <2> QED
        BY <1>1, <1>3, <2>1
<1>9. Kept
    BY <1>4, <1>5, <1>6, <1>7, <1>8 DEF TL!LeaseNext
<1> QED
    BY <1>2, <1>9 DEF LeaseIsShort

LEMMA InitShort == Init => LeaseIsShort
<1> SUFFICES ASSUME Init, NEW r \in RunId PROVE run[r].until <= now + Lease
    BY DEF LeaseIsShort
<1>1. NoRow.until = 0 /\ LegacyRunning.until = Lease /\ LegacyEnded(Period[1]).until = 0
    BY DEF NoRow, LegacyRunning, LegacyEnded
<1>2. run[r].until \in {0, Lease} /\ now = 0
    BY <1>1 DEF Init
<1> QED
    BY <1>2, ConstantsAssumption DEF ConstantsAssumption

\* The part of RunsEnd that needs no fairness: whatever claims, adoptions of old runs and
\* recoveries follow each other, no lease reaches further than AUTOMATION_RUN_LEASE_MS.
THEOREM LeasesAreShort == Spec => []LeaseIsShort
<1>1. Init => LeaseInv /\ LeaseIsShort
    BY InitLease, InitShort
<1>2. LeaseInv /\ LeaseIsShort /\ [Next]_vars => LeaseInv' /\ LeaseIsShort'
    BY LeaseStep, NextInv, LeaseKept DEF LeaseInv
<1> QED
    BY <1>1, <1>2, PTL DEF Spec

\* Neither the reaper, nor another claim, nor the user takes a run away from a worker
\* whose lease is not over (recoverExpiredRun, claimAutomationTaskRun, finishAutomationTaskRun).
THEOREM LeasesAreRespected == Spec => LeaseIsRespected
<1>1. Init => LeaseInv /\ LeaseIsShort
    BY InitLease, InitShort
<1>2. LeaseInv /\ LeaseIsShort /\ [Next]_vars
      => /\ LeaseInv' /\ LeaseIsShort'
         /\ [\A r \in RunId : run[r].status = "running" /\ run'[r].status # "running"
                              => \/ run[r].until <= now
                                 \/ stage[r].step # "none" /\ stage'[r].step = "none"]_vars
    BY LeaseStep, NextInv, LeaseKept DEF LeaseInv
<1> QED
    BY <1>1, <1>2, PTL DEF Spec, LeaseIsRespected
=============================================================================
