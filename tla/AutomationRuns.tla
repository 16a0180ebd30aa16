--------------------------- MODULE AutomationRuns ---------------------------
(***************************************************************************)
(* src/services/automation-tasks.ts with its callers scheduler/automation.ts*)
(* and services/automation-runner.ts: one automation task, the runs that   *)
(* are claimed for it, the scheduler ticks and portal requests that claim  *)
(* them, and the user who pauses, edits and deletes the task meanwhile.    *)
(*                                                                         *)
(* The task row is a mutex with a lease.  Each SQLite transaction, and each *)
(* stretch of code between two awaits, is one step.  A run's lease token is *)
(* drawn with the run, so the run itself stands for it.                    *)
(***************************************************************************)
EXTENDS Naturals

CONSTANTS
    Proc,           \* runtime processes: each has a scheduler and runs workers
    Lease,          \* AUTOMATION_RUN_LEASE_MS
    RetryDelay,     \* LEASE_EXPIRY_RETRY_DELAY_MS
    MaxQueueDelay,  \* AUTOMATION_MAX_QUEUE_DELAY_MS
    MaxFailures,    \* consecutive failures that stop the schedule
    Period,         \* Period[v]: the schedule of revision v fires at its multiples
    Deadlines,      \* execution budgets a claim may ask for, in units of time
    ManualKeys,     \* how many idempotency keys portal requests use
    Edits,          \* whether the user edits the task
    Crashes,        \* whether processes restart
    LegacyRows,     \* whether the database may hold rows older than the mutex
    MaxRevision,    \* bound: revisions of the task
    MaxRuns,        \* bound: rows of automation_task_runs
    MaxTime         \* bound: the clock

ASSUME ConstantsAssumption ==
    /\ {Lease, RetryDelay, MaxFailures, MaxRevision} \subseteq Nat \ {0}
    /\ {MaxQueueDelay, MaxTime, MaxRuns, ManualKeys} \subseteq Nat
    /\ Deadlines \subseteq Nat
    /\ Period \in [1..MaxRevision -> Nat \ {0}]
    /\ {Edits, Crashes, LegacyRows} \subseteq BOOLEAN

VARIABLES
    now,     \* the clock
    task,    \* the row of automation_tasks
    run,     \* the rows of automation_task_runs, in the order of insertion
    stage,   \* per run, how far the worker that claimed it got
    sched,   \* per process, the tick of its scheduler
    busy,    \* per process, runningAutomationTasks: the revisions in flight
    edits    \* the revisions that updates in progress started from

vars == <<now, task, run, stage, sched, busy, edits>>

RunId == 1..MaxRuns
NoRun == 0
NoSlot == 0
Revision == 1..MaxRevision
TaskStatus == {"paused", "active", "needs_attention", "archived", "deleted"}
Terminal == {"succeeded", "failed"}

NoRow == [status |-> "none", origin |-> "manual", key |-> <<0, 0>>, slot |-> NoSlot, rev |-> 1,
          until |-> 0, deadline |-> 0, archived |-> FALSE, published |-> FALSE]
IdleTick == [step |-> "idle", at |-> 0, rev |-> 1, slot |-> NoSlot]

\* ${taskId}:${revisionId}:${scheduledFor}, and the key of a portal request.
SlotKey(v, s) == <<v, s>>
ManualKey(m) == <<0, m>>

TaskRow ==
    [status : TaskStatus, rev : Revision, cursor : Nat, failures : Nat,
     holder : RunId \cup {NoRun}, until : Nat]
RunRow ==
    [status : {"none", "running"} \cup Terminal, origin : {"manual", "scheduled"},
     key : Nat \X Nat, slot : Nat, rev : Revision, until : Nat, deadline : Nat,
     archived : BOOLEAN, published : BOOLEAN]

TypeOK ==
    /\ now \in Nat
    /\ task \in TaskRow
    /\ run \in [RunId -> RunRow]
    /\ stage \in [RunId -> [step : {"none", "executing", "saving", "finishing"}, at : Proc]]
    /\ sched \in [Proc -> [step : {"idle", "list", "dispatch", "claim"}, at : Nat,
                           rev : Revision, slot : Nat]]
    /\ busy \in [Proc -> SUBSET Revision]
    /\ edits \subseteq Revision
-----------------------------------------------------------------------------
(* Rows *)

\* Slip: An occurrence at t itself counts as the next one.
NextRunAtOrAfter(v, t) == t + ((Period[v] - (t % Period[v])) % Period[v])

\* nextAutomationRunAt: the first occurrence of the schedule after t.
NextRunAt(v, t) == t + (Period[v] - (t % Period[v]))

Active == {r \in RunId : run[r].status = "running"}
IsFresh(r) == run[r].status = "none" /\ \A q \in RunId : q < r => run[q].status # "none"

\* selectRunByIdempotency: the latest attempt, by base key.
IsLatest(r, k) ==
    /\ run[r].status # "none" /\ run[r].key = k
    /\ \A q \in RunId : q > r /\ run[q].status # "none" => run[q].key # k

\* Slip: The expiry of a lock that is held is not asked for.
ExpiresUnlocked(r) == task.holder = NoRun /\ run[r].until <= now

\* isLeaseExpired, as claim and the reaper call it: the lock's expiry before the run's.
LeaseExpired(r) == IF task.holder # NoRun THEN task.until <= now ELSE run[r].until <= now
Expired == {r \in Active : LeaseExpired(r)}
Live == Active \ Expired

\* Slip: The expiry of the lock is not compared with the clock.
OwnsLock(r) == run[r].status = "running" /\ task.holder = r

\* The guard of assertAutomationTaskRunLeaseSync and of finalize's UPDATE.
OwnsLease(r) == run[r].status = "running" /\ task.holder = r /\ task.until > now
-----------------------------------------------------------------------------
(* What the end of a run does to the task row *)

Released(t, r) == IF t.holder = r THEN [t EXCEPT !.holder = NoRun, !.until = 0] ELSE t

\* Slip: A success does not reset the failures.
AfterSuccessStillCounting(t, v, at) ==
    [t EXCEPT !.cursor = IF t.status = "active" THEN NextRunAt(v, at) ELSE @]

AfterSuccess(t, v, at) ==
    [t EXCEPT !.failures = 0, !.cursor = IF t.status = "active" THEN NextRunAt(v, at) ELSE @]

\* Slip: The task goes on being active after MaxFailures failures.
AfterFailureNoBreaker(t, next) ==
    [t EXCEPT !.failures = @ + 1, !.cursor = IF t.status = "active" THEN next ELSE NoSlot]

AfterFailure(t, next) ==
    LET stopped == t.failures + 1 >= MaxFailures
    IN [t EXCEPT !.failures = @ + 1,
                 !.status = IF stopped THEN "needs_attention" ELSE @,
                 !.cursor = IF t.status = "active" /\ ~stopped THEN next ELSE NoSlot]

\* recoverExpiredRun and recoverExpiredRunAsCompleted: an expired run whose review
\* was published has succeeded, another has failed and leaves its key to the retry.
RecoveredTask(r) ==
    LET t == Released(task, r)
    IN IF run[r].origin # "scheduled" THEN t
       ELSE IF run[r].published THEN AfterSuccess(t, run[r].rev, now)
       ELSE AfterFailure(t, now + RetryDelay)
RecoveredRun(r) ==
    [run[r] EXCEPT !.status = IF run[r].published THEN "succeeded" ELSE "failed",
                   !.archived = ~run[r].published, !.until = 0]

\* Slip: Recovery frees the task but leaves the run running.
RunsUnsettled == run

\* The rows once every expired run is recovered: there is one at most.  A lock whose
\* run has ended, which claim and the queue check would clear, does not exist.
SettledRuns == [r \in RunId |-> IF r \in Expired THEN RecoveredRun(r) ELSE run[r]]
SettledTask == IF Expired = {} THEN task ELSE RecoveredTask(CHOOSE r \in Expired : TRUE)

\* reconcileScheduledAutomationTaskRunInTransaction: the cursor leaves the slot of a
\* terminal run, and no other slot.
Reconciled(t, r, at) ==
    IF run[r].origin # "scheduled" \/ run[r].status \notin Terminal THEN t
    ELSE IF t.status = "needs_attention" THEN [t EXCEPT !.cursor = NoSlot]
    ELSE IF t.status = "active" /\ t.cursor \in {NoSlot, run[r].slot}
         THEN [t EXCEPT !.cursor = NextRunAt(run[r].rev, at)]
    ELSE t
-----------------------------------------------------------------------------
(* claimAutomationTaskRun *)

\* The checks before the transaction, and assertRunIdempotencyCompatible.
Admitted(o, k, s) ==
    /\ task.status \notin {"deleted", "archived"}
    /\ o = "scheduled" /\ task.status # "active" =>
           \E r \in RunId : IsLatest(r, k) /\ run[r].status \in Terminal
    /\ \A r \in RunId : IsLatest(r, k) =>
           run[r].rev = task.rev /\ run[r].origin = o /\ run[r].slot = s

\* A live run wins, whatever its key; one older than the mutex is given the lock.
ClaimJoins ==
    \E r \in Live :
        IF task.holder = NoRun
        THEN /\ task' = [task EXCEPT !.holder = r, !.until = now + Lease]
             /\ run' = [run EXCEPT ![r].until = now + Lease]
        ELSE UNCHANGED <<task, run>>

\* The key of a terminal run is answered with that run.
ClaimReplays(k) ==
    /\ Live = {}
    /\ \E r \in RunId \ Expired :
        /\ IsLatest(r, k)
        /\ run' = SettledRuns
        /\ task' = Reconciled(SettledTask, r, now)

\* UNIQUE(task_id, idempotency_key) stands in the way of the INSERT.
KeyTaken(k) ==
    \E r \in RunId : run[r].status # "none" /\ run[r].key = k /\ ~SettledRuns[r].archived

\* tryAcquireTaskLock and the INSERT succeed.
MayInsert(k) == SettledTask.holder = NoRun /\ ~KeyTaken(k)

MayStart(k) == Live = {} /\ \A r \in RunId \ Expired : ~IsLatest(r, k)

ClaimStarts(p, o, k, s, d) ==
    /\ MayStart(k) /\ MayInsert(k)
    /\ \E r \in RunId :
        /\ IsFresh(r)
        /\ run' = [SettledRuns EXCEPT ![r] =
               [NoRow EXCEPT !.status = "running", !.origin = o, !.key = k, !.slot = s,
                             !.rev = task.rev, !.until = now + Lease, !.deadline = now + d]]
        /\ task' = [SettledTask EXCEPT !.holder = r, !.until = now + Lease]
        /\ stage' = [stage EXCEPT ![r] = [step |-> "executing", at |-> p]]

\* Every other claim starts nothing: it finds a run, is refused, or rolls back.
ClaimDeclines(o, k, s) ==
    /\ \/ Admitted(o, k, s) /\ (ClaimJoins \/ ClaimReplays(k))
       \/ Admitted(o, k, s) /\ MayStart(k) /\ ~MayInsert(k) /\ UNCHANGED <<task, run>>
       \/ ~Admitted(o, k, s) /\ UNCHANGED <<task, run>>
    /\ UNCHANGED stage

\* runAutomationTaskNow for a request of the portal.
ManualClaim(p, m, d) ==
    /\ \/ Admitted("manual", ManualKey(m), NoSlot)
          /\ ClaimStarts(p, "manual", ManualKey(m), NoSlot, d)
       \/ ClaimDeclines("manual", ManualKey(m), NoSlot)
    /\ UNCHANGED <<now, sched, busy, edits>>
-----------------------------------------------------------------------------
(* runAutomationSchedulerTick *)

\* A tick reads the clock and reaps the expired runs.
StartTick(p) ==
    /\ sched[p].step = "idle"
    /\ sched' = [sched EXCEPT ![p] = [IdleTick EXCEPT !.step = "list", !.at = now]]
    /\ run' = SettledRuns
    /\ task' = SettledTask
    /\ UNCHANGED <<now, stage, busy, edits>>

\* The terminal runs reconcileScheduledAutomationTaskRuns selects.
Reconcilable(at) ==
    {r \in RunId : /\ run[r].origin = "scheduled" /\ run[r].status \in Terminal
                   /\ run[r].slot <= at
                   /\ task.status = "needs_attention" \/ task.cursor = run[r].slot}

IsDue(t, at) == t.status = "active" /\ t.cursor # NoSlot /\ t.cursor <= at

\* listDueAutomationTasks: of two runs of one slot either may be first.
ListDue(p) ==
    /\ sched[p].step = "list"
    /\ LET at == sched[p].at
       IN /\ \/ Reconcilable(at) = {} /\ task' = task
             \/ \E r \in Reconcilable(at) : task' = Reconciled(task, r, at)
          /\ sched' = [sched EXCEPT ![p] =
                 IF IsDue(task', at) /\ task'.rev \notin busy[p]
                 THEN [@ EXCEPT !.step = "dispatch", !.rev = task'.rev, !.slot = task'.cursor]
                 ELSE IdleTick]
    /\ UNCHANGED <<now, run, stage, busy, edits>>

TooLate(p) == sched[p].at - sched[p].slot > MaxQueueDelay

\* The due task, as it was listed, is handed to runAutomationTaskNow.
Dispatch(p) ==
    /\ sched[p].step = "dispatch" /\ ~TooLate(p)
    /\ sched' = [sched EXCEPT ![p].step = "claim"]
    /\ busy' = [busy EXCEPT ![p] = @ \cup {sched[p].rev}]
    /\ UNCHANGED <<now, task, run, stage, edits>>

ScheduledClaim(p) ==
    LET v == sched[p].rev
        s == sched[p].slot
        k == SlotKey(v, s)
    IN /\ sched[p].step = "claim"
       /\ \/ /\ Admitted("scheduled", k, s)
             /\ ClaimStarts(p, "scheduled", k, s, Lease)
             /\ UNCHANGED busy
          \/ /\ ClaimDeclines("scheduled", k, s)
             /\ busy' = [busy EXCEPT ![p] = @ \ {v}]
       /\ sched' = [sched EXCEPT ![p] = IdleTick]
       /\ UNCHANGED <<now, edits>>

\* The checks of expireStaleScheduledAutomationTaskRun.
MayExpire(v, s) ==
    /\ task.status = "active" /\ task.rev = v /\ task.cursor \in {NoSlot, s}
    /\ Active = {} /\ \A r \in RunId : ~IsLatest(r, SlotKey(v, s))

\* A slot that waited too long becomes a failed run that nobody executes.
ExpireSlot(p) ==
    LET v == sched[p].rev
        s == sched[p].slot
        k == SlotKey(v, s)
    IN /\ sched[p].step = "dispatch" /\ TooLate(p)
       /\ \/ /\ MayExpire(v, s)
             /\ \E r \in RunId :
                 /\ IsFresh(r)
                 /\ run' = [run EXCEPT ![r] =
                        [NoRow EXCEPT !.status = "failed", !.origin = "scheduled", !.key = k,
                                      !.slot = s, !.rev = v]]
             /\ task' = AfterFailure([task EXCEPT !.holder = NoRun, !.until = 0],
                                     NextRunAt(v, now))
          \/ /\ Admitted("scheduled", k, s) /\ task.rev = v
             /\ \E r \in RunId : IsLatest(r, k) /\ task' = Reconciled(task, r, now)
             /\ UNCHANGED run
          \/ /\ ~MayExpire(v, s)
             /\ Admitted("scheduled", k, s) /\ task.rev = v => \A r \in RunId : ~IsLatest(r, k)
             /\ UNCHANGED <<task, run>>
       /\ sched' = [sched EXCEPT ![p] = IdleTick]
       /\ UNCHANGED <<now, stage, busy, edits>>
-----------------------------------------------------------------------------
(* The worker of a claimed run *)

Works(r, steps) == stage[r].step \in steps

\* reviews.save publishes the report the run is about; nobody asks for the lease.
Publish(r) ==
    /\ Works(r, {"executing"}) /\ ~run[r].published
    /\ run' = [run EXCEPT ![r].published = TRUE]
    /\ UNCHANGED <<now, task, stage, sched, busy, edits>>

\* assertAutomationTaskRunLease before the staged file is committed.
AssertLease(r) ==
    /\ Works(r, {"executing"}) /\ OwnsLease(r) /\ run[r].deadline > now
    /\ stage' = [stage EXCEPT ![r].step = "saving"]
    /\ UNCHANGED <<now, task, run, sched, busy, edits>>

\* writeAutomationTaskWorkingAsset.
SaveAsset(r) ==
    /\ Works(r, {"saving"})
    /\ stage' = [stage EXCEPT ![r].step = "finishing"]
    /\ UNCHANGED <<now, task, run, sched, busy, edits>>

\* Slip: A manual run counts like a scheduled one.
FinishedTaskAnyOrigin(r, final) ==
    LET t == Released(task, r)
    IN IF final = "succeeded" THEN AfterSuccess(t, run[r].rev, now)
       ELSE AfterFailure(t, NextRunAt(run[r].rev, now))

\* The task row after finalizeAutomationTaskRunInTransaction.
FinishedTask(r, final) ==
    LET t == Released(task, r)
    IN IF run[r].origin # "scheduled" THEN t
       ELSE IF final = "succeeded" THEN AfterSuccess(t, run[r].rev, now)
       ELSE AfterFailure(t, NextRunAt(run[r].rev, now))

FinalStatus(r, asked) == IF run[r].deadline <= now THEN "failed" ELSE asked

\* Slip: Only a finish that was written gives the key of the dispatch back.
FinishRunKeepsKey(r, asked) ==
    /\ Works(r, IF asked = "succeeded" THEN {"finishing"} ELSE {"executing", "saving", "finishing"})
    /\ IF OwnsLease(r)
       THEN LET final == FinalStatus(r, asked)
            IN /\ run' = [run EXCEPT ![r].status = final, ![r].until = 0]
               /\ task' = FinishedTask(r, final)
               /\ busy' = IF run[r].origin = "scheduled"
                          THEN [busy EXCEPT ![stage[r].at] = @ \ {run[r].key[1]}] ELSE busy
       ELSE UNCHANGED <<task, run, busy>>
    /\ stage' = [stage EXCEPT ![r].step = "none"]
    /\ UNCHANGED <<now, sched, edits>>

\* finishAutomationTaskRun, and the finally block of the dispatch.  Without the lease
\* it throws, the runner reports the failure, and that throws too: nothing is written.
FinishRun(r, asked) ==
    /\ Works(r, IF asked = "succeeded" THEN {"finishing"} ELSE {"executing", "saving", "finishing"})
    /\ IF OwnsLease(r)
       THEN LET final == FinalStatus(r, asked)
            IN /\ run' = [run EXCEPT ![r].status = final, ![r].until = 0]
               /\ task' = FinishedTask(r, final)
       ELSE UNCHANGED <<task, run>>
    /\ stage' = [stage EXCEPT ![r].step = "none"]
    /\ busy' = IF run[r].origin = "scheduled"
               THEN [busy EXCEPT ![stage[r].at] = @ \ {run[r].key[1]}] ELSE busy
    /\ UNCHANGED <<now, sched, edits>>
-----------------------------------------------------------------------------
(* The user, the clock and restarts *)

Untouched == UNCHANGED <<now, run, stage, sched, busy>>

MayActivate == task.status \notin {"needs_attention", "deleted", "archived"}

\* setAutomationTaskStatus.
ActivateTask ==
    /\ MayActivate
    /\ task' = [task EXCEPT !.status = "active", !.failures = 0,
                            !.cursor = NextRunAt(task.rev, now)]
    /\ Untouched /\ UNCHANGED edits
PauseTask ==
    /\ task.status \notin {"deleted", "archived"}
    /\ task' = [task EXCEPT !.status = "paused", !.cursor = NoSlot]
    /\ Untouched /\ UNCHANGED edits
ArchiveTask ==
    /\ task.status \notin {"deleted", "archived"}
    /\ task' = [task EXCEPT !.status = "archived", !.cursor = NoSlot]
    /\ Untouched /\ UNCHANGED edits

\* deleteAutomationTask: not while a run is in flight.
DeleteTask ==
    /\ task.status # "deleted" /\ Active = {}
    /\ task' = [task EXCEPT !.status = "deleted", !.cursor = NoSlot]
    /\ Untouched /\ UNCHANGED edits

\* updateAutomationTask checks the task, and then awaits the assets it is given.
BeginEdit ==
    /\ Edits
    /\ task.status \notin {"deleted", "archived"}
    /\ edits' = edits \cup {task.rev}
    /\ Untouched /\ UNCHANGED task

\* Its transaction.  UNIQUE(task_id, revision) refuses the second of two updates.
CommitEdit(v) ==
    /\ v \in edits
    /\ edits' = edits \ {v}
    /\ IF v = task.rev
       THEN /\ v + 1 \in Revision
            /\ task' = [task EXCEPT !.status = "paused", !.rev = v + 1, !.cursor = NoSlot,
                                    !.failures = 0]
       ELSE UNCHANGED task
    /\ Untouched

PassTime ==
    /\ now < MaxTime
    /\ now' = now + 1
    /\ UNCHANGED <<task, run, stage, sched, busy, edits>>

\* A restart loses the tick, the keys in flight and the workers of the process.
Restart(p) ==
    /\ Crashes
    /\ stage' = [r \in RunId |-> IF stage[r].at = p THEN [stage[r] EXCEPT !.step = "none"] ELSE stage[r]]
    /\ sched' = [sched EXCEPT ![p] = IdleTick]
    /\ busy' = [busy EXCEPT ![p] = {}]
    /\ UNCHANGED <<now, task, run, edits>>
-----------------------------------------------------------------------------
NewTask == [status |-> "paused", rev |-> 1, cursor |-> NoSlot, failures |-> 0,
            holder |-> NoRun, until |-> 0]

\* A run older than the mutex, still running and without a lock; its claimed_at is 0.
LegacyRunning ==
    [NoRow EXCEPT !.status = "running", !.key = ManualKey(1), !.until = Lease, !.deadline = Lease]

\* A slot that ended while the cursor still points at it.
LegacyEnded(s) ==
    [NoRow EXCEPT !.status = "succeeded", !.origin = "scheduled", !.key = SlotKey(1, s), !.slot = s]

Init ==
    /\ now = 0
    /\ \/ task = NewTask /\ run = [r \in RunId |-> NoRow]
       \/ /\ LegacyRows
          /\ task = NewTask
          /\ run = [r \in RunId |-> IF r = 1 THEN LegacyRunning ELSE NoRow]
       \/ /\ LegacyRows
          /\ task = [NewTask EXCEPT !.status = "active", !.cursor = Period[1]]
          /\ run = [r \in RunId |-> IF r = 1 THEN LegacyEnded(Period[1]) ELSE NoRow]
    /\ stage \in {[r \in RunId |-> [step |-> "none", at |-> p]] : p \in Proc}
    /\ sched = [p \in Proc |-> IdleTick]
    /\ busy = [p \in Proc |-> {}]
    /\ edits = {}

TickStep(p) == StartTick(p) \/ ListDue(p) \/ Dispatch(p) \/ ScheduledClaim(p) \/ ExpireSlot(p)
WorkerStep(r) ==
    Publish(r) \/ AssertLease(r) \/ SaveAsset(r) \/ \E s \in Terminal : FinishRun(r, s)
UserStep ==
    \/ ActivateTask \/ PauseTask \/ ArchiveTask \/ DeleteTask \/ BeginEdit
    \/ \E v \in Revision : CommitEdit(v)
    \/ \E p \in Proc, m \in 1..ManualKeys, d \in Deadlines : ManualClaim(p, m, d)

Next ==
    \/ PassTime
    \/ UserStep
    \/ \E p \in Proc : TickStep(p) \/ Restart(p)
    \/ \E r \in RunId : WorkerStep(r)

Spec == Init /\ [][Next]_vars
\* setInterval goes on ticking, and each step of a tick returns; workers may hang.
SchedulerFairness == WF_vars(PassTime) /\ \A p \in Proc : WF_vars(TickStep(p))
FairSpec == Spec /\ SchedulerFairness

\* The agent turn of a worker returns, with a result or an error.
WorkersReturn ==
    \A r \in RunId : WF_vars(AssertLease(r) \/ SaveAsset(r) \/ \E s \in Terminal : FinishRun(r, s))

\* Restarts, which may go on for ever, do not hit every tick at the same step.
TicksGetThrough ==
    \A p \in Proc : /\ SF_vars(ListDue(p)) /\ SF_vars(Dispatch(p))
                    /\ SF_vars(ScheduledClaim(p)) /\ SF_vars(ExpireSlot(p))
-----------------------------------------------------------------------------
(* Properties *)

\* The task row is a mutex over every way to start a run: at most one run is running,
\* the lock names a running run, and both rows agree on when its lease ends.
OneRunAtATime ==
    /\ \A r, q \in Active : r = q
    /\ task.holder # NoRun => task.holder \in Active /\ task.until = run[task.holder].until

\* A worker that comes back late does not change the outcome that recovery, or its own
\* earlier report, has written; nor is an archived attempt ever taken out again.
EndedRunStays ==
    [][\A r \in RunId : run[r].status \in Terminal =>
           run'[r].status = run[r].status /\ run'[r].archived = run[r].archived]_vars

Starts(r, origin) ==
    /\ run[r].status = "none" /\ run'[r].status = "running"
    /\ run'[r].origin = origin

\* A task is due again exactly when it is active.  An end of a run never leaves an active
\* task without a next occurrence, never schedules a paused, stopped or deleted one, and
\* an active task has not used up its failures; and what a tick listed while the task
\* was active is started only if it still is when the claim comes.
ScheduleMatchesStatus ==
    /\ [](/\ task.cursor # NoSlot <=> task.status = "active"
          /\ task.status = "active" => task.failures < MaxFailures)
    /\ [][\A r \in RunId : Starts(r, "scheduled") => task.status = "active"]_vars

\* One occurrence is executed once, across processes, restarts, replays and edits: of
\* the runs of a slot all but one gave their key away because their lease expired.  A
\* run whose report was out when its process died gives nothing away, nor does its end
\* make the task due for a retry.
SlotRunsOnce ==
    /\ [](\A r, q \in RunId :
              /\ r # q /\ run[r].slot # NoSlot /\ run[r].slot = run[q].slot
              => run[r].archived \/ run[q].archived)
    /\ [][\A r \in RunId :
              run[r].status = "running" /\ run[r].published =>
                  /\ ~run'[r].archived
                  /\ run'[r].status = "succeeded" /\ run[r].origin = "scheduled" =>
                        task'.cursor \in {NoSlot, NextRunAt(run[r].rev, now)}]_vars

Ends(r, outcome) ==
    /\ run[r].status \notin Terminal /\ run'[r].status = outcome
    /\ run'[r].origin = "scheduled"

\* The circuit breaker counts the ends of scheduled runs and nothing else, each once,
\* whoever wrote the end: the worker, the reaper, another claim or the queue check.
FailuresCountEnds ==
    [][/\ (\E r \in RunId : Ends(r, "failed")) => task'.failures = task.failures + 1
       /\ (\E r \in RunId : Ends(r, "succeeded")) => task'.failures = 0
       /\ task'.failures > task.failures => \E r \in RunId : Ends(r, "failed")]_vars

\* Who dispatched revision v and has not come back: the tick of process p that is about
\* to claim, or the worker of a run it claimed for v.
DispatchedBy(p, v) ==
    \/ sched[p].step = "claim" /\ sched[p].rev = v
    \/ \E r \in RunId : /\ stage[r].step # "none" /\ stage[r].at = p
                         /\ run[r].origin = "scheduled" /\ run[r].key[1] = v

\* A process leaves a revision out of its ticks exactly while it is at work on it: no key
\* stays behind in runningAutomationTasks, which would stop the schedule until the next
\* restart, and none goes while a worker is out, which would start a second one.
KeysAreHeldByWork == \A p \in Proc, v \in Revision : v \in busy[p] <=> DispatchedBy(p, v)

\* The end of a manual run leaves the cadence and the circuit breaker alone.
ManualRunsObserve ==
    [][\A r \in RunId :
           /\ run[r].status = "running" /\ run[r].origin = "manual"
           /\ run'[r].status \in Terminal
           => /\ task'.status = task.status /\ task'.cursor = task.cursor
              /\ task'.failures = task.failures]_vars

\* No run that was granted the lock stays running, also when its worker hangs or its
\* process restarts for ever.  Leases that end after MaxTime are cut off by the bound.
RunsEnd ==
    \A r \in RunId :
        run[r].status = "running" /\ task.holder = r /\ task.until <= MaxTime
            ~> run[r].status # "running"

\* If workers return and ticks get through, the cursor leaves every occurrence in the
\* end: it is executed, expired, retried or cancelled.  Those due in the last units
\* before MaxTime, and leases that end after it, may be cut off by the bound.
DueSlotsPass ==
    WorkersReturn /\ TicksGetThrough =>
        \A s \in 1..(MaxTime - MaxQueueDelay - 1) :
            task.cursor = s ~> task.cursor # s \/ task.until > MaxTime

\* The lease protocol the task row promises, and that every step keeps to it.
Phase(r) == IF run[r].status \in Terminal THEN "ended" ELSE run[r].status
TL == INSTANCE TaskLease WITH
          phase <- [r \in RunId |-> Phase(r)],
          until <- [r \in RunId |-> run[r].until],
          working <- [r \in RunId |-> stage[r].step # "none"]
ImplementsTaskLease == TL!LeaseSpec
=============================================================================
