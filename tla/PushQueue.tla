------------------------------ MODULE PushQueue ------------------------------
(***************************************************************************)
(* The durable push queue of src/src/services/push-queue.ts: the rows of   *)
(* the table push_jobs, the drains (concurrent calls of processDuePushJobs *)
(* made by the 30 s interval and by every scheduler push), the external    *)
(* WeChat channel that delivers a message chunk by chunk, the inbound      *)
(* message that resumes parked jobs, and the delivery status the queue     *)
(* writes back to the automation run a job came from.                      *)
(*                                                                         *)
(* Time.  One unit is the shortest external call.  SQLite statements are   *)
(* synchronous (better-sqlite3), so the clock advances only while every    *)
(* drain is idle or inside a call; drains interleave at every await.       *)
(***************************************************************************)
EXTENDS Naturals, Sequences, FiniteSets

CONSTANTS
    Jobs,                \* logical messages, one per idempotency key
    Drains,              \* concurrent invocations of processDuePushJobs
    NoJob,               \* a drain that handles no job
    Never,               \* expires_at IS NULL
    Source,              \* Source[j]: the job's source column
    Window,              \* Window[j]: validity given at enqueue, or Never
    Summaries,           \* jobs with message_kind automation_summary and a run
    AutomationValidity,  \* AUTOMATION_PUSH_VALIDITY_MS
    Chunks,              \* chunks a message is split into
    MaxAttempts,         \* max_attempts
    Lease,               \* PUSH_PROCESSING_LEASE_MS
    DeferDelay,          \* USER_ACTIVE_DEFER_MS
    RetryDelays,         \* RETRY_DELAYS_MS
    Limit,               \* options.limit
    MaxCall,             \* bound: units one external call lasts at most
    Horizon,             \* bound: last instant of the clock
    LastEnqueue,         \* bound: no message is enqueued after this instant
    FaultsUntil          \* bound: no crash after this instant

ASSUME ConstantsAssumption ==
    /\ NoJob \notin Jobs
    /\ Never \notin Nat
    /\ Source \in [Jobs -> {"automation", "scheduler", "onboarding_commit", "manual"}]
    /\ Window \in [Jobs -> Nat \cup {Never}]
    /\ Summaries \subseteq {j \in Jobs : Source[j] = "automation"}
    /\ AutomationValidity \in Nat
    /\ Chunks \in Nat \ {0}
    /\ MaxAttempts \in Nat \ {0}
    /\ Lease \in Nat
    /\ DeferDelay \in Nat
    /\ RetryDelays \in Seq(Nat \ {0}) /\ Len(RetryDelays) > 0
    /\ Limit \in Nat \ {0}
    /\ MaxCall \in Nat \ {0}
    /\ Horizon \in Nat
    /\ LastEnqueue \in Nat
    /\ FaultsUntil \in Nat

VARIABLES
    clock,
    row,        \* row[j]: the push_jobs row
    drain,      \* drain[d]: locals of a call of processDuePushJobs
    busy,       \* hasActiveWeixinComplexTask for the (single) user
    reached,    \* reached[j][c]: how often chunk c reached the user, up to 2
    delivery,   \* delivery[j]: delivery_status of the originating run
    fallback,   \* fallback[j]: the delivery_fallback attention item
    fault       \* fault[j]: faults that hit the job, for the properties only

vars == <<clock, row, drain, busy, reached, delivery, fallback, fault>>

-----------------------------------------------------------------------------
Statuses == {"absent", "pending", "processing", "retry", "awaiting_user",
             "sent", "dead", "expired"}
Claimable == {"pending", "retry", "processing"}
Terminal == {"sent", "dead", "expired"}
Deferable == {j \in Jobs : Source[j] \in {"scheduler", "onboarding_commit", "automation"}}

Row == [status: Statuses, attempts: Nat, nextRetryAt: Nat,
        expiresAt: Nat \cup {Never}, sentChunks: 0..Chunks]

\* What SELECT returned for one due job.
Snapshot == [job: Jobs \cup {NoJob}, attempts: Nat, nextRetryAt: Nat, sentChunks: 0..Chunks]
NoSnapshot == [job |-> NoJob, attempts |-> 0, nextRetryAt |-> 0, sentChunks |-> 0]

Working == {"claimed", "sending", "syncing"}
Drain == [pc: {"idle", "next"} \cup Working, now: Nat, due: SUBSET Snapshot,
          cur: Snapshot, index: 0..Chunks, began: Nat,
          report: {"pending", "sent", "failed", "parked"}]
IdleDrain == [pc |-> "idle", now |-> 0, due |-> {}, cur |-> NoSnapshot,
              index |-> 0, began |-> 0, report |-> "pending"]

Faults == {"overrun", "crash", "throw", "lost_ack", "sync"}

TypeOK ==
    /\ clock \in Nat
    /\ row \in [Jobs -> Row]
    /\ drain \in [Drains -> Drain]
    /\ \A d \in Drains : drain[d].pc \in Working => drain[d].cur.job \in Jobs
    /\ \A d \in Drains : \A s \in drain[d].due : s.job \in Jobs
    /\ busy \in BOOLEAN
    /\ reached \in [Jobs -> [1..Chunks -> 0..2]]
    /\ delivery \in [Jobs -> {"not_requested", "pending", "sent", "failed"}]
    /\ fallback \in [Jobs -> {"none", "open", "resolved"}]
    /\ fault \in [Jobs -> SUBSET Faults]

AbsentRow == [status |-> "absent", attempts |-> 0, nextRetryAt |-> 0,
              expiresAt |-> Never, sentChunks |-> 0]

Init ==
    /\ clock = 0
    /\ row = [j \in Jobs |-> AbsentRow]
    /\ drain = [d \in Drains |-> IdleDrain]
    /\ busy = FALSE
    /\ reached = [j \in Jobs |-> [c \in 1..Chunks |-> 0]]
    /\ delivery = [j \in Jobs |-> "not_requested"]
    /\ fallback = [j \in Jobs |-> "none"]
    /\ fault = [j \in Jobs |-> {}]

-----------------------------------------------------------------------------
\* isExpired(expiresAt, now)
IsExpired(j, t) == row[j].expiresAt # Never /\ row[j].expiresAt <= t

\* Mutants of IsDue: the lease ignored, the processing jobs left out.
IsDueWithoutLease(j, t) == row[j].status \in Claimable
IsDueNeverReclaims(j, t) == row[j].status \in {"pending", "retry"} /\ row[j].nextRetryAt <= t

\* The WHERE clause that both the SELECT and the claiming UPDATE carry.
IsDue(j, t) == row[j].status \in Claimable /\ row[j].nextRetryAt <= t

Handles(d, j) == drain[d].pc \in Working /\ drain[d].cur.job = j

\* The lease a drain holds ends two minutes after its batch began.
LeaseEnd(d) == drain[d].now + Lease

SnapshotOf(j) == [job |-> j, attempts |-> row[j].attempts,
                  nextRetryAt |-> row[j].nextRetryAt, sentChunks |-> row[j].sentChunks]

Blame(j, f) == fault' = [fault EXCEPT ![j] = @ \cup {f}]

\* The loop goes on to the next job of the batch.
Continue(d) == drain' = [drain EXCEPT ![d] =
    [@ EXCEPT !.pc = "next", !.cur = NoSnapshot, !.index = 0, !.began = 0, !.report = "pending"]]

\* The loop calls syncAutomationDelivery, which returns at once for a job
\* that has no originating run.
ContinueWithSync(d, report) ==
    IF drain[d].cur.job \in Summaries
    THEN drain' = [drain EXCEPT ![d] = [@ EXCEPT !.pc = "syncing", !.report = report]]
    ELSE Continue(d)

-----------------------------------------------------------------------------
(* Producers and the world outside the queue. *)

\* enqueuePushJob: an existing key returns the existing row, so one logical
\* message is inserted once.  deliverResult writes the run's pending status
\* right after the insert, before any timer can fire.
Enqueue(j) ==
    /\ clock <= LastEnqueue
    /\ row[j].status = "absent"
    /\ row' = [row EXCEPT ![j] =
         [status |-> "pending", attempts |-> 0, nextRetryAt |-> clock, sentChunks |-> 0,
          expiresAt |-> IF Window[j] # Never THEN clock + Window[j]
                        ELSE IF Source[j] = "automation" THEN clock + AutomationValidity
                        ELSE Never]]
    /\ delivery' = IF j \in Summaries THEN [delivery EXCEPT ![j] = "pending"] ELSE delivery
    /\ UNCHANGED <<clock, drain, busy, reached, fallback, fault>>

\* Mutant of Inbound: parked jobs past their window are left alone.
InboundWithoutExpiry ==
    /\ row' = [j \in Jobs |->
         IF row[j].status = "awaiting_user" /\ j \in Deferable
            /\ row[j].expiresAt # Never /\ row[j].expiresAt > clock
         THEN [row[j] EXCEPT !.status = "retry", !.nextRetryAt = clock] ELSE row[j]]
    /\ UNCHANGED <<clock, drain, busy, reached, delivery, fallback, fault>>

\* resumeAwaitingWeixinDeliveries: the user writes, a fresh conversation
\* exists; parked jobs past their window expire, the others are due at once.
\* The message is a network event, a batch selects and claims within one run
\* of the event loop: the two never share an instant.
Inbound ==
    /\ \A d \in Drains : drain[d].pc # "idle" => drain[d].now < clock
    /\ \E j \in Jobs : row[j].status = "awaiting_user"
    /\ row' = [j \in Jobs |->
         IF row[j].status # "awaiting_user" \/ row[j].expiresAt = Never THEN row[j]
         ELSE IF row[j].expiresAt <= clock THEN [row[j] EXCEPT !.status = "expired"]
         ELSE IF j \in Deferable THEN [row[j] EXCEPT !.status = "retry", !.nextRetryAt = clock]
         ELSE row[j]]
    /\ UNCHANGED <<clock, drain, busy, reached, delivery, fallback, fault>>

\* markWeixinComplexTaskActive / clearWeixinComplexTaskActive and its TTL.
ToggleBusy ==
    /\ busy' = ~busy
    /\ UNCHANGED <<clock, row, drain, reached, delivery, fallback, fault>>

Tick ==
    /\ clock < Horizon
    /\ \A d \in Drains : \/ drain[d].pc = "idle"
                         \/ drain[d].pc = "sending" /\ clock < drain[d].began + MaxCall
    /\ clock' = clock + 1
    /\ UNCHANGED <<row, drain, busy, reached, delivery, fallback, fault>>

-----------------------------------------------------------------------------
(* One call of processDuePushJobs. *)

\* SELECT ... ORDER BY next_retry_at LIMIT n: the oldest due jobs.
StartDrain(d) ==
    /\ drain[d].pc = "idle"
    /\ LET due == {j \in Jobs : IsDue(j, clock)}
       IN  \E batch \in SUBSET due :
             /\ batch # {}
             /\ batch = due \/ Cardinality(batch) = Limit
             /\ Cardinality(batch) <= Limit
             /\ \A j \in batch, k \in due \ batch : row[j].nextRetryAt <= row[k].nextRetryAt
             /\ drain' = [drain EXCEPT ![d] =
                  [IdleDrain EXCEPT !.pc = "next", !.now = clock,
                                    !.due = {SnapshotOf(j) : j \in batch}]]
    /\ UNCHANGED <<clock, row, busy, reached, delivery, fallback, fault>>

IsNext(d, s) == /\ drain[d].pc = "next"
                /\ s \in drain[d].due
                /\ \A t \in drain[d].due : s.nextRetryAt <= t.nextRetryAt

\* claimDuePushJob with the batch's own, possibly old, now.
ClaimDuePushJob(d, s) ==
    /\ IsNext(d, s)
    /\ IsDue(s.job, drain[d].now)
    /\ row' = [row EXCEPT ![s.job] =
         [@ EXCEPT !.status = "processing", !.nextRetryAt = LeaseEnd(d)]]
    /\ drain' = [drain EXCEPT ![d] =
         [@ EXCEPT !.pc = "claimed", !.due = drain[d].due \ {s}, !.cur = s]]
    /\ IF \E e \in Drains : Handles(e, s.job) /\ LeaseEnd(e) <= clock
       THEN Blame(s.job, "overrun")
       ELSE UNCHANGED fault
    /\ UNCHANGED <<clock, busy, reached, delivery, fallback>>

\* The claim failed: another drain took the job first.
SkipUnclaimed(d, s) ==
    /\ IsNext(d, s)
    /\ ~IsDue(s.job, drain[d].now)
    /\ drain' = [drain EXCEPT ![d] = [@ EXCEPT !.due = drain[d].due \ {s}]]
    /\ UNCHANGED <<clock, row, busy, reached, delivery, fallback, fault>>

EndDrain(d) ==
    /\ drain[d].pc = "next"
    /\ drain[d].due = {}
    /\ drain' = [drain EXCEPT ![d] = IdleDrain]
    /\ UNCHANGED <<clock, row, busy, reached, delivery, fallback, fault>>

\* markExpired(id, "expired_before_delivery", now)
ExpireClaimed(d) ==
    LET j == drain[d].cur.job IN
    /\ drain[d].pc = "claimed"
    /\ IsExpired(j, drain[d].now)
    /\ row' = [row EXCEPT ![j] = [@ EXCEPT !.status = "expired", !.nextRetryAt = drain[d].now]]
    /\ ContinueWithSync(d, "failed")
    /\ UNCHANGED <<clock, busy, reached, delivery, fallback, fault>>

\* deferJob: the user has an active complex analysis.
DeferClaimed(d) ==
    LET j == drain[d].cur.job IN
    /\ drain[d].pc = "claimed"
    /\ ~IsExpired(j, drain[d].now)
    /\ busy /\ j \in Deferable
    /\ row' = [row EXCEPT ![j] =
         [@ EXCEPT !.status = "retry", !.nextRetryAt = clock + DeferDelay]]
    /\ Continue(d)
    /\ UNCHANGED <<clock, busy, reached, delivery, fallback, fault>>

\* Mutant of BeginSend: skips one chunk too many.
BeginSendSkipsOneMore(d) ==
    /\ drain[d].pc = "claimed"
    /\ ~IsExpired(drain[d].cur.job, drain[d].now)
    /\ drain' = [drain EXCEPT ![d] =
         [@ EXCEPT !.pc = "sending", !.began = clock,
                   !.index = IF drain[d].cur.sentChunks < Chunks
                             THEN drain[d].cur.sentChunks + 1 ELSE Chunks]]
    /\ UNCHANGED <<clock, row, busy, reached, delivery, fallback, fault>>

\* sender(job): the external call starts after the chunks already sent.
BeginSend(d) ==
    LET j == drain[d].cur.job IN
    /\ drain[d].pc = "claimed"
    /\ ~IsExpired(j, drain[d].now)
    /\ ~(busy /\ j \in Deferable)
    /\ drain' = [drain EXCEPT ![d] =
         [@ EXCEPT !.pc = "sending", !.index = drain[d].cur.sentChunks, !.began = clock]]
    /\ UNCHANGED <<clock, row, busy, reached, delivery, fallback, fault>>

\* Chunk c of job j arrives at the user.
Reach(j, c) == reached' = [reached EXCEPT ![j][c] = IF @ = 2 THEN 2 ELSE @ + 1]

\* pushTextDetailed: one chunk delivered and acknowledged.
DeliverChunk(d) ==
    LET j == drain[d].cur.job IN
    /\ drain[d].pc = "sending"
    /\ drain[d].index < Chunks
    /\ Reach(j, drain[d].index + 1)
    /\ drain' = [drain EXCEPT ![d] = [@ EXCEPT !.index = drain[d].index + 1]]
    /\ UNCHANGED <<clock, row, busy, delivery, fallback, fault>>

CallReturns(d) == drain[d].pc = "sending" /\ clock > drain[d].began

\* attempts = job.attempts + 1, from the snapshot.
AttemptsOf(d) == drain[d].cur.attempts + 1

SendSucceeds(d) ==
    LET j == drain[d].cur.job IN
    /\ CallReturns(d)
    /\ drain[d].index = Chunks
    /\ row' = [row EXCEPT ![j] = [@ EXCEPT !.status = "sent", !.attempts = AttemptsOf(d)]]
    /\ ContinueWithSync(d, "sent")
    /\ UNCHANGED <<clock, busy, reached, delivery, fallback, fault>>

\* The failing chunk may have arrived although its answer was an error.
FailingChunk(d) ==
    LET j == drain[d].cur.job IN
    \/ UNCHANGED <<reached, fault>>
    \/ /\ Reach(j, drain[d].index + 1)
       /\ Blame(j, "lost_ack")

\* context_expired, session_expired, no_recent_conversation, account_mismatch
\* for a deferable source: markAwaitingUser.
SendWaitsForUser(d) ==
    LET j == drain[d].cur.job IN
    /\ CallReturns(d)
    /\ drain[d].index < Chunks
    /\ j \in Deferable
    /\ row' = [row EXCEPT ![j] = [@ EXCEPT !.status = "awaiting_user",
                                          !.attempts = AttemptsOf(d),
                                          !.sentChunks = drain[d].index]]
    /\ ContinueWithSync(d, "parked")
    /\ UNCHANGED <<clock, busy, reached, delivery, fallback, fault>>

\* RETRY_DELAYS_MS[min(attempts - 1, length - 1)]
DelayAfter(attempts) ==
    RetryDelays[IF attempts < Len(RetryDelays) THEN attempts ELSE Len(RetryDelays)]

\* markFailed: expiry wins over exhaustion, exhaustion over a retry.
FailedRow(d, permanent, sentChunks) ==
    LET r == row[drain[d].cur.job]
        next == clock + DelayAfter(AttemptsOf(d))
        expired == r.expiresAt # Never /\ r.expiresAt <= next
        dead == permanent \/ AttemptsOf(d) >= MaxAttempts
    IN  [r EXCEPT !.status = IF expired THEN "expired" ELSE IF dead THEN "dead" ELSE "retry",
                  !.attempts = AttemptsOf(d),
                  !.nextRetryAt = IF expired THEN r.expiresAt ELSE next,
                  !.sentChunks = sentChunks]

\* Mutant of MarkFailed: every outcome reported to the run as pending.
MarkFailedReportsPending(d, permanent, sentChunks) ==
    /\ row' = [row EXCEPT ![drain[d].cur.job] = FailedRow(d, permanent, sentChunks)]
    /\ ContinueWithSync(d, "pending")

MarkFailed(d, permanent, sentChunks) ==
    LET failed == FailedRow(d, permanent, sentChunks) IN
    /\ row' = [row EXCEPT ![drain[d].cur.job] = failed]
    /\ ContinueWithSync(d, IF failed.status = "retry" THEN "pending" ELSE "failed")

\* A failure the call reports: a channel error after some chunks, a waiting
\* reason for a source that is not parked, or no connected account at all.
SendFails(d, permanent) ==
    /\ CallReturns(d)
    /\ drain[d].index < Chunks
    /\ permanent => drain[d].index = drain[d].cur.sentChunks
    /\ MarkFailed(d, permanent, drain[d].index)
    /\ IF permanent THEN UNCHANGED <<reached, fault>> ELSE FailingChunk(d)
    /\ UNCHANGED <<clock, busy, delivery, fallback>>

\* The catch block: the sender or the bookkeeping after it threw.  It gives
\* markFailed no sentChunks, which defaults to 0.
SendThrows(d) ==
    /\ CallReturns(d)
    /\ MarkFailed(d, FALSE, 0)
    /\ Blame(drain[d].cur.job, "throw")
    /\ UNCHANGED <<clock, busy, reached, delivery, fallback>>

\* syncAutomationDelivery, and for a parked summary
\* recordDeliveryFallbackAttention (one item per run, never reopened).
SyncDelivery(d) ==
    LET j == drain[d].cur.job
        report == drain[d].report
    IN
    /\ drain[d].pc = "syncing"
    /\ delivery' = [delivery EXCEPT ![j] = IF report = "parked" THEN @ ELSE report]
    /\ fallback' = [fallback EXCEPT ![j] =
         CASE report = "parked" /\ @ = "none" -> "open"
           [] report = "sent" /\ @ = "open" -> "resolved"
           [] OTHER -> @]
    /\ Continue(d)
    /\ UNCHANGED <<clock, row, busy, reached, fault>>

\* The write-back throws and is only logged.
SyncFails(d) ==
    /\ drain[d].pc = "syncing"
    /\ Blame(drain[d].cur.job, "sync")
    /\ Continue(d)
    /\ UNCHANGED <<clock, row, busy, reached, delivery, fallback>>

\* What is lost when a drain ends where it stands: the write-back, or the call.
LossOf(d) == IF drain[d].pc = "syncing" THEN "sync" ELSE "crash"

\* A statement of the loop itself rejects: the drain ends where it stands and
\* the job it holds keeps its lease.
DrainAborts(d) ==
    /\ clock <= FaultsUntil
    /\ drain[d].pc \in Working
    /\ Blame(drain[d].cur.job, LossOf(d))
    /\ drain' = [drain EXCEPT ![d] = IdleDrain]
    /\ UNCHANGED <<clock, row, busy, reached, delivery, fallback>>

\* The server process stops: drains and in-memory activity are gone.
Crash ==
    /\ clock <= FaultsUntil
    /\ fault' = [j \in Jobs |-> fault[j] \cup {LossOf(d) : d \in {e \in Drains : Handles(e, j)}}]
    /\ drain' = [d \in Drains |-> IdleDrain]
    /\ busy' = FALSE
    /\ UNCHANGED <<clock, row, reached, delivery, fallback>>

-----------------------------------------------------------------------------
DrainStep(d) ==
    \/ \E s \in drain[d].due : ClaimDuePushJob(d, s) \/ SkipUnclaimed(d, s)
    \/ EndDrain(d)
    \/ ExpireClaimed(d) \/ DeferClaimed(d) \/ BeginSend(d)
    \/ DeliverChunk(d) \/ SendSucceeds(d) \/ SendWaitsForUser(d)
    \/ \E permanent \in BOOLEAN : SendFails(d, permanent)
    \/ SendThrows(d)
    \/ SyncDelivery(d) \/ SyncFails(d)

Next ==
    \/ \E j \in Jobs : Enqueue(j)
    \/ Inbound \/ ToggleBusy \/ Tick \/ Crash
    \/ \E d \in Drains : StartDrain(d) \/ DrainStep(d) \/ DrainAborts(d)

Spec == Init /\ [][Next]_vars

\* The interval starts drains for ever, a started drain runs on, every external
\* call returns (MaxCall) and time passes (strongly fair: the queue's own
\* steps take none of it).  Faults, the user and the producers are not fair.
FairSpec ==
    /\ Spec
    /\ SF_vars(Tick)
    /\ \A d \in Drains : WF_vars(StartDrain(d)) /\ WF_vars(DrainStep(d))

\* A user who keeps writing while something is parked.
ReturningUser == WF_vars(Inbound)

-----------------------------------------------------------------------------
(* Properties. *)

HasReached(j, n) == \A c \in 1..n : reached[j][c] > 0

\* A job recorded as sent has had every chunk delivered to the user, and the
\* progress every row, snapshot and call works from never runs ahead of what
\* was delivered: skipping chunks (T-452) loses none of them, through lease
\* overruns, crashes, exceptions and stale snapshots.
SentMeansDelivered ==
    \A j \in Jobs : row[j].status = "sent" => HasReached(j, Chunks)

\* The strengthening of SentMeansDelivered that is inductive.
ProgressIsDelivered ==
    /\ SentMeansDelivered
    /\ \A j \in Jobs : HasReached(j, row[j].sentChunks)
    /\ \A d \in Drains :
         /\ \A s \in drain[d].due : HasReached(s.job, s.sentChunks)
         /\ drain[d].pc \in Working => HasReached(drain[d].cur.job, drain[d].cur.sentChunks)
         /\ drain[d].pc = "sending" => HasReached(drain[d].cur.job, drain[d].index)

\* The user receives a chunk twice only after a fault: a call outlived its
\* lease, a drain died in the call, the sender threw, or an answer was lost.
\* Concurrent drains, stale snapshots, parking, deferral and retries alone
\* never deliver anything twice.
DuplicateOnlyAfterFault ==
    \A j \in Jobs : (\E c \in 1..Chunks : reached[j][c] > 1) => fault[j] # {}

\* Once no drain works on a summary, the automation run it came from tells the
\* job's fate and the fallback item follows: sent and resolved, failed when dead,
\* pending while it is retried, an open item while it waits for the user; a job that
\* expired failed, or leaves the item open when it expired while it waited.  This is
\* so through throws, lost answers and crashes, also of the drain that held the job;
\* only a lost write-back and a call that outlived its lease excuse the run.
Followed(j) == fault[j] \cap {"overrun", "sync"} = {}
RunTellsTheJobsFate ==
    \A j \in Summaries :
        (Followed(j) /\ \A d \in Drains : ~Handles(d, j)) =>
            /\ row[j].status = "sent" => delivery[j] = "sent" /\ fallback[j] # "open"
            /\ row[j].status = "dead" => delivery[j] = "failed"
            /\ row[j].status = "expired" => delivery[j] = "failed" \/ fallback[j] = "open"
            /\ row[j].status \in Claimable => delivery[j] = "pending"
            /\ row[j].status = "awaiting_user" => fallback[j] = "open"

\* A job with a business window is settled in the end: delivered, given up,
\* expired or parked until the user writes.
Settled(j) == row[j].status \in Terminal \cup {"awaiting_user"}
EventuallySettled ==
    \A j \in Jobs : row[j].expiresAt # Never ~> Settled(j)

\* Under a user who keeps writing, a job with a window ends: delivered, given
\* up or expired.
WindowedJobEnds ==
    ReturningUser => \A j \in Jobs : row[j].expiresAt # Never ~> row[j].status \in Terminal

\* push-queue.ts:142 "Only the worker that successfully acquires this lease
\* may call the external channel": two calls carry the same job only after
\* the earlier one was still at it when its lease ended.
OneCallerPerJob ==
    \A d, e \in Drains : (drain[d].pc = "sending" /\ drain[e].pc = "sending"
                           /\ drain[d].cur.job = drain[e].cur.job)
        => d = e \/ "overrun" \in fault[drain[d].cur.job]
=============================================================================
