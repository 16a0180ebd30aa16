# Verification of Invest Agent

TLA+ models of the parts of Invest Agent that decide something under concurrency, with the TLC
runs that check them on small instances and the TLAPS proofs that hold for every instance.  The
models are translated from the TypeScript under `src/src/`; `PROJECT.json` maps every definition
to the lines it stands for.

## 1. The system

Invest Agent is a long-lived Node.js service (kept alive by PM2) with SQLite (`better-sqlite3`:
statements and transactions are synchronous) and a per-user workspace of files.  A user talks to
an agent in the portal or in WeChat; the agent reads and writes the user's state through service
tools; schedulers run automation tasks and built-in reports; results are pushed to WeChat.
Several processes share the database and the files: the runtime and the MCP processes that serve
tools.  Inside a process everything interleaves at `await`.

Paths below are relative to `src/src/`.

| Component (main source) | State it keeps | Operations | Talks to | What is hard | What makes it correct |
|---|---|---|---|---|---|
| Push queue (`services/push-queue.ts`, `services/weixin-delivery.ts`, `channels/weixin-activity.ts`) | `push_jobs` rows: status, attempts, lease, window, chunks sent | enqueue, claim, send, retry, defer, park, resume, expire, write back to the run | WeChat channel, automation runs, attention items | concurrent drains with old snapshots, calls longer than the lease, lost answers, crashes after the call | what is recorded as sent was delivered; nothing is delivered twice without a fault; the run learns the fate of its summary; every job with a window ends |
| Resource mutation lock (`services/resource-mutation-lock.ts`) | a directory per resource with `owner.json` | acquire in sorted order, clear an abandoned directory, time out, release | every writer of workspace state | check-then-act over a file system, dead owners, pid reuse, half-made directories | one holder per resource; nothing left behind; no deadlock |
| Automation task runs (`services/automation-tasks.ts`, `scheduler/automation.ts`, `services/automation-runner.ts`) | task row (status, revision, cursor, failures, lock with lease) and run rows | claim, recover, reconcile, expire, finish, pause, activate, archive, edit, delete | schedulers of every process, portal requests, asset files | ticks and requests race, workers report late, edits in between, restarts | one run at a time; an occurrence is executed once; failures are counted once; cadence and status agree |
| Confirmed writes (`lib/sandbox-confirmation.ts`, `services/user-preferences.ts`, the confirmed operations of `mcp/service-tools-core.ts`) | pending confirmations; portfolio, preferences, strategy documents | register a draft, check the user's message, validate, write, consume | conversation log, resource lock | the check, the write and the consumption are separate awaits; retries; one unlocked operation | nothing unconfirmed is written; written once; consumed after the write and once; no lost update |
| Onboarding drafts (`services/onboarding-drafts.ts`) | draft row with steps and a leased commit | get, upsert, request confirmation; the commit worker | confirmations, push queue | leased commit against an answer that reopens the draft | not reachable in this version, see section 7 |
| User files, versions and their quota (`services/user-assets.ts`, `services/user-storage-quota.ts`) | asset and version rows, the files of the versions, reservations with a lifetime | create, upload, restore, save a copy, archive, delete; reserve, commit, release | lock, catalogue, portal | a version is a row and a file written at different times; reservations run out under slow writes; retries with a key; writers that lost their lock | what is stored stays within the limit; every version opens; a staged write meets what it was checked against |
| Report catalogue and published reviews (`services/report-asset-mappings.ts`, `services/conversation-artifacts.ts`) | artifact rows of reviews, the entries that back them | publish a review as an asset, a row and an entry; backfill; withdraw on deletion | user files, lock, scheduler | three writes one after another, each may be the last one; deletions in between; heads the user made | an entry is backed; the service never writes on top of the user's version |
| Built-in scheduled tasks (`services/scheduled-task-runs.ts`, `scheduler/index.ts`) | one row per task and day | claim by unique key, finish, reconcile at startup | push queue, reviews | crash between claim and finish | a day's task runs once, and never stays running |
| Automation notifications, attention items (`services/automation-notify.ts`, `services/attention-items.ts`) | attention items | notify after a terminal run, open, resolve, dismiss | runs, push queue | the crash between the terminal transaction and the notification | every terminal run is told once |
| Artifact deletion, attachments and retention (`services/artifact-deletion.ts`, `services/file-retention.ts`) | manifests, trash, file rows | prepare, confirm, trash, purge, restore | lock, quota | files and rows change in different steps | no row without a file, nothing purged that is referenced |
| Conversation turns (`services/conversation-log.ts`, `services/conversation-turns.ts`, `services/task-execution.ts`, `portal/concurrent-task-limiter.ts`, the message routes of the Portal) | user and assistant messages, the marker of the active turn, queues and pending calls in memory | post, direct post, regenerate, cancel, publish an artifact, reconcile at startup | relay, Mastra agent, tools in other processes, artifacts | two programs write the same rows; retries, regenerations, timeouts and restarts cross the queue; agents outlive the calls that wait for them | the marker names the turn that runs; a turn gets one answer, its own artifacts and its own question; a stopped turn stays stopped |
| Conversation task runs (`services/conversation-task-runs.ts`) | task rows | start, heartbeat, finish, recover | portal | restart | no run stays running |
| Portal connector and relay (`portal/connector.ts`, `apps/portal/.../relay/server.ts`, `registry.ts`) | one socket per connector and its timers; `byAssistant`, `byConnector`, the requests that wait on a connection | connect, register, heartbeat, take over, reap, answer, reconnect, stop | Portal, conversation turns | callbacks of an old connection come after the new one is in use; either side dies or forgets the other; requests wait on a connection that is gone | the registry hands out connections that are not lost; the assistant is served again; those who wait are told |
| Agent Space, watch rules and alerts, model health, generic automation runner, conversation working state, Mastra runtime and MCP tools, backends, WeChat accounts, HTTP and administration, database schema, indicators and market data, front end | — | — | — | mostly data, requests and external services | reasons in `PROJECT.json` |

How the modelled parts interact: a confirmed write runs under the **resource lock**; a run of an
**automation task** ends in a message of the **push queue**, which writes the delivery status back
to the run and opens an attention item while a summary waits for the user; a WeChat message of the
user resumes parked jobs and is also what confirms a draft.  A review the scheduler publishes becomes an asset
among the **user's files**, under the same locks and the same quota; what an agent publishes during a
**conversation turn** is bound to the answer of the turn the marker names; its request came over the
connection the **relay** had for the assistant.

## 2. Modules

| Module | What it is |
|---|---|
| `PushQueue` | the queue: rows, drains, channel, resumption, write-back |
| `ResourceMutationLock` | the lock directories, calls and faults |
| `ResourceMutex` | abstract: one holder per resource, operate only with all of them, end with none |
| `AutomationRuns` | one task, its runs, ticks of several processes, portal requests, the user's edits |
| `TaskLease` | abstract: the lease of a run, without keys, cursors or a schedule |
| `ConfirmedWrites` | confirmations, messages, tool calls and the five kinds of write |
| `PortfolioBook` | abstract: the portfolio changes at one instant per confirmation, watchlist items stay |
| `ReportLibrary` | the user's assets and versions with their files and the quota, and the reviews the service publishes into them |
| `ConversationTurns` | the requests of one conversation through Portal, relay and queue to the agent and back |
| `PortalRelay` | the connectors of one assistant, their connections, the registry of the relay and the requests that wait |
| `MC…` | the instances for TLC |
| `…Proofs` | the TLAPS proofs |

`ResourceMutationLock` implements `ResourceMutex` (until a fault happens), `AutomationRuns`
implements `TaskLease`, `ConfirmedWrites` implements `PortfolioBook`; and `ConfirmedWrites` is
composed with `ResourceMutex`: its calls take their locks by the abstract protocol, so that its
runs need no directories.  An operator commented `Slip:` is a plausible mistake in the definition
below it; `PROJECT.json` ("mutants") says which property notices which slip.

### 2.1 PushQueue

A row of `push_jobs` is `row[j]`, with status, attempts, `nextRetryAt`, window and `sentChunks`.
A concurrent call of `processDuePushJobs` is `drain[d]`: its `now` (taken once per batch), the
batch it selected, the snapshot it works on and where it is.  Actions follow the awaits:
`StartDrain` (select), `ClaimDuePushJob` / `SkipUnclaimed` (the conditional UPDATE), `ExpireClaimed`,
`DeferClaimed`, `BeginSend`, one `DeliverChunk` per chunk, then `SendSucceeds`, `SendFails`,
`SendWaitsForUser` or `SendThrows`, and `SyncDelivery` / `SyncFails` for the write-back.  `Inbound`
is the user's message that resumes or expires parked jobs, `ToggleBusy` the complex task that makes
the queue wait, `Crash` a process death.  `reached[j][c]` counts what arrived at the user and `fault`
records the faults that hit a job, for the properties only.

### 2.2 ResourceMutationLock

`lock[k]` is the directory of resource `k` (owner, and whether it is older than the five-second
grace), `pc[t]` where a call is in `acquireResourceLock` / `withResourceMutationLock`, `got[t]` the
release functions it collected.  mkdir, writeFile, readFile, stat and rm are steps of their own, so
that a contender may act on what it read before, and each may fail on its own terms: an error of mkdir, of
the owner write or of a removal leaves `acquireResourceLock`, except in the branch for an old directory
(`sweep`), which polls again.  Faults are `Crash`, `ReusePid`, ageing of a
directory whose creator lives (`"stall"`) and a failing removal (`"rm"`); `FaultKinds` chooses them.
Nested calls (`reviews.save` locks its review, inside it an artifact, inside that asset and storage)
are a list of key arrays per call.

### 2.3 AutomationRuns

`task` is the row of `automation_tasks`, `run[r]` the rows of `automation_task_runs` in the order of
insertion.  `claimAutomationTaskRun` is one transaction and one action with the code's alternatives:
`ClaimJoins` (an active run answers), `ClaimReplays` (a terminal run of the same key answers),
`ClaimStarts`, `ClaimDeclines`; each includes the recovery of expired runs the code does first
(`SettledRuns`, `SettledTask`, `RecoveredRun`).  `ListDue`, `Dispatch`, `ScheduledClaim` and
`ExpireSlot` are the steps of a tick, `AssertLease`, `SaveAsset`, `FinishRun` those of a worker,
`BeginEdit` / `CommitEdit` the two halves of an update with its await in between, `Restart` a process
that loses its ticks and workers; `busy[p]` is `runningAutomationTasks`.  `LegacyRows` allows rows from before the lock columns existed.

### 2.4 ConfirmedWrites

`conf[c]` is a row of `pending_sandbox_confirmations`, `said` the latest message of the user.
`Register` is `confirmations.request`, including the answer with a draft the user has confirmed
already.  A call `k` for confirmation `Target[k]` takes its locks (`Acquire`), passes `CheckMessage`
(`requireRecentUserConfirmation`) and `Validate` (`validateSandboxConfirmation`), does the steps of its
operation, then `Consume` and `Mark` (`consumeSandboxConfirmation`: a validation, an await, an update
by id).  `Stop` is an await that throws, or a dead process, anywhere; `interrupted` counts the calls that wrote
and did not consume, `torn` holds those that stopped between the two documents of their write, for the
properties only.  The operations:

- `portfolio.apply_changes`: `PlanPortfolio` reads the portfolio and its revision, `ReplacePortfolio`
  compares the revision again in the transaction and replaces the whole document;
- `watchlist.add_many`: `AddItem` per item and `FinishItems`, without a lock, as
  `mutation-resource-keys.ts` does not list it;
- `watch_rules.create`: `InsertRule`;
- `preferences.apply`: `ReadPreferences`, `WriteSchedules`, `WriteNotification`, `RestorePreferences`;
- `method_changes.apply`: `LoadStrategy`, `PatchStrategy`, `DecideCandidate`, `RestoreStrategy`.

Time is the millisecond clock: several steps may share an instant.

### 2.5 ReportLibrary

`assets[a]` and `versions[v]` are the rows of `user_assets` and `user_asset_versions`, named after the call
that makes them; `files` the versions whose bytes are on disk, `reserved[c]` what the reservation of a call
still counts for, `loose[c]` the mappings without a backing asset.  `artifact[r]` is the row of a published
review, `mapping[r]` its entry in the catalogue.  A write goes through `LookFirst` (the key, before the lock),
`LockAsset`, then with the storage lock `Replay`, `Conflict`, `Refuse` or `Reserve`; `Stage` puts the file in
place, `Commit` is the transaction that asks everything once more, `CommitFails` and `Undo` the catch block.
A publication starts with `Look` (`publishReviewArtifactVariant`: append, replace or create) and goes on with
`Row` and `Map`, a saved copy with `Bind`.  `DeleteRows` and `RemoveFiles` are the two halves of
`deleteUserAsset`, `Backfill` what listing the library does to uncatalogued reviews.  The locks are those of
`ResourceMutationLock`, taken as a mutex that a dead owner loses (`Crash`) and a stalled one may lose
(`Stall`); `Lapse` is a reservation that runs out under its writer.

### 2.6 ConversationTurns

`user[c]` and `answer[c]` are the rows of the messages of a turn, named after the call, with their place in
the order of `created_at`; `active` is the row of `conversation_turn_active`, which the agent's tools read in
their own process (`Publish`).  `step[c]` follows a call through the runtime: `sent` (in the relay), `joined`
(waits for a pending call of the same key), `queued` (in `chats`, the promise chain of the conversation),
`setup`, `storage`, `call`, `agent`, `tail`.  `Post` writes the Portal's provisional row and sends, `Receive`
passes the limiter, `Begin` / `Replay` look the key up under the lock, `Supersede` sets the old answer aside,
`Start` stores the message and marks the turn, `AgentAnswers`, `AgentFails`, `AgentBusy` and `Deadline` are the
outcomes of an attempt (`tries` counts the retry), `Finish` unmarks and answers, `Cancel` is the stop button.
`Accept`, `TakesError` and `TimesOut` are what the Portal writes when a request ends on its side.  `Disconnect`,
`Crash` and `Restart` (with `reconcileInterruptedConversationTurnsOnStartup`) are the faults; an agent nobody
waits for any more is in `loose`, or stays in `agent` until it comes back.

### 2.7 PortalRelay

`app[x]` holds the closure variables of `startPortalConnectorForScope` that decide something (`socket`, whether
the reconnect timer runs, `closed`); `conn[c]` is a connection with both ends, `registered` of its handler, and
what is on the wire in each direction; `active` and `entry` are the two maps of `ConnectorRegistry`, `via[r]`
the connection in whose pending map a request waits, `run[r]` the socket its answer will go to, which
`send(socket, await …)` reads before the await.  `Connect`, `Opened`, `Quiet` (the liveness timer), `ClientGone`
(close and error events), `Receive`, `Answer`, `Fails`, `Stop` are the connector; `Register` with refusal and
takeover, `Reply`, `RelayClosed`, `Reap`, `Ask`, `TimesOut` the relay.  All callbacks work on the shared
`socket`, whatever connection they belong to, and `RelayClosed` unregisters by connector id.  A connection that
is `cut` delivers nothing any more, and its ends notice separately or never; `Crash` and `PortalRestart` are
deaths.  Heartbeats and acknowledgements are a condition (`Beating`), not messages.  A close handshake takes
less than the five seconds before a reconnect unless something stalls, which counts as a fault, and so does a
connection attempt that neither opens nor fails by then.

## 3. Runs

Every action and every disjunct of the next-state relations happens in a passing run.

| Run | Question | Instance and bounds |
|---|---|---|
| `PushQueueSafety` | Is what the queue records true, and does it deliver twice or call twice only after a fault? | a summary (deferrable, parkable) and a plain message of two chunks; two drains (symmetric); lease 2, clock to 3, one crash instant.  Two attempts, a drain that outlives its lease and a second drain that claims meanwhile all fit |
| `PushQueueLiveness` | Does every job with a window settle, and end if the user keeps writing? | one drain with batch limit 1, two attempts, clock to 7 so that windows end before the bound |
| `LockProtocol` | Clean-up of owned and unowned directories, no circular wait, refinement of `ResourceMutex`, and does a call end although others died, without timeouts? | three calls, two processes, two keys: one nests them like `reviews.save`, one lists them in the other order, one names the inner one twice; all four faults |
| `LockAfterCrash` (violation) | Is mutual exclusion kept when a process crashed? | three calls, one key, crashes only |
| `AutomationProcesses` | Two processes, restarts and edits: one run, one execution per occurrence, none after the report was out, dispatch keys held by work, counted once, `TaskLease` implemented | three run rows, two revisions with periods 2 and 3, clock to 4: an expiry, its retry and the next occurrence fit |
| `AutomationRequests` | Portal requests with deadlines, legacy rows, edits: does every end leave status, cursor and failures in agreement, and does an old list start nothing for a paused task? | one process, two run rows, deadlines 1 and 2 |
| `AutomationLiveness` | Does every granted run end and does the cursor leave every due occurrence? | one process that restarts for ever, four run rows, clock to 6 |
| `ConfirmedWrites` | Confirmed, written once, consumed after the write and once, both documents or neither, no lost update | two confirmations, three calls (two for the same one), every kind of write, two items, two candidates; three instants, the lifetime of a confirmation is two: a draft, a message and a call need an instant each and expiry one more |
| `ReportLibrary` | Does what is stored fit, open and stay backed, whatever stops, dies or is deleted, and is the user's version kept? | four calls, two at a time, one review, two contents of a byte, limit 3; reservations expire at any moment; one call dies or loses its locks and goes on |
| `ConversationTurns` | Marker, regeneration, cancellation and idempotency keys through every order of Portal, queue and agent | three calls (symmetric), two admitted at a time, two faults: two regenerations of one answer, a retry that crosses a restart and a request that overtakes another all fit |
| `ConversationLiveness` | Are marked turns answered and queues drained, and do artifacts show up under their turn? | two calls, one admitted at a time, one fault, both agents publish |
| `PortalRelay` | Is the assistant served again after anything, does an archived connector leave, is everybody who waits told, and does the registry name live connections? | a local and a production connector, four connections each (as many as one fault ever needs at a time), one request that may be repeated, one fault |

Type invariants and `FaultlessMutualExclusion` are theorems (section 5) that TLC agreed with on these instances;
the configurations do not repeat them.

Bounds are constants or guards and named in the modules (`Horizon`, `LastEnqueue`, `FaultsUntil`,
`MaxCall`, `MaxTime`, `MaxRuns`, `MaxRevision`, `MaxBusy`, `MaxFaults`, `MaxPublished`, `Conn`).  The liveness properties of `AutomationRuns` speak
only of leases and occurrences that end before the clock does.

What the properties say is written above each of them.  Those that took most thought:

- `DuplicateOnlyAfterFault` and `OneCallerPerJob` name the faults that excuse them; without a fault they
  hold for any interleaving of drains.
- `RunTellsTheJobsFate` holds through throws, lost answers and the death of the drain that holds the job; only a
  lost write-back, which nothing repeats, and an overrun lease excuse the run.
- `FaultlessMutualExclusion` holds until the first fault; `NoLockLeftBehind` joins that a call which ended owns no
  directory (`OwnersHold`), through faults of other calls, and that a directory nobody owns has a live creator
  that is about to own or to remove it (`UnownedIsTransient`), unless creators die or stall or removals fail.
- `SlotRunsOnce`: of the runs of one occurrence all but one gave their key away because their lease
  expired, and a run whose report was out neither gives it away nor is tried again;
  `ScheduleMatchesStatus` covers the start of a run from a list of due tasks that has grown old;
  `KeysAreHeldByWork` relates the keys a process leaves out of its ticks to the ticks and workers that will give
  them back, on whichever path they end; `FailuresCountEnds` relates four places that write the end of a run to the one counter.
- `WrittenOnce` counts: a preference or rule write is repeated at most once for each call that wrote and could
  not consume; portfolio and method writes not even then.
- `WrittenTogether` relates the documents a write touches, and the calls: they differ only while a call is between
  them, or because one was stopped there; a failed second write, with its restoration, leaves no half.
- `QuotaHolds`: the bytes of a running write stop counting when its reservation expires, and a stalled
  writer has lost the lock that serialises the account; that the transaction counts again is what keeps
  the limit, and moving that count to before the row breaks it.
- `RegisteredIsBacked`: row and entry of a publication are written after its asset, with other locks; an
  asset deleted in between must not come back as an entry.
- `MarkerIsTheTurn`: the marker is set, kept through retries and deadlines, removed and, after a death,
  cleared by four different pieces of code; artifacts are attributed by it from another process.
- `RegeneratesItsQuestion` relates the order of rows at the time of a regeneration to the question the old
  answer was given to; the one case in which they differ is named.
- `AssistantIsServed`: after the last fault some connector is registered by the connection it uses, for good,
  whatever close events are still to come.  It names the one state in which the code stays offline: an
  orphan, whose heartbeats are acknowledged although the registry does not know it (section 6).
- `ImplementsBook`: an unlocked batch and a planned replacement of the same document never lose an
  item, unless a plan is made in the very millisecond of the last write (`tied`).

## 4. Fairness

- Push queue: `setInterval` starts a drain for ever and a started drain runs on, so `StartDrain` and
  `DrainStep` are weakly fair; an external call returns within `MaxCall`; time passes (strongly fair,
  as the queue's own steps take none).  Messages of the user are fair only in the premise of
  `WindowedJobEnds`; crashes and exceptions never are.
- Lock: a call that waits polls again, an operation ends, and five seconds pass.  Timeouts are not
  assumed to fire.  Strong fairness of `Age` because contenders may keep reading in between.
- Automation: the interval goes on and each step of a tick returns.  Workers may hang: `RunsEnd` holds
  all the same.  `DueSlotsPass` assumes in its premise that agent turns return (a hanging worker keeps
  its key in `runningAutomationTasks`) and that restarts do not hit every tick at the same step.
- Portal relay: the reconnect timer, the liveness timer over a silent connection and the reaper over a silent
  connector fire, events of connections that are not cut arrive, commands end.  No end need ever notice that
  an open connection was cut, and no request need time out; faults are not fair.
- Conversation turns: `Turn(c)` is weakly fair, because what a started turn awaits returns or runs into the
  twenty-minute deadline (`awaitWithExecutionDeadline`), and so is `Restart` (PM2).  Nothing is assumed of the
  Portal, of tools, of agents that were given up, or of the user.

No liveness is claimed of confirmed writes and of the library: agent and user may leave at any time.

## 5. Proofs

| Module | Theorems | Argument |
|---|---|---|
| `PushQueueProofs` | `TypeCorrect`, `ProgressCorrect`, `SentIsDelivered`, `JobsComeDue` | `TypeOK` is inductive.  `ProgressIsDelivered` (the chunk count in rows, in snapshots of any age and in calls never runs ahead of what was delivered) is inductive relative to it: chunks only arrive, rows and snapshots only copy a count that was reached, and a call counts a chunk in the step that delivers it.  `JobsComeDue` is about any `t` no shorter than lease, deferral and retry delays: `DueWithin(t)` (a row that is pending, failed or processing is due at the latest `t` from now) needs that no batch began in the future (`BatchesBegan`), because claims and delays are counted from the batch's `now`, which may be old |
| `PushQueueFaultProofs` | `OneCaller`, `NoDuplicateWithoutFault`, `RunIsTold` | Each property excuses a job that a fault hit, and each needs the lease.  `Leased`: as long as no call outlived its lease, a row that a drain holds is `processing`, expires with that drain's lease and has no other holder; a claim needs an expired row, so a second holder means that the first outlived its lease, which is the fault `overrun`.  Relative to it `Fresh` (a snapshot whose chunk count is older than the row's can no longer be claimed with its batch's `now`, because whoever changed the count held the row later and left it due later) and `Single` (no chunk beyond the recorded progress has arrived) give the second theorem.  `Told` gives the third: one drain at a time writes back, in the instant its call returned; a parked job may have been resumed and claimed again by then, but that call has not returned yet |
| `ResourceMutationLockProofs` | `TypeCorrect`, `MutexCorrect`, `UnownedCorrect`, `CleanUpCorrect`, `NoDeadlock`, `LockImplementsMutex` | Mutual exclusion alone is not inductive.  `IInv == TypeOK /\ (faults = {} => Faultless)`, where `Faultless` says for every label what the call knows of the directory: a held one names its holder, one without an owner is young and has exactly one creator, and nothing is ever judged abandoned.  Removal by a contender is then impossible without a fault.  Each step maps to one of `ResourceMutex` or to a stutter.  `NoDeadlock` assumes that `Task` is finite and that the calls agree on an order of the resources (`Ranked`), which sorting gives calls that nest none.  From `InOrder` (while a call acquires, what it holds comes first in its order) a call that is waited for and waits itself waits for a resource of higher rank; the calls above a call in a circle would then be fewer at every turn of it |
| `AutomationRunsProofs` | `TypeCorrect`, `Mutex`, `Cadence`, `EndedRunsStay`, `FailuresCounted`, `OneRunPerSlot`, `KeysHeld`, `ManualObserves`, `Implements`, `LeasesAreShort`, `LeasesAreRespected` | The task row is treated as a value: lemmas say what release, success, failure, recovery and reconciliation make of a well-formed row.  `Inv == TypeOK /\ Rows(task, run)` joins well-formedness, agreement of lock and run, and at most one running run; `LeaseInv` adds for the refinement that a row which was never inserted has no expiry, and that a run which is running without the lock has no worker.  `OneRunPerSlot` needs to know what a dispatched tick may still do.  Its invariant says that no tick and no run is for a future slot (`TicksKnown`, `RunsKnown`), that a slot belongs to one revision (`OneRevision`), and where the cursor is (`CursorKnown`): past every slot a tick or a run took, or at it while a tick or a run of the current revision is at work on it, or the run that took it has ended and every other taken slot is earlier (`Ahead`).  `KeysHeld` adds to the invariant that a dispatched tick or worker holds the key of its revision alone (`KeyInv`).  The last two theorems are read off the refinement: what they say holds of every step of `TaskLease`, so it need not be shown of every action again |
| `ConfirmedWritesProofs` | `TypeCorrect`, `WritesAreApproved`, `ConsumptionIsOnce`, `WritesAreOnce`, `WritesAreTogether`, `BookImplemented` | `Framed`, `Moves` and `Effects` say once what a step of an operation leaves alone, where it leads and what it changes.  `Inductive` is built in layers, each relative to the ones before: types (`Typed`: a call is at a step of its operation and carries what it read of that document); locks (`LocksFit`, from which `Exclusive`: two calls of one locked kind are never both inside); approval (`Approving`: whoever passed the check has an approved draft of an earlier instant, and so has every writer of what is stored or kept for restoring); consumption (`Consuming`: inside, under the lock, the draft stays pending and unconsumed); repetition (`Once`: a draft written once more than interrupted, and still pending, has a call at its consumption, a written portfolio draft is behind the portfolio's revision, a written method draft has its candidate decided).  `Together` adds for the two documents that what a call is about to restore was whole, or torn before, and that no other call is between (by `Exclusive`).  `SnapshotFits` adds for the book that the revision planned on is earlier than any that is written now |
| `ReportLibraryProofs` | `TypeCorrect`, `LibraryStaysOpen`, `CatalogueIsBacked`, `UserHeadIsKept`, `StagingIsCurrent`, `QuotaIsKept` | Three layers.  `Typed` adds to the types what a call at a step is for and that a row has a content.  `LibraryInv` joins what the properties say (`RowsOK`, `HeadsOK`, `MappedOK`) with what makes it inductive: a call that has not committed owns no row (`FreshOK`), the files a deletion is about to remove belong to rows that are gone, a write that appends to the service's version still expects that head (`CallsOK`).  It holds even when locks are lost.  `LockInv`, for runs in which no call has lost one, says which locks a call at a step holds; from it nobody else can change what a staged write was checked against.  `QuotaIsKept` treats a sum as the number of its bytes: what a user holds is the cardinality of the set of pairs of a charge and a byte of it, so that the lemmas of the finite sets say what a charge adds and a release takes away; it holds whether or not there are finitely many calls, as only finitely many have charged |
| `ConversationTurnsProofs` | `TypeCorrect`, `MarkerCorrect`, `StopCorrect`, `KeysCorrect`, `ArtifactsStayWithTheirTurn`, `QuestionIsAskedAgain`, `KeysAreShared`, `NobodyWaitsForNothing` | `Typed` joins the types with `Line` (a call queues once, only the first of the queue is past it, the relay holds what is sent, nothing runs while the runtime is down) and `Answered` (a call at its tail and a reply on its way have an answer).  From `Line`, at most one call runs; that makes the marker inductive (`Marker`).  `Keys` says that a row with a key belongs to a turn that is answered or running, so that the look under the lock finds it.  For the artifacts, `Awaited` (no call has an answer before its tail) and `Artifacts` (what an agent that is waited for publishes is its own turn's, and an answer of success has taken it along).  For regenerations, the order of rows has to be the order of turns: `Rows` and `Places` say what rows and their places in the table are, `InTurn` that messages of the Portal wait and run in the order they were written, `Serial` that turns are answered one after another, up to the direct requests that overtake.  `Waited` joins the last two: a call that joins finds one of its key in line, and each end of that one answers all of the key |
| `PortalRelayProofs` | `TypeCorrect`, `ReachCorrect`, `TryingCorrect` | `TypeOK /\ InReach` is inductive.  A step that leaves the registry alone takes no connection it names, or anybody waits on, out of the reach of the relay (`KeepsReach`); one that unregisters a connector takes away no other than its connection (`UnregisterReach`); and a connection the registry names is registered, so that its close event unregisters its connector.  `KeepsTrying` is inductive with the types: a connector has a socket that is connecting or open, or the reconnect timer, or it was stopped |

The theorems hold for every value of the constants under the named assumptions of the modules
(`ConstantsAssumption`, `CallsAssumption`, `Instance`, `LibraryAssumption`, `TurnsAssumption`, `RelayAssumption`), which only give the constants their types and signs.
Every invariant, every action property and every refinement that a passing run checks is stated by one of
these theorems.

Model-checked only: the liveness properties `EventuallySettled`, `WindowedJobEnds`, `CallsEnd`, `RunsEnd`,
`DueSlotsPass`, `TurnsAreAnswered`, `QueueDrains`, `AssistantIsServed`, `StoppedIsOffline` and `WaitersAreTold`,
as liveness under fairness and ENABLED are out of the provers' reach.  What these rest on that needs no
fairness is proved, so that a run on a small instance is left with little more than the fairness itself.  The
invariants are defined in the proof modules:

| Liveness | What is proved of it |
|---|---|
| `EventuallySettled` | `JobsComeDue`: a job that is neither settled nor parked is due within the longest lease or delay |
| `CallsEnd` | `NoDeadlock`: calls that agree on an order never wait in a circle |
| `RunsEnd` | `LeasesAreShort`: no lease reaches further than its length; `LeasesAreRespected`: nobody else ends the run before |
| `QueueDrains` | `NobodyWaitsForNothing`: whoever joined, sent or waits for a reply has a call that will answer |
| `AssistantIsServed`, `StoppedIsOffline` | `TryingCorrect`: a connector has a connection or the timer for one, until it is stopped |

The property of the run that expects a violation has no theorem, as it does not hold.  No model recurses over
data.

## 6. What the checks found

Where the code does something else than the repository says of it, a run finds it: in `LockAfterCrash`
   `clearAbandonedLock` reads the owner, judges it dead and removes the directory by
   path in three awaited steps; the slower of two contenders removes the lock the faster one has taken
   meanwhile, and both operate (`services/resource-mutation-lock.ts:73`).

Met while modelling, reproducible by weakening a guard of a property, and not kept as runs:

- The catch block of the queue stores `sentChunks` 0 (`push-queue.ts:244`), so that chunks that were
  delivered are sent again, though `push-queue.ts:42` has the progress kept for the next attempt.
- An update that checked the status before a deletion commits after it and turns the deleted task into a
  paused one (`automation-tasks.ts:951`), though `automation-tasks.ts:1339` says it can never be revived.
- A call that outlives its lease is joined by a second caller, although `push-queue.ts:142` says only
  the worker that acquired the lease may call (`OneCallerPerJob` therefore excuses `"overrun"`).
- Expiry is judged by the start of the batch (`push-queue.ts:146`): a job may be sent after its window.
- A job that expires while it is parked (`weixin-delivery.ts:87`) is never written back to its run;
  a parked job of `onboarding_commit` without `expires_at` is never resumed (`weixin-delivery.ts:106`).
- A creator that stalls more than five seconds between mkdir and writeFile loses its directory
  (`resource-mutation-lock.ts:80`).
- The end of a run sets `needs_attention` on a task the user has archived (`automation-tasks.ts:2377`);
  a claim can start a run of the task whose circuit breaker it has just tripped (`:1621`); a retry of a
  key recovered as completed by that very retry fails on the unique key and rolls back (`:1628`); the
  next occurrence comes from the schedule of the run's revision and may replace the cursor of a newer
  one (`:2367`); a worker may overwrite the asset of a task after its lease ran out
  (`automation-runner.ts:130`).
- `watchlist.add_many` has no entry in `mutation-resource-keys.ts`: two calls for the same confirmation
  may both consume it (`ConsumedOnce` therefore speaks of locked operations).
- A portfolio draft registered while there is no portfolio row is bound to no revision: the null is
  pruned from its digest (`service-tools-core.ts:3692`), and between validation and plan an unlocked
  batch may change what the draft was previewed on.  The revision is a millisecond timestamp, so a plan
  made in the instant of a write does not notice a second write in the same instant (`tied`).
- The marker by which `method_changes.apply` would recognise its own earlier application is compared
  with the same stripped id and never holds: the retry is refused, not completed.
- The id that should make a preference write idempotent is stripped from the payload before it is
  compared (`service-tools-core.ts:3756`), so a retry after a failed consumption writes again, although
  `docs/service-tools-mcp.md:128` promises otherwise.
- `strategy.set_primary` asks for a confirmation that cannot be registered, as it is in neither
  `CONFIRMED_WRITE_OPERATIONS` nor `confirmationTarget`.
- One explicit message confirms every draft registered before it.
- A publication that stops after its asset and before its row, retried with another content, meets
  `ASSET_IDEMPOTENCY_CONFLICT` on the review's `:asset` key for good (`conversation-artifacts.ts:879`), though
  `:1029` promises an idempotent retry.  If the user uploads a version in between, the retry replays the key
  and the row of the review names the user's head.
- Entries `Backfill` makes may name an asset that is deleted: `RegisteredIsBacked` is about publications.
- A browser that repeats a message with its idempotency key has the turn run again: the provisional row has
  no key, and storing the message keeps it that way (`conversation-log.ts:435`, against
  `docs/conversation-history-repair-plan.md:89`).  `StoredKeysRunOnce` therefore speaks of stored keys.
- The Portal writes an answer with the status it had when the reply was sent: `sent` over `superseded`.
  Its background synchronisation does the same with an older snapshot, and puts a provisional row it has
  removed back as pending (`conversation-detail-sync.ts:140`).
- After a timeout of the relay the Portal marks the shared row of the message `failed`; the turn goes on, its
  answer arrives, but a regeneration is refused (`REGENERATE_USER_MESSAGE_MISSING`).
- An agent that outlives its deadline publishes into the turn that is marked then, and the artifact shows up
  under another answer, against `conversation-log.ts:1450` (`ArtifactsOfTheirTurn` excuses agents nobody
  waits for).
- A failure, stop or death between superseding the old answer and the new turn leaves the question without
  a current answer.
- After a cut or a stall the connector may reconnect and register before the relay sees the old connection
  close; that close then unregisters the connector by its id (`apps/portal/src/lib/relay/server.ts:228`).  The
  heartbeats go on and are acknowledged, as the handler keeps its own `registered`, so that neither side
  reconnects and the assistant is offline until a process restarts, although
  `docs/user-portal-protocol.md:12` has the connector reconnect.  The reaper leaves the same state behind when
  it removes a connector that was only late (`registry.ts:115`).
- A late close or error event of an old connection clears the shared `socket` (`connector.ts:2061`): the newer
  connection stays open and registered, nobody closes it, and a third one is opened.
- A command that fails while there is no socket throws again in its catch block (`send(null, …)`,
  `connector.ts:2049`); the rejection is handled nowhere and ends the process.
- A direct request may be written between a Portal message and its turn: the regeneration of that turn then
  asks the wrong question (excused in `RegeneratesItsQuestion`).

## 7. Abstractions, and what is not modelled

- `rm -rf` and `writeFile` of the lock are observed as done or not done; a database transaction, and
  code between two awaits, is one step.
- One user, one conversation, one automation task.  Message texts, reports, rules and holdings are
  values; `Items` and `Code` stand for watchlist batches, a method patch for its candidate.
- A process has one tick at a time; the fan-out over many due tasks with the admission cap is left out,
  and so are the outcomes `skipped` and `cancelled`, which no caller reports.
- A preference change touches both documents; the restoration of both is one step.  The current
  portfolio and its revision are two SELECTs without an await in between and read as one.
- Confirmed operations that are not modelled resemble one that is: `watchlist.add` and `plans.*` (a
  portfolio write with a revision), `method_changes.propose` (an insert), the deletes and
  `skill.*` (one write).  The HTTP route's confirmations use the same rows and checks.
- `ReportLibrary` leaves out names, folders and tags, the refusals of `ASSET_IN_USE` (they change nothing), the
  conversion of csv to xlsx (a content among others), the lease assertion of the automation runner, the refresh
  of a mapping without an asset, and the file that stays behind when staging throws after its rename.
  `reclaimExpiredStorageReservations` has no caller.
- `ConversationTurns` leaves out conversations of automation tasks, attachments, the WeChat channel, failures
  to persist, a crash of the Portal, its background synchronisation and `conversation_sessions`.  Portal and
  runtime share one SQLite file and one clock, as they are deployed.
- `PortalRelay` has one assistant, and leaves out the limiter (in `ConversationTurns`), progress events,
  `conversation.sync`, `reconcilePendingConversations`, authentication and what the commands do.
- Onboarding drafts: `acceptOnboardingDraftStep`, `skipOnboardingDraftWatchRules` and
  `enqueueOnboardingDraftCommit` are imported by `mcp/service-tools-core.ts` and never called, and
  `cancelOnboardingDraft` has no caller, so that the commit worker meets rows of earlier versions only.
- The other components are listed in `PROJECT.json` with their reasons.

## 8. Plan

Done: the seven components with the most concurrency, three abstract specifications, and proofs for each of
them.  What is left, in this order:

1. `ScheduledTaskRuns` (`services/scheduled-task-runs.ts`, `scheduler/index.ts`): claim by unique key, finish by
   task key, reconciliation at startup; the patrol that claims after it has evaluated.
2. `AutomationNotify`: the notification after a terminal run composed with `PushQueue`'s interface and the
   attention items; a crash between transaction and notification.
3. `AutomationAdmission`: many due tasks, the admission cap and the sort order; waiting tasks expire.
4. `ArtifactDeletion` with `FileRetention`: files and rows in different steps, the trash, restart.
5. `ModelHealth`, `AlertDedupe`: small state machines.

Theorems to follow: for `WindowedJobEnds`, `DueSlotsPass`, `TurnsAreAnswered` and `WaitersAreTold` the part that needs no
fairness, as for the others.
