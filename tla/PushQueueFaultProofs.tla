------------------------ MODULE PushQueueFaultProofs ------------------------
(***************************************************************************)
(* What the queue promises while no fault hits a job: one caller, no chunk *)
(* twice, and a run that tells the job's fate, for every set of jobs and   *)
(* drains and every lease, delay and bound.                                *)
(***************************************************************************)
EXTENDS PushQueueProofs

-----------------------------------------------------------------------------
(* The inductive invariants. *)

\* A drain has claimed the job and not yet given it back.
Holds(d, j) == drain[d].pc \in {"claimed", "sending"} /\ drain[d].cur.job = j
Calls(d, j) == drain[d].pc = "sending" /\ drain[d].cur.job = j

\* The holder's lease is what the row says until a call outlives it, and two
\* drains never hold one job.
Leased ==
    /\ \A d \in Drains : drain[d].now <= clock
    /\ \A d \in Drains, j \in Jobs : Holds(d, j) /\ "overrun" \notin fault[j] =>
         /\ row[j].status = "processing"
         /\ row[j].nextRetryAt = LeaseEnd(d)
         /\ \A e \in Drains : Holds(e, j) => e = d

\* A snapshot whose progress is old cannot be claimed with its batch's now.
Outdated(d, j) ==
    /\ row[j].status \in Claimable => row[j].nextRetryAt > drain[d].now
    /\ \A e \in Drains : Holds(e, j) => drain[e].now > drain[d].now

\* The progress a claimed job starts from is the row's.
Fresh ==
    /\ \A d \in Drains : drain[d].pc = "idle" => drain[d].due = {}
    /\ \A j \in Jobs : row[j].status = "absent" => row[j].sentChunks = 0
    /\ \A d \in Drains : \A s \in drain[d].due :
         /\ row[s.job].status # "absent"
         /\ fault[s.job] = {} => \/ s.sentChunks = row[s.job].sentChunks
                                 \/ Outdated(d, s.job)
    /\ \A d \in Drains, j \in Jobs : fault[j] = {} /\ Holds(d, j) /\ drain[d].pc = "claimed"
         => drain[d].cur.sentChunks = row[j].sentChunks

\* Chunks beyond the recorded progress have not reached the user.
NoneBeyond(j, n) == \A c \in 1..Chunks : c > n => reached[j][c] = 0
Single ==
    \A j \in Jobs : fault[j] = {} =>
        /\ \A c \in 1..Chunks : reached[j][c] <= 1
        /\ row[j].status # "sent" /\ (\A d \in Drains : ~Calls(d, j))
             => NoneBeyond(j, row[j].sentChunks)
        /\ \A d \in Drains : Calls(d, j) => NoneBeyond(j, drain[d].index)

-----------------------------------------------------------------------------
(* What the steps do, by kind: a drain releases its job, a drain drops out of *)
(* the loop or moves on, a batch is read, a job is claimed, a call proceeds.  *)

Others(d) == \A e \in Drains \ {d} : drain'[e] = drain[e]
FaultsGrow == \A j \in Jobs : fault[j] \subseteq fault'[j]

\* The drain goes on in the loop, or writes back first.
Proceeds(d) ==
    /\ drain'[d].pc \in {"next", "syncing"}
    /\ drain'[d].now = drain[d].now
    /\ drain'[d].due = drain[d].due
    /\ drain'[d].pc = "syncing" => drain'[d].cur = drain[d].cur
    /\ Others(d)

\* The row a holder leaves behind: no longer claimable, due later, or due now
\* at the earliest with the progress it had.
Releases(d) ==
    LET j == drain[d].cur.job IN
    /\ j \in Jobs /\ Holds(d, j)
    /\ Proceeds(d)
    /\ clock' = clock /\ FaultsGrow
    /\ \A k \in Jobs \ {j} : row'[k] = row[k] /\ reached'[k] = reached[k]
    /\ row'[j].status # "absent"
    /\ \/ row'[j].status \notin Claimable
       \/ row'[j].nextRetryAt > clock
       \/ row'[j].sentChunks = row[j].sentChunks /\ row'[j].nextRetryAt >= clock
    /\ \/ fault'[j] # {}
       \/ reached'[j] = reached[j] /\
          \/ row'[j].status = "sent"
          \/ drain[d].pc = "claimed" /\ row'[j].sentChunks = row[j].sentChunks
          \/ drain[d].pc = "sending" /\ row'[j].sentChunks = drain[d].index

\* A drain that holds no job any more, or whose job is at fault.
Drops(d) ==
    /\ drain'[d].pc \in {"next", "idle"}
    /\ drain'[d].now \in {0, drain[d].now}
    /\ drain'[d].due \subseteq drain[d].due
    /\ drain'[d].pc = "idle" => drain'[d].due = {}
    /\ drain'[d].pc # "idle" => drain'[d].now = drain[d].now
    /\ drain[d].pc = "sending" => fault'[drain[d].cur.job] # {}
    /\ Others(d) /\ FaultsGrow
    /\ UNCHANGED <<clock, row, reached>>

LEMMA ContinueFacts ==
  ASSUME TypeOK, NEW d \in Drains, Continue(d)
  PROVE  Proceeds(d) /\ drain'[d].pc = "next"
BY DEF TypeOK, Drain, Continue, Proceeds, Others

LEMMA SyncFacts ==
  ASSUME TypeOK, NEW d \in Drains, NEW report, ContinueWithSync(d, report)
  PROVE  /\ Proceeds(d)
         /\ drain[d].cur.job \in Summaries =>
              drain'[d].pc = "syncing" /\ drain'[d].report = report
         /\ drain[d].cur.job \notin Summaries => drain'[d].pc = "next"
<1>1. CASE drain[d].cur.job \notin Summaries
  BY <1>1, ContinueFacts DEF ContinueWithSync
<1>2. CASE drain[d].cur.job \in Summaries
  <2> DEFINE new == [drain[d] EXCEPT !.pc = "syncing", !.report = report]
  <2>1. drain[d] \in Drain /\ drain' = [drain EXCEPT ![d] = new]
    BY <1>2 DEF ContinueWithSync, TypeOK
  <2>2. /\ new.pc = "syncing" /\ new.report = report
        /\ new.now = drain[d].now /\ new.due = drain[d].due /\ new.cur = drain[d].cur
    BY <2>1 DEF Drain
  <2> HIDE DEF new
  <2>3. drain'[d] = new /\ Others(d)
    BY <2>1 DEF TypeOK, Others
  <2> QED BY <1>2, <2>2, <2>3 DEF Proceeds
<1> QED BY <1>1, <1>2

\* A fault is only ever added.
LEMMA BlameFacts ==
  ASSUME TypeOK, NEW j \in Jobs, NEW f, Blame(j, f)
  PROVE  FaultsGrow /\ f \in fault'[j] /\ \A k \in Jobs \ {j} : fault'[k] = fault[k]
BY DEF TypeOK, Blame, FaultsGrow

\* An arrival counts for one chunk of one job.
LEMMA ReachFacts ==
  ASSUME TypeOK, NEW j \in Jobs, NEW c \in 1..Chunks, Reach(j, c)
  PROVE  /\ \A k \in Jobs \ {j} : reached'[k] = reached[k]
         /\ \A b \in 1..Chunks \ {c} : reached'[j][b] = reached[j][b]
         /\ reached[j][c] = 0 => reached'[j][c] = 1
<1> DEFINE n == IF reached[j][c] = 2 THEN 2 ELSE reached[j][c] + 1
<1>1. reached \in [Jobs -> [1..Chunks -> 0..2]] /\ reached[j] \in [1..Chunks -> 0..2]
  BY DEF TypeOK
<1>2. reached' = [reached EXCEPT ![j] = [reached[j] EXCEPT ![c] = n]]
  BY <1>1 DEF Reach
<1>3. reached[j][c] = 0 => n = 1
  OBVIOUS
<1> QED BY <1>1, <1>2, <1>3

\* The row written by an UPDATE of one job.
LEMMA WriteFacts ==
  ASSUME TypeOK, NEW j \in Jobs, NEW r, row' = [row EXCEPT ![j] = r]
  PROVE  row'[j] = r /\ \A k \in Jobs \ {j} : row'[k] = row[k]
BY DEF TypeOK

\* markFailed: a row to retry is due later than now.
LEMMA FailedRowFacts ==
  ASSUME TypeOK, NEW d \in Drains, drain[d].pc \in Working,
         NEW permanent \in BOOLEAN, NEW n \in 0..Chunks
  PROVE  LET f == FailedRow(d, permanent, n) IN
         /\ f.status \in {"expired", "dead", "retry"}
         /\ f.status = "retry" => f.nextRetryAt > clock
         /\ f.sentChunks = n
<1>1. row[drain[d].cur.job] \in Row /\ AttemptsOf(d) \in Nat \ {0} /\ clock \in Nat
  BY WorkingType DEF TypeOK
<1>2. DelayAfter(AttemptsOf(d)) \in Nat \ {0}
  BY <1>1, DelayType
<1> QED BY <1>1, <1>2 DEF FailedRow, Row

\* Every way a drain gives its job back.
LEMMA ReleaseFacts ==
  ASSUME TypeOK, NEW d \in Drains,
         \/ ExpireClaimed(d) \/ DeferClaimed(d) \/ SendSucceeds(d)
         \/ SendWaitsForUser(d) \/ SendThrows(d)
         \/ \E permanent \in BOOLEAN : SendFails(d, permanent)
  PROVE  Releases(d)
<1> DEFINE j == drain[d].cur.job
<1>0. drain[d].pc \in {"claimed", "sending"} /\ drain[d].pc \in Working
  BY DEF ExpireClaimed, DeferClaimed, SendSucceeds, SendWaitsForUser, SendThrows, SendFails,
         CallReturns, Working
<1>1. /\ j \in Jobs /\ Holds(d, j) /\ drain[d] \in Drain /\ row[j] \in Row
      /\ clock \in Nat /\ drain[d].index \in 0..Chunks
  BY <1>0, WorkingType DEF Holds, TypeOK, Drain
<1>2. CASE ExpireClaimed(d)
  <2> DEFINE r == [row[j] EXCEPT !.status = "expired", !.nextRetryAt = drain[d].now]
  <2>1. r.status = "expired" /\ r.sentChunks = row[j].sentChunks
    BY <1>1 DEF Row
  <2>2. row' = [row EXCEPT ![j] = r] /\ drain[d].pc = "claimed"
        /\ UNCHANGED <<clock, reached, fault>> /\ ContinueWithSync(d, "failed")
    BY <1>2 DEF ExpireClaimed
  <2> HIDE DEF r
  <2>3. Proceeds(d)
    BY <2>2, SyncFacts
  <2> QED BY <1>1, <2>1, <2>2, <2>3, WriteFacts DEF Releases, FaultsGrow, Claimable
<1>3. CASE DeferClaimed(d)
  <2> DEFINE r == [row[j] EXCEPT !.status = "retry", !.nextRetryAt = clock + DeferDelay]
  <2>1. r.status = "retry" /\ r.sentChunks = row[j].sentChunks /\ r.nextRetryAt >= clock
    BY <1>1, ConstantsAssumption DEF ConstantsAssumption, Row
  <2>2. row' = [row EXCEPT ![j] = r] /\ drain[d].pc = "claimed"
        /\ UNCHANGED <<clock, reached, fault>> /\ Continue(d)
    BY <1>3 DEF DeferClaimed
  <2> HIDE DEF r
  <2>3. Proceeds(d)
    BY <2>2, ContinueFacts
  <2> QED BY <1>1, <2>1, <2>2, <2>3, WriteFacts DEF Releases, FaultsGrow
<1>4. CASE SendSucceeds(d)
  <2> DEFINE r == [row[j] EXCEPT !.status = "sent", !.attempts = AttemptsOf(d)]
  <2>1. r.status = "sent"
    BY <1>1 DEF Row
  <2>2. row' = [row EXCEPT ![j] = r]
        /\ UNCHANGED <<clock, reached, fault>> /\ ContinueWithSync(d, "sent")
    BY <1>4 DEF SendSucceeds
  <2> HIDE DEF r
  <2>3. Proceeds(d)
    BY <2>2, SyncFacts
  <2> QED BY <1>1, <2>1, <2>2, <2>3, WriteFacts DEF Releases, FaultsGrow, Claimable
<1>5. CASE SendWaitsForUser(d)
  <2> DEFINE r == [row[j] EXCEPT !.status = "awaiting_user", !.attempts = AttemptsOf(d),
                                 !.sentChunks = drain[d].index]
  <2>1. r.status = "awaiting_user" /\ r.sentChunks = drain[d].index
    BY <1>1 DEF Row
  <2>2. row' = [row EXCEPT ![j] = r] /\ drain[d].pc = "sending"
        /\ UNCHANGED <<clock, reached, fault>> /\ ContinueWithSync(d, "parked")
    BY <1>5 DEF SendWaitsForUser, CallReturns
  <2> HIDE DEF r
  <2>3. Proceeds(d)
    BY <2>2, SyncFacts
  <2> QED BY <1>1, <2>1, <2>2, <2>3, WriteFacts DEF Releases, FaultsGrow, Claimable
<1>6. ASSUME NEW permanent \in BOOLEAN, NEW n \in 0..Chunks, MarkFailed(d, permanent, n)
      PROVE  /\ Proceeds(d) /\ \A k \in Jobs \ {j} : row'[k] = row[k]
             /\ row'[j].status \in {"expired", "dead", "retry"}
             /\ row'[j].status = "retry" => row'[j].nextRetryAt > clock
             /\ row'[j].sentChunks = n
  <2> DEFINE r == FailedRow(d, permanent, n)
  <2>1. /\ r.status \in {"expired", "dead", "retry"}
        /\ r.status = "retry" => r.nextRetryAt > clock
        /\ r.sentChunks = n
    BY <1>0, FailedRowFacts
  <2>2. row' = [row EXCEPT ![j] = r] /\ \E report : ContinueWithSync(d, report)
    BY <1>6 DEF MarkFailed
  <2> HIDE DEF r
  <2>3. Proceeds(d)
    BY <2>2, SyncFacts
  <2> QED BY <1>1, <2>1, <2>2, <2>3, WriteFacts
<1>7. CASE SendThrows(d)
  <2>1. 0 \in 0..Chunks /\ UNCHANGED <<clock, reached>>
    BY <1>7, ConstantsAssumption DEF ConstantsAssumption, SendThrows
  <2>2. FaultsGrow /\ fault'[j] # {}
    BY <1>1, <1>7, BlameFacts DEF SendThrows
  <2> QED BY <1>1, <1>6, <1>7, <2>1, <2>2 DEF Releases, SendThrows, Claimable
<1>8. ASSUME NEW permanent \in BOOLEAN, SendFails(d, permanent) PROVE Releases(d)
  <2>1. drain[d].pc = "sending" /\ drain[d].index + 1 \in 1..Chunks
        /\ MarkFailed(d, permanent, drain[d].index) /\ clock' = clock
    BY <1>1, <1>8, ConstantsAssumption DEF ConstantsAssumption, SendFails, CallReturns
  <2>2. CASE UNCHANGED <<reached, fault>>
    BY <1>1, <1>6, <2>1, <2>2 DEF Releases, FaultsGrow, Claimable
  <2>3. CASE Reach(j, drain[d].index + 1) /\ Blame(j, "lost_ack")
    BY <1>1, <1>6, <2>1, <2>3, ReachFacts, BlameFacts DEF Releases, Claimable
  <2> QED BY <1>8, <2>2, <2>3 DEF SendFails, FailingChunk
<1> QED BY <1>2, <1>3, <1>4, <1>5, <1>7, <1>8

\* Every way a drain moves on without a job.
LEMMA DropFacts ==
  ASSUME TypeOK, NEW d \in Drains,
         \/ EndDrain(d) \/ DrainAborts(d) \/ SyncDelivery(d) \/ SyncFails(d)
         \/ \E s \in drain[d].due : SkipUnclaimed(d, s)
  PROVE  Drops(d)
<1>1. CASE EndDrain(d)
  BY <1>1 DEF EndDrain, IdleDrain, TypeOK, Drops, Others, FaultsGrow
<1>2. CASE DrainAborts(d)
  <2>1. drain[d].cur.job \in Jobs
    BY <1>2, WorkingType DEF DrainAborts
  <2>2. FaultsGrow /\ fault'[drain[d].cur.job] # {}
    BY <1>2, <2>1, BlameFacts DEF DrainAborts
  <2>3. drain'[d] = IdleDrain /\ Others(d) /\ UNCHANGED <<clock, row, reached>>
    BY <1>2 DEF DrainAborts, TypeOK, Others
  <2> QED BY <2>2, <2>3 DEF IdleDrain, Drops
<1>3. CASE SyncDelivery(d) \/ SyncFails(d)
  <2>1. drain[d].pc = "syncing" /\ Continue(d) /\ UNCHANGED <<clock, row, reached>>
    BY <1>3 DEF SyncDelivery, SyncFails
  <2>2. drain[d].cur.job \in Jobs
    BY <2>1, WorkingType DEF Working
  <2>3. FaultsGrow
    BY <1>3, <2>2, BlameFacts DEF SyncDelivery, SyncFails, FaultsGrow
  <2> QED BY <2>1, <2>3, ContinueFacts DEF Drops, Proceeds
<1>4. ASSUME NEW s \in drain[d].due, SkipUnclaimed(d, s) PROVE Drops(d)
  BY <1>4 DEF SkipUnclaimed, IsNext, TypeOK, Drain, Drops, Others, FaultsGrow
<1> QED BY <1>1, <1>2, <1>3, <1>4

-----------------------------------------------------------------------------
(* Leases. *)

LEMMA InitLeased == Init => Leased
<1> SUFFICES ASSUME Init PROVE Leased
  OBVIOUS
<1>1. clock = 0 /\ \A d \in Drains : drain[d].pc = "idle" /\ drain[d].now = 0
  BY DEF Init, IdleDrain
<1> QED BY <1>1 DEF Leased, Holds

\* A step after which no drain holds what it did not hold, and which leaves
\* the rows of held jobs alone, keeps the leases.
LEMMA KeepsLeased ==
  ASSUME Leased, FaultsGrow,
         \A d \in Drains : drain'[d].now <= clock',
         \A d \in Drains, j \in Jobs : Holds(d, j)' =>
            /\ Holds(d, j) /\ drain'[d].now = drain[d].now
            /\ \/ "overrun" \in fault'[j]
               \/ row'[j].status = row[j].status /\ row'[j].nextRetryAt = row[j].nextRetryAt
  PROVE  Leased'
<1>1. ASSUME NEW d \in Drains, NEW j \in Jobs, Holds(d, j)', "overrun" \notin fault'[j]
      PROVE  /\ row'[j].status = "processing"
             /\ row'[j].nextRetryAt = LeaseEnd(d)'
             /\ \A e \in Drains : Holds(e, j)' => e = d
  <2>1. "overrun" \notin fault[j]
    BY <1>1 DEF FaultsGrow
  <2> QED BY <1>1, <2>1 DEF Leased, LeaseEnd
<1> QED BY <1>1 DEF Leased

LEMMA ReleaseLeased ==
  ASSUME TypeOK, Leased, NEW d \in Drains, Releases(d) PROVE Leased'
<1> DEFINE j == drain[d].cur.job
<1>1. ASSUME NEW e \in Drains, NEW k \in Jobs, Holds(e, k)'
      PROVE  /\ Holds(e, k) /\ drain'[e].now = drain[e].now
             /\ \/ "overrun" \in fault'[k]
                \/ row'[k].status = row[k].status /\ row'[k].nextRetryAt = row[k].nextRetryAt
  <2>1. e # d
    BY <1>1 DEF Holds, Releases, Proceeds
  <2>2. drain'[e] = drain[e] /\ Holds(e, k)
    BY <1>1, <2>1 DEF Holds, Releases, Proceeds, Others
  <2>3. CASE k = j
    BY <2>1, <2>2, <2>3 DEF Leased, Releases, FaultsGrow
  <2>4. CASE k # j
    BY <2>2, <2>4 DEF Releases
  <2> QED BY <2>2, <2>3, <2>4
<1>2. \A e \in Drains : drain'[e].now <= clock'
  BY DEF Leased, Releases, Proceeds, Others
<1> QED BY <1>1, <1>2, KeepsLeased DEF Releases

LEMMA DropLeased ==
  ASSUME TypeOK, Leased, NEW d \in Drains, Drops(d) PROVE Leased'
<1>1. \A e \in Drains, k \in Jobs : Holds(e, k)' => Holds(e, k) /\ drain'[e].now = drain[e].now
  BY DEF Holds, Drops, Others
<1>2. \A e \in Drains : drain'[e].now <= clock'
  <2>1. clock \in Nat
    BY DEF TypeOK
  <2> QED BY <2>1 DEF Leased, Drops, Others
<1> QED BY <1>1, <1>2, KeepsLeased DEF Drops

\* The steps that leave every drain's job alone.
LEMMA OutsideLeased ==
  ASSUME TypeOK, Leased,
         (\E j \in Jobs : Enqueue(j)) \/ Inbound \/ ToggleBusy \/ Tick \/ Crash
  PROVE  Leased'
<1>0. clock \in Nat /\ row \in [Jobs -> Row]
  BY DEF TypeOK
<1>1. ASSUME NEW j \in Jobs, Enqueue(j) PROVE Leased'
  <2>1. /\ UNCHANGED <<clock, drain, fault>> /\ row[j].status = "absent"
        /\ \A k \in Jobs \ {j} : row'[k] = row[k]
    BY <1>0, <1>1 DEF Enqueue
  <2>2. \A d \in Drains : Holds(d, j) => "overrun" \in fault[j]
    BY <2>1 DEF Leased
  <2> QED BY <2>1, <2>2, KeepsLeased DEF Holds, Leased, FaultsGrow
<1>2. CASE Inbound
  <2>1. UNCHANGED <<clock, drain, fault>>
    BY <1>2 DEF Inbound
  <2>2. \A k \in Jobs : row[k].status = "processing" => row'[k] = row[k]
    BY <1>2 DEF Inbound
  <2> QED BY <2>1, <2>2, KeepsLeased DEF Holds, Leased, FaultsGrow
<1>3. CASE ToggleBusy
  BY <1>3, KeepsLeased DEF ToggleBusy, Holds, Leased, FaultsGrow
<1>4. CASE Tick
  <2>1. UNCHANGED <<row, drain, fault>> /\ clock' = clock + 1
    BY <1>4 DEF Tick
  <2>2. \A d \in Drains : drain[d].now \in Nat
    BY DEF TypeOK, Drain
  <2> QED BY <1>0, <2>1, <2>2, KeepsLeased DEF Holds, Leased, FaultsGrow
<1>5. CASE Crash
  <2>1. \A d \in Drains : drain'[d].pc = "idle" /\ drain'[d].now = 0
    BY <1>5 DEF Crash, IdleDrain
  <2>2. FaultsGrow /\ clock' = clock
    BY <1>5 DEF Crash, FaultsGrow
  <2> QED BY <1>0, <2>1, <2>2, KeepsLeased DEF Holds
<1> QED BY <1>1, <1>2, <1>3, <1>4, <1>5

\* A claimed job's first holder had a lease that ran out, or it had none.
LEMMA ClaimFacts ==
  ASSUME TypeOK, Leased, NEW d \in Drains, NEW s \in drain[d].due, ClaimDuePushJob(d, s)
  PROVE  /\ s.job \in Jobs /\ drain[d].pc = "next"
         /\ row[s.job].status \in Claimable /\ row[s.job].nextRetryAt <= drain[d].now
         /\ row'[s.job].status = "processing" /\ row'[s.job].nextRetryAt = LeaseEnd(d)
         /\ row'[s.job].sentChunks = row[s.job].sentChunks
         /\ \A k \in Jobs \ {s.job} : row'[k] = row[k]
         /\ drain'[d].pc = "claimed" /\ drain'[d].cur = s
         /\ drain'[d].now = drain[d].now /\ drain'[d].due = drain[d].due \ {s}
         /\ Others(d) /\ FaultsGrow /\ UNCHANGED <<clock, reached, delivery, fallback>>
         /\ (\E e \in Drains : Holds(e, s.job)) => "overrun" \in fault'[s.job]
<1> DEFINE j == s.job
<1>1. j \in Jobs /\ drain[d] \in Drain /\ row[j] \in Row
  BY DEF TypeOK
<1>2. drain[d].pc = "next" /\ row[j].status \in Claimable /\ row[j].nextRetryAt <= drain[d].now
  BY DEF ClaimDuePushJob, IsNext, IsDue
<1>3. /\ row'[j].status = "processing" /\ row'[j].nextRetryAt = LeaseEnd(d)
      /\ row'[j].sentChunks = row[j].sentChunks
      /\ \A k \in Jobs \ {j} : row'[k] = row[k]
  <2> DEFINE r == [row[j] EXCEPT !.status = "processing", !.nextRetryAt = LeaseEnd(d)]
  <2>1. r.status = "processing" /\ r.nextRetryAt = LeaseEnd(d) /\ r.sentChunks = row[j].sentChunks
    BY <1>1 DEF Row
  <2>2. row' = [row EXCEPT ![j] = r]
    BY DEF ClaimDuePushJob
  <2> HIDE DEF r
  <2> QED BY <1>1, <2>1, <2>2, WriteFacts
<1>4. /\ drain'[d].pc = "claimed" /\ drain'[d].cur = s /\ drain'[d].now = drain[d].now
      /\ drain'[d].due = drain[d].due \ {s} /\ Others(d)
  BY <1>1 DEF ClaimDuePushJob, TypeOK, Drain, Others
<1>5. FaultsGrow
  BY <1>1, BlameFacts DEF ClaimDuePushJob, FaultsGrow
<1>6. ASSUME NEW e \in Drains, Holds(e, j) PROVE "overrun" \in fault'[j]
  <2>1. CASE "overrun" \in fault[j]
    BY <1>1, <1>5, <2>1 DEF FaultsGrow
  <2>2. CASE "overrun" \notin fault[j]
    <3>1. row[j].nextRetryAt = LeaseEnd(e) /\ drain[d].now <= clock
      BY <1>1, <1>6, <2>2 DEF Leased
    <3>2. row[j].nextRetryAt \in Nat /\ drain[d].now \in Nat /\ clock \in Nat
      BY <1>1 DEF TypeOK, Row, Drain
    <3>3. LeaseEnd(e) <= clock
      BY <1>2, <3>1, <3>2
    <3>4. Handles(e, j)
      BY <1>6 DEF Holds, Handles, Working
    <3>5. Blame(j, "overrun")
      BY <3>3, <3>4 DEF ClaimDuePushJob
    <3> QED BY <1>1, <3>5, BlameFacts
  <2> QED BY <2>1, <2>2
<1> QED BY <1>1, <1>2, <1>3, <1>4, <1>5, <1>6 DEF ClaimDuePushJob

LEMMA ClaimLeased ==
  ASSUME TypeOK, Leased, NEW d \in Drains, NEW s \in drain[d].due, ClaimDuePushJob(d, s)
  PROVE  Leased'
<1> DEFINE j == s.job
<1>1. \A e \in Drains : drain'[e].now <= clock'
  BY ClaimFacts DEF Leased, Others
<1>2. ASSUME NEW e \in Drains, NEW k \in Jobs, Holds(e, k)', "overrun" \notin fault'[k]
      PROVE  /\ row'[k].status = "processing"
             /\ row'[k].nextRetryAt = LeaseEnd(e)'
             /\ \A f \in Drains : Holds(f, k)' => f = e
  <2>1. \A f \in Drains \ {d} : Holds(f, k)' <=> Holds(f, k)
    BY ClaimFacts DEF Holds, Others
  <2>2. CASE k = j
    <3>1. \A f \in Drains : ~Holds(f, k)
      BY <1>2, <2>2, ClaimFacts
    <3> QED BY <1>2, <2>1, <2>2, <3>1, ClaimFacts DEF LeaseEnd
  <2>3. CASE k # j
    <3>1. ~Holds(d, k)'
      BY <2>3, ClaimFacts DEF Holds
    <3>2. Holds(e, k) /\ e # d /\ "overrun" \notin fault[k] /\ drain'[e] = drain[e]
      BY <1>2, <2>1, <3>1, ClaimFacts DEF FaultsGrow, Others
    <3> QED BY <2>1, <2>3, <3>1, <3>2, ClaimFacts DEF Leased, LeaseEnd
  <2> QED BY <2>2, <2>3
<1> QED BY <1>1, <1>2 DEF Leased

\* A batch is read, a call begins, a chunk is delivered.
LEMMA BatchFacts ==
  ASSUME TypeOK, NEW d \in Drains, StartDrain(d)
  PROVE  /\ drain[d].pc = "idle" /\ drain'[d].pc = "next" /\ drain'[d].now = clock
         /\ \A s \in drain'[d].due : /\ s.job \in Jobs /\ row[s.job].status \in Claimable
                                     /\ s.sentChunks = row[s.job].sentChunks
         /\ Others(d) /\ UNCHANGED <<clock, row, busy, reached, delivery, fallback, fault>>
<1>1. PICK batch \in SUBSET {j \in Jobs : IsDue(j, clock)} :
        drain' = [drain EXCEPT ![d] =
           [IdleDrain EXCEPT !.pc = "next", !.now = clock,
                             !.due = {SnapshotOf(j) : j \in batch}]]
  BY DEF StartDrain
<1> DEFINE taken == {SnapshotOf(j) : j \in batch}
           new == [IdleDrain EXCEPT !.pc = "next", !.now = clock, !.due = taken]
<1>2. \A s \in taken : /\ s.job \in Jobs /\ row[s.job].status \in Claimable
                       /\ s.sentChunks = row[s.job].sentChunks
  BY DEF SnapshotOf, IsDue
<1> HIDE DEF taken
<1>3. new.pc = "next" /\ new.now = clock /\ new.due = taken
  BY DEF IdleDrain
<1>4. drain' = [drain EXCEPT ![d] = new]
  BY <1>1 DEF taken
<1> HIDE DEF new
<1> QED BY <1>2, <1>3, <1>4 DEF StartDrain, TypeOK, Others

LEMMA BeginFacts ==
  ASSUME TypeOK, NEW d \in Drains, BeginSend(d)
  PROVE  /\ drain[d].pc = "claimed" /\ drain'[d].pc = "sending"
         /\ drain'[d].now = drain[d].now /\ drain'[d].due = drain[d].due
         /\ drain'[d].cur = drain[d].cur /\ drain'[d].index = drain[d].cur.sentChunks
         /\ drain'[d].began = clock
         /\ Others(d) /\ UNCHANGED <<clock, row, busy, reached, delivery, fallback, fault>>
BY DEF BeginSend, TypeOK, Drain, Others

LEMMA DeliverFacts ==
  ASSUME TypeOK, NEW d \in Drains, DeliverChunk(d)
  PROVE  /\ drain[d].pc = "sending" /\ drain'[d].pc = "sending"
         /\ drain'[d].now = drain[d].now /\ drain'[d].due = drain[d].due
         /\ drain'[d].cur = drain[d].cur /\ drain'[d].index = drain[d].index + 1
         /\ drain'[d].began = drain[d].began
         /\ drain[d].index + 1 \in 1..Chunks
         /\ Reach(drain[d].cur.job, drain[d].index + 1)
         /\ Others(d) /\ UNCHANGED <<clock, row, busy, delivery, fallback, fault>>
<1>1. drain[d] \in Drain
  BY DEF TypeOK
<1>2. drain[d].index + 1 \in 1..Chunks
  BY <1>1, ConstantsAssumption DEF ConstantsAssumption, DeliverChunk, Drain
<1> QED BY <1>1, <1>2 DEF DeliverChunk, TypeOK, Drain, Others

LEMMA NextLeased == TypeOK /\ Leased /\ [Next]_vars => Leased'
<1> SUFFICES ASSUME TypeOK, Leased, [Next]_vars PROVE Leased'
  OBVIOUS
<1>1. CASE UNCHANGED vars
  BY <1>1 DEF vars, Leased, Holds, LeaseEnd
<1>2. CASE (\E j \in Jobs : Enqueue(j)) \/ Inbound \/ ToggleBusy \/ Tick \/ Crash
  BY <1>2, OutsideLeased
<1>3. ASSUME NEW d \in Drains, StartDrain(d) \/ DrainStep(d) \/ DrainAborts(d)
      PROVE  Leased'
  <2>1. CASE StartDrain(d)
    <3>1. \A e \in Drains, k \in Jobs : Holds(e, k)' => Holds(e, k) /\ drain'[e].now = drain[e].now
      BY <2>1, BatchFacts DEF Holds, Others
    <3>2. (\A e \in Drains : drain'[e].now <= clock') /\ FaultsGrow /\ row' = row
      BY <2>1, BatchFacts DEF Leased, Others, FaultsGrow, TypeOK
    <3> QED BY <3>1, <3>2, KeepsLeased
  <2>2. ASSUME NEW s \in drain[d].due, ClaimDuePushJob(d, s) PROVE Leased'
    BY <2>2, ClaimLeased
  <2>3. CASE BeginSend(d)
    <3>1. \A e \in Drains, k \in Jobs : Holds(e, k)' => Holds(e, k) /\ drain'[e].now = drain[e].now
      BY <2>3, BeginFacts DEF Holds, Others
    <3>2. (\A e \in Drains : drain'[e].now <= clock') /\ FaultsGrow /\ row' = row
      BY <2>3, BeginFacts DEF Leased, Others, FaultsGrow
    <3> QED BY <3>1, <3>2, KeepsLeased
  <2>4. CASE DeliverChunk(d)
    <3>1. \A e \in Drains, k \in Jobs : Holds(e, k)' => Holds(e, k) /\ drain'[e].now = drain[e].now
      BY <2>4, DeliverFacts DEF Holds, Others
    <3>2. (\A e \in Drains : drain'[e].now <= clock') /\ FaultsGrow /\ row' = row
      BY <2>4, DeliverFacts DEF Leased, Others, FaultsGrow
    <3> QED BY <3>1, <3>2, KeepsLeased
  <2>5. CASE \/ ExpireClaimed(d) \/ DeferClaimed(d) \/ SendSucceeds(d)
             \/ SendWaitsForUser(d) \/ SendThrows(d)
             \/ \E permanent \in BOOLEAN : SendFails(d, permanent)
    BY <2>5, ReleaseFacts, ReleaseLeased
  <2>6. CASE \/ EndDrain(d) \/ DrainAborts(d) \/ SyncDelivery(d) \/ SyncFails(d)
             \/ \E s \in drain[d].due : SkipUnclaimed(d, s)
    BY <2>6, DropFacts, DropLeased
  <2> QED BY <1>3, <2>1, <2>2, <2>3, <2>4, <2>5, <2>6 DEF DrainStep
<1> QED BY <1>1, <1>2, <1>3 DEF Next

\* push-queue.ts:142, for any number of drains: the claim's lease admits one
\* caller, and a second one only after the first outlived its lease.
THEOREM OneCaller == Spec => []OneCallerPerJob
<1>1. Init => TypeOK /\ Leased
  BY InitTypeOK, InitLeased
<1>2. TypeOK /\ Leased /\ [Next]_vars => (TypeOK /\ Leased)'
  BY NextTypeOK, NextLeased
<1>3. TypeOK /\ Leased => OneCallerPerJob
  BY DEF TypeOK, Working, Leased, Holds, OneCallerPerJob
<1> QED BY <1>1, <1>2, <1>3, PTL DEF Spec

-----------------------------------------------------------------------------
(* The progress a call starts from. *)

\* Fresh by its parts.
SnapshotFresh(d, s) ==
    /\ row[s.job].status # "absent"
    /\ fault[s.job] = {} => s.sentChunks = row[s.job].sentChunks \/ Outdated(d, s.job)
ClaimFresh(d) ==
    drain[d].pc = "claimed" /\ fault[drain[d].cur.job] = {} =>
        drain[d].cur.sentChunks = row[drain[d].cur.job].sentChunks
IdleFresh == \A d \in Drains : drain[d].pc = "idle" => drain[d].due = {}
AbsentFresh == \A j \in Jobs : row[j].status = "absent" => row[j].sentChunks = 0

LEMMA FreshParts ==
  ASSUME TypeOK
  PROVE  Fresh <=> /\ IdleFresh /\ AbsentFresh
                   /\ \A d \in Drains : ClaimFresh(d) /\ \A s \in drain[d].due : SnapshotFresh(d, s)
<1>1. \A d \in Drains : drain[d].pc = "claimed" => drain[d].cur.job \in Jobs
  BY DEF TypeOK, Working
<1> QED BY <1>1 DEF Fresh, SnapshotFresh, ClaimFresh, IdleFresh, AbsentFresh, Holds

LEMMA FreshPartsNext ==
  ASSUME TypeOK'
  PROVE  Fresh' <=> /\ IdleFresh' /\ AbsentFresh'
                    /\ \A d \in Drains : /\ ClaimFresh(d)'
                                         /\ \A s \in drain'[d].due : SnapshotFresh(d, s)'
<1>1. \A d \in Drains : drain'[d].pc = "claimed" => drain'[d].cur.job \in Jobs
  BY DEF TypeOK, Working
<1> QED BY <1>1 DEF Fresh, SnapshotFresh, ClaimFresh, IdleFresh, AbsentFresh, Holds

LEMMA InitFresh == Init => Fresh
<1> SUFFICES ASSUME Init PROVE Fresh
  OBVIOUS
<1>1. \A d \in Drains : drain[d].pc = "idle" /\ drain[d].due = {}
  BY DEF Init, IdleDrain
<1>2. \A j \in Jobs : row[j].sentChunks = 0
  BY DEF Init, AbsentRow
<1> QED BY <1>1, <1>2 DEF Fresh, Holds

\* A step that leaves a job's row alone and gives no drain the job keeps its
\* snapshots as they were.
LEMMA KeepsSnapshot ==
  ASSUME TypeOK, NEW d \in Drains, NEW s, s.job \in Jobs, SnapshotFresh(d, s),
         drain'[d].now = drain[d].now, FaultsGrow, row'[s.job] = row[s.job],
         \A e \in Drains : Holds(e, s.job)' => Holds(e, s.job) /\ drain'[e].now = drain[e].now
  PROVE  SnapshotFresh(d, s)'
<1>1. fault'[s.job] = {} => fault[s.job] = {}
  BY DEF FaultsGrow
<1> QED BY <1>1 DEF SnapshotFresh, Outdated

LEMMA ReleaseFresh ==
  ASSUME TypeOK, TypeOK', Leased, Fresh, NEW d \in Drains, Releases(d) PROVE Fresh'
<1> PICK j \in Jobs : j = drain[d].cur.job
  BY DEF Releases
<1>0. clock \in Nat /\ \A e \in Drains : drain[e].now \in Nat /\ drain[e].now <= clock
  BY DEF TypeOK, Drain, Leased
<1>1. \A e \in Drains, k \in Jobs : Holds(e, k)' => e # d /\ Holds(e, k) /\ drain'[e] = drain[e]
  BY DEF Holds, Releases, Proceeds, Others
<1>2. fault'[j] = {} => \A e \in Drains : ~Holds(e, j)'
  BY <1>1 DEF Leased, Releases, FaultsGrow
<1>3. ASSUME NEW e \in Drains, NEW s \in drain'[e].due PROVE SnapshotFresh(e, s)'
  <2>1. s \in drain[e].due /\ s.job \in Jobs /\ SnapshotFresh(e, s)
        /\ drain'[e].now = drain[e].now
    BY FreshParts DEF Releases, Proceeds, Others, TypeOK
  <2>2. CASE s.job # j
    BY <1>1, <2>1, <2>2, KeepsSnapshot DEF Releases
  <2>3. CASE s.job = j
    <3>1. row'[j].status # "absent" /\ (fault'[j] = {} => fault[j] = {})
      BY DEF Releases, FaultsGrow
    <3>2. CASE row'[j].status \notin Claimable
      BY <1>2, <2>3, <3>1, <3>2 DEF SnapshotFresh, Outdated
    <3>3. CASE row'[j].nextRetryAt > clock
      <4>1. row'[j].nextRetryAt > drain'[e].now
        <5>1. row'[j].nextRetryAt \in Nat
          BY DEF Releases, TypeOK, Row
        <5> QED BY <1>0, <2>1, <3>3, <5>1
      <4> QED BY <1>2, <2>3, <3>1, <4>1 DEF SnapshotFresh, Outdated
    <3>4. CASE row'[j].sentChunks = row[j].sentChunks /\ row'[j].nextRetryAt >= clock
      <4>1. CASE s.sentChunks = row[j].sentChunks
        BY <2>3, <3>1, <3>4, <4>1 DEF SnapshotFresh
      <4>2. CASE Outdated(e, j)
        <5>1. drain[d].now > drain[e].now
          BY <4>2 DEF Outdated, Releases
        <5>2. row'[j].nextRetryAt \in Nat
          BY DEF Releases, TypeOK, Row
        <5>3. row'[j].nextRetryAt > drain'[e].now
          BY <1>0, <2>1, <3>4, <5>1, <5>2
        <5> QED BY <1>2, <2>3, <3>1, <5>3 DEF SnapshotFresh, Outdated
      <4>3. CASE fault[j] # {}
        BY <2>3, <3>1, <4>3 DEF SnapshotFresh
      <4> QED BY <2>1, <2>3, <4>1, <4>2, <4>3 DEF SnapshotFresh
    <3> QED BY <3>2, <3>3, <3>4 DEF Releases
  <2> QED BY <2>2, <2>3
<1>4. ASSUME NEW e \in Drains PROVE ClaimFresh(e)'
  <2>1. SUFFICES ASSUME drain'[e].pc = "claimed", fault'[drain'[e].cur.job] = {}
                 PROVE  drain'[e].cur.sentChunks = row'[drain'[e].cur.job].sentChunks
    BY DEF ClaimFresh
  <2>2. PICK k \in Jobs : k = drain'[e].cur.job
    BY <2>1 DEF TypeOK, Working
  <2>3. Holds(e, k)'
    BY <2>1, <2>2 DEF Holds
  <2>4. drain'[e] = drain[e] /\ k # j
    BY <1>1, <1>2, <2>1, <2>2, <2>3
  <2>5. row'[k] = row[k] /\ fault[k] = {} /\ ClaimFresh(e)
    BY <2>1, <2>2, <2>4, FreshParts DEF Releases, FaultsGrow
  <2> QED BY <2>1, <2>2, <2>4, <2>5 DEF ClaimFresh
<1>5. IdleFresh' /\ AbsentFresh'
  <2>1. IdleFresh'
    BY FreshParts DEF IdleFresh, Releases, Proceeds, Others
  <2>2. AbsentFresh'
    BY FreshParts DEF AbsentFresh, Releases
  <2> QED BY <2>1, <2>2
<1>6. /\ IdleFresh' /\ AbsentFresh'
      /\ \A e \in Drains : ClaimFresh(e)' /\ \A s \in drain'[e].due : SnapshotFresh(e, s)'
  BY <1>3, <1>4, <1>5
<1> QED BY <1>6, FreshPartsNext

LEMMA DropFresh ==
  ASSUME TypeOK, TypeOK', Fresh, NEW d \in Drains, Drops(d) PROVE Fresh'
<1>1. \A e \in Drains, k \in Jobs : Holds(e, k)' => Holds(e, k) /\ drain'[e].now = drain[e].now
  BY DEF Holds, Drops, Others
<1>2. ASSUME NEW e \in Drains, NEW s \in drain'[e].due PROVE SnapshotFresh(e, s)'
  <2>1. s \in drain[e].due /\ s.job \in Jobs /\ SnapshotFresh(e, s)
        /\ drain'[e].now = drain[e].now
    BY FreshParts DEF Drops, Others, TypeOK
  <2> QED BY <1>1, <2>1, KeepsSnapshot DEF Drops
<1>3. ASSUME NEW e \in Drains PROVE ClaimFresh(e)'
  <2>1. CASE e = d
    BY <2>1 DEF ClaimFresh, Drops
  <2>2. CASE e # d
    BY <2>2, FreshParts DEF ClaimFresh, Drops, Others, FaultsGrow, TypeOK, Working
  <2> QED BY <2>1, <2>2
<1>4. IdleFresh' /\ AbsentFresh'
  BY FreshParts DEF IdleFresh, AbsentFresh, Drops, Others
<1> QED BY <1>2, <1>3, <1>4, FreshPartsNext

LEMMA ClaimKeepsFresh ==
  ASSUME TypeOK, TypeOK', Leased, Fresh, NEW d \in Drains, NEW s \in drain[d].due,
         ClaimDuePushJob(d, s)
  PROVE  Fresh'
<1> PICK j \in Jobs : j = s.job
  BY ClaimFacts
<1>0. /\ \A e \in Drains : drain[e].now \in Nat
      /\ row[j].nextRetryAt \in Nat /\ Lease \in Nat
  BY ConstantsAssumption DEF ConstantsAssumption, TypeOK, Drain, Row
<1>1. \A e \in Drains, k \in Jobs \ {j} :
        Holds(e, k)' => Holds(e, k) /\ drain'[e].now = drain[e].now
  BY ClaimFacts DEF Holds, Others
<1>2. ASSUME NEW e \in Drains, NEW t \in drain'[e].due PROVE SnapshotFresh(e, t)'
  <2>1. t \in drain[e].due /\ t.job \in Jobs /\ SnapshotFresh(e, t)
        /\ drain'[e].now = drain[e].now
    BY ClaimFacts, FreshParts DEF Others, TypeOK
  <2>2. CASE t.job # j
    BY <1>1, <2>1, <2>2, ClaimFacts, KeepsSnapshot
  <2>3. CASE t.job = j
    <3>1. /\ row'[j].status = "processing" /\ row'[j].sentChunks = row[j].sentChunks
          /\ row'[j].nextRetryAt = drain[d].now + Lease
          /\ fault'[j] = {} => fault[j] = {}
          /\ drain'[d].now = drain[d].now
      BY ClaimFacts DEF LeaseEnd, FaultsGrow
    <3>2. CASE t.sentChunks = row[j].sentChunks
      BY <2>3, <3>1, <3>2 DEF SnapshotFresh
    <3>3. CASE Outdated(e, j) /\ fault'[j] = {}
      <4>1. row[j].nextRetryAt > drain[e].now /\ row[j].nextRetryAt <= drain[d].now
        BY <3>3, ClaimFacts DEF Outdated
      <4>2. drain[d].now > drain[e].now
        BY <1>0, <4>1
      <4>3. row'[j].nextRetryAt > drain'[e].now
        BY <1>0, <2>1, <3>1, <4>2
      <4>4. \A f \in Drains : ~Holds(f, j)
        BY <3>3, ClaimFacts
      <4>5. \A f \in Drains : Holds(f, j)' => f = d
        BY <4>4, ClaimFacts DEF Holds, Others
      <4> QED BY <2>1, <2>3, <3>1, <4>2, <4>3, <4>5 DEF SnapshotFresh, Outdated
    <3>4. CASE fault'[j] # {}
      BY <2>3, <3>1, <3>4 DEF SnapshotFresh
    <3> QED BY <2>1, <2>3, <3>1, <3>2, <3>3, <3>4 DEF SnapshotFresh
  <2> QED BY <2>2, <2>3
<1>3. ASSUME NEW e \in Drains PROVE ClaimFresh(e)'
  <2>1. CASE e = d
    <3>1. SnapshotFresh(d, s) /\ row[j].status \in Claimable
          /\ row[j].nextRetryAt <= drain[d].now
      BY FreshParts, ClaimFacts
    <3>2. ~Outdated(d, j)
      BY <1>0, <3>1 DEF Outdated
    <3> QED BY <2>1, <3>1, <3>2, ClaimFacts DEF ClaimFresh, SnapshotFresh, FaultsGrow
  <2>2. CASE e # d
    <3>1. drain'[e] = drain[e] /\ ClaimFresh(e)
      BY <2>2, ClaimFacts, FreshParts DEF Others
    <3>2. drain[e].pc = "claimed" => drain[e].cur.job \in Jobs
      BY DEF TypeOK, Working
    <3>3. \A k \in Jobs : row'[k].sentChunks = row[k].sentChunks
                         /\ (fault'[k] = {} => fault[k] = {})
      BY ClaimFacts DEF FaultsGrow
    <3> QED BY <3>1, <3>2, <3>3 DEF ClaimFresh
  <2> QED BY <2>1, <2>2
<1>4. IdleFresh' /\ AbsentFresh'
  BY FreshParts, ClaimFacts DEF IdleFresh, AbsentFresh, Others
<1> QED BY <1>2, <1>3, <1>4, FreshPartsNext

\* What a drain does alone: reads a batch, begins a call, delivers a chunk.
LEMMA AloneFresh ==
  ASSUME TypeOK, TypeOK', Fresh, NEW d \in Drains,
         StartDrain(d) \/ BeginSend(d) \/ DeliverChunk(d)
  PROVE  Fresh'
<1>1. /\ UNCHANGED <<row, fault>> /\ FaultsGrow /\ Others(d)
      /\ drain'[d].pc \in {"next", "sending"}
      /\ \/ drain[d].pc = "idle"
         \/ drain'[d].due = drain[d].due /\ drain'[d].now = drain[d].now
      /\ \A e \in Drains, k \in Jobs :
           Holds(e, k)' => Holds(e, k) /\ drain'[e].now = drain[e].now
  <2>1. CASE StartDrain(d)
    <3>1. /\ drain[d].pc = "idle" /\ drain'[d].pc = "next" /\ Others(d)
          /\ UNCHANGED <<row, fault>>
      BY <2>1, BatchFacts
    <3> QED BY <3>1 DEF FaultsGrow, Holds, Others
  <2>2. CASE BeginSend(d)
    BY <2>2, BeginFacts DEF FaultsGrow, Holds, Others
  <2>3. CASE DeliverChunk(d)
    BY <2>3, DeliverFacts DEF FaultsGrow, Holds, Others
  <2> QED BY <2>1, <2>2, <2>3
<1>2. ASSUME NEW e \in Drains, NEW s \in drain'[e].due PROVE SnapshotFresh(e, s)'
  <2>1. CASE e = d /\ StartDrain(d)
    BY <1>1, <2>1, BatchFacts DEF SnapshotFresh, Claimable
  <2>2. CASE ~(e = d /\ StartDrain(d))
    <3>1. s \in drain[e].due /\ s.job \in Jobs /\ SnapshotFresh(e, s)
          /\ drain'[e].now = drain[e].now
      BY <1>1, <2>2, FreshParts, BatchFacts, BeginFacts, DeliverFacts DEF Others, TypeOK
    <3> QED BY <1>1, <3>1, KeepsSnapshot
  <2> QED BY <2>1, <2>2
<1>3. ASSUME NEW e \in Drains PROVE ClaimFresh(e)'
  BY <1>1, FreshParts DEF ClaimFresh, Others
<1>4. IdleFresh' /\ AbsentFresh'
  BY <1>1, FreshParts DEF IdleFresh, AbsentFresh, Others
<1> QED BY <1>2, <1>3, <1>4, FreshPartsNext

LEMMA OutsideFresh ==
  ASSUME TypeOK, TypeOK', Leased, Fresh,
         (\E j \in Jobs : Enqueue(j)) \/ Inbound \/ ToggleBusy \/ Tick \/ Crash
  PROVE  Fresh'
<1>0. clock \in Nat /\ \A d \in Drains : drain[d].now \in Nat
  BY DEF TypeOK, Drain
<1>1. ASSUME NEW j \in Jobs, Enqueue(j) PROVE Fresh'
  <2>1. /\ UNCHANGED <<drain, fault>> /\ FaultsGrow /\ row[j].status = "absent"
        /\ row'[j].status = "pending"
        /\ \A k \in Jobs \ {j} : row'[k] = row[k]
    BY <1>1 DEF Enqueue, FaultsGrow, TypeOK
  <2>2. ASSUME NEW d \in Drains, NEW s \in drain'[d].due PROVE SnapshotFresh(d, s)'
    <3>1. SnapshotFresh(d, s) /\ s.job \in Jobs /\ s.job # j
      BY <2>1, FreshParts DEF SnapshotFresh, TypeOK
    <3> QED BY <2>1, <3>1, KeepsSnapshot DEF Holds
  <2>3. ASSUME NEW d \in Drains PROVE ClaimFresh(d)'
    <3>1. fault[j] = {} => ~Holds(d, j)
      BY <2>1 DEF Leased
    <3>2. drain[d].pc = "claimed" => drain[d].cur.job \in Jobs
      BY DEF TypeOK, Working
    <3> QED BY <2>1, <3>1, <3>2, FreshParts DEF ClaimFresh, Holds
  <2>4. IdleFresh' /\ AbsentFresh'
    BY <2>1, FreshParts DEF IdleFresh, AbsentFresh
  <2> QED BY <2>2, <2>3, <2>4, FreshPartsNext
<1>2. CASE Inbound
  <2>1. /\ UNCHANGED <<clock, drain, fault>>
        /\ \A d \in Drains : drain[d].pc # "idle" => drain[d].now < clock
    BY <1>2 DEF Inbound
  <2>2. ASSUME NEW k \in Jobs
        PROVE  /\ row'[k].sentChunks = row[k].sentChunks
               /\ row'[k].status = "absent" => row[k].status = "absent"
               /\ \/ row'[k] = row[k] \/ row'[k].status = "expired"
                  \/ row'[k].status = "retry" /\ row'[k].nextRetryAt = clock
    <3>1. row[k] \in Row
      BY DEF TypeOK
    <3>2. \/ row'[k] = row[k]
          \/ row'[k] = [row[k] EXCEPT !.status = "expired"]
          \/ row'[k] = [row[k] EXCEPT !.status = "retry", !.nextRetryAt = clock]
      BY <1>2 DEF Inbound
    <3> QED BY <3>1, <3>2 DEF Row
  <2>3. ASSUME NEW d \in Drains, NEW s \in drain'[d].due PROVE SnapshotFresh(d, s)'
    <3>1. SnapshotFresh(d, s) /\ s.job \in Jobs /\ drain[d].now < clock
      BY <2>1, FreshParts DEF IdleFresh, TypeOK
    <3>2. row'[s.job].status \in Claimable =>
            row'[s.job] = row[s.job] \/ row'[s.job].nextRetryAt > drain[d].now
      BY <1>0, <2>2, <3>1 DEF Claimable
    <3> QED BY <2>1, <2>2, <3>1, <3>2 DEF SnapshotFresh, Outdated, Holds
  <2>4. ASSUME NEW d \in Drains PROVE ClaimFresh(d)'
    <3>2. drain[d].pc = "claimed" => drain[d].cur.job \in Jobs
      BY DEF TypeOK, Working
    <3> QED BY <2>1, <2>2, <3>2, FreshParts DEF ClaimFresh
  <2>5. IdleFresh' /\ AbsentFresh'
    BY <2>1, <2>2, FreshParts DEF IdleFresh, AbsentFresh
  <2> QED BY <2>3, <2>4, <2>5, FreshPartsNext
<1>3. CASE ToggleBusy \/ Tick
  <2>1. UNCHANGED <<row, drain, fault>>
    BY <1>3 DEF ToggleBusy, Tick
  <2> QED BY <2>1 DEF Fresh, Outdated, Holds
<1>4. CASE Crash
  <2>1. \A d \in Drains : drain'[d].pc = "idle" /\ drain'[d].due = {}
    BY <1>4 DEF Crash, IdleDrain
  <2>2. row' = row
    BY <1>4 DEF Crash
  <2> QED BY <2>1, <2>2 DEF Fresh, Holds
<1> QED BY <1>1, <1>2, <1>3, <1>4

LEMMA NextFresh == TypeOK /\ Leased /\ Fresh /\ [Next]_vars => Fresh'
<1> SUFFICES ASSUME TypeOK, Leased, Fresh, [Next]_vars PROVE Fresh'
  OBVIOUS
<1>0. TypeOK'
  BY NextTypeOK
<1>1. CASE UNCHANGED vars
  BY <1>1 DEF vars, Fresh, Outdated, Holds
<1>2. CASE (\E j \in Jobs : Enqueue(j)) \/ Inbound \/ ToggleBusy \/ Tick \/ Crash
  BY <1>0, <1>2, OutsideFresh
<1>3. ASSUME NEW d \in Drains, StartDrain(d) \/ DrainStep(d) \/ DrainAborts(d)
      PROVE  Fresh'
  <2>1. CASE StartDrain(d) \/ BeginSend(d) \/ DeliverChunk(d)
    BY <1>0, <2>1, AloneFresh
  <2>2. ASSUME NEW s \in drain[d].due, ClaimDuePushJob(d, s) PROVE Fresh'
    BY <1>0, <2>2, ClaimKeepsFresh
  <2>3. CASE \/ ExpireClaimed(d) \/ DeferClaimed(d) \/ SendSucceeds(d)
             \/ SendWaitsForUser(d) \/ SendThrows(d)
             \/ \E permanent \in BOOLEAN : SendFails(d, permanent)
    BY <1>0, <2>3, ReleaseFacts, ReleaseFresh
  <2>4. CASE \/ EndDrain(d) \/ DrainAborts(d) \/ SyncDelivery(d) \/ SyncFails(d)
             \/ \E s \in drain[d].due : SkipUnclaimed(d, s)
    BY <1>0, <2>4, DropFacts, DropFresh
  <2> QED BY <1>3, <2>1, <2>2, <2>3, <2>4 DEF DrainStep
<1> QED BY <1>1, <1>2, <1>3 DEF Next

-----------------------------------------------------------------------------
(* Chunks arrive once. *)

\* Single, for one job.
SingleFor(j) == fault[j] = {} =>
    /\ \A c \in 1..Chunks : reached[j][c] <= 1
    /\ row[j].status # "sent" /\ (\A d \in Drains : ~Calls(d, j))
         => NoneBeyond(j, row[j].sentChunks)
    /\ \A d \in Drains : Calls(d, j) => NoneBeyond(j, drain[d].index)

LEMMA SingleIsFor == Single <=> \A j \in Jobs : SingleFor(j)
BY DEF Single, SingleFor

LEMMA InitSingle == Init => Single
<1> SUFFICES ASSUME Init PROVE Single
  OBVIOUS
<1>1. \A j \in Jobs, c \in 1..Chunks : reached[j][c] = 0
  BY DEF Init
<1>2. \A d \in Drains : drain[d].pc = "idle"
  BY DEF Init, IdleDrain
<1> QED BY <1>1, <1>2 DEF Single, NoneBeyond, Calls

\* A step that leaves a job's arrivals, its callers and its progress alone.
LEMMA KeepsSingle ==
  ASSUME Single, NEW j \in Jobs, FaultsGrow, reached'[j] = reached[j],
         row'[j].sentChunks = row[j].sentChunks,
         row[j].status = "sent" => row'[j].status = "sent",
         \A d \in Drains : Calls(d, j)' <=> Calls(d, j),
         \A d \in Drains : Calls(d, j) => drain'[d].index = drain[d].index
  PROVE  SingleFor(j)'
<1>1. fault'[j] = {} => fault[j] = {}
  BY DEF FaultsGrow
<1> QED BY <1>1, SingleIsFor DEF SingleFor, NoneBeyond

LEMMA ReleaseSingle ==
  ASSUME TypeOK, Leased, Single, NEW d \in Drains, Releases(d) PROVE Single'
<1> PICK j \in Jobs : j = drain[d].cur.job
  BY DEF Releases
<1>1. ASSUME NEW k \in Jobs, k # j PROVE SingleFor(k)'
  <2>1. reached'[k] = reached[k] /\ row'[k] = row[k]
    BY <1>1 DEF Releases
  <2>2. \A e \in Drains : (Calls(e, k)' <=> Calls(e, k))
                       /\ (Calls(e, k) => drain'[e].index = drain[e].index)
    BY <1>1 DEF Calls, Releases, Proceeds, Others
  <2> QED BY <2>1, <2>2, KeepsSingle DEF Releases
<1>2. SingleFor(j)'
  <2>1. SUFFICES ASSUME fault'[j] = {} PROVE SingleFor(j)'
    BY DEF SingleFor
  <2>2. fault[j] = {} /\ SingleFor(j) /\ reached'[j] = reached[j] /\ Holds(d, j)
    BY <2>1, SingleIsFor DEF Releases, FaultsGrow
  <2>3. row[j].status = "processing" /\ \A e \in Drains : Holds(e, j) => e = d
    BY <2>2 DEF Leased
  <2>4. \A e \in Drains : ~Calls(e, j)'
    BY <2>3 DEF Calls, Holds, Releases, Proceeds, Others
  <2>5. CASE row'[j].status = "sent"
    BY <2>2, <2>4, <2>5 DEF SingleFor
  <2>6. CASE drain[d].pc = "claimed" /\ row'[j].sentChunks = row[j].sentChunks
    <3>1. \A e \in Drains : ~Calls(e, j)
      BY <2>3, <2>6 DEF Calls, Holds
    <3> QED BY <2>2, <2>3, <2>4, <2>6, <3>1 DEF SingleFor, NoneBeyond
  <2>7. CASE drain[d].pc = "sending" /\ row'[j].sentChunks = drain[d].index
    <3>1. Calls(d, j)
      BY <2>7 DEF Calls
    <3> QED BY <2>2, <2>4, <2>7, <3>1 DEF SingleFor, NoneBeyond
  <2> QED BY <2>1, <2>5, <2>6, <2>7 DEF Releases
<1> QED BY <1>1, <1>2 DEF Single, SingleFor

LEMMA DropSingle ==
  ASSUME TypeOK, Single, NEW d \in Drains, Drops(d) PROVE Single'
<1>1. ASSUME NEW k \in Jobs PROVE SingleFor(k)'
  <2>1. CASE Calls(d, k)
    <3>1. fault'[k] # {}
      BY <2>1 DEF Calls, Drops
    <3> QED BY <3>1 DEF SingleFor
  <2>2. CASE ~Calls(d, k)
    <3>1. \A e \in Drains : (Calls(e, k)' <=> Calls(e, k))
                         /\ (Calls(e, k) => drain'[e].index = drain[e].index)
      BY <2>2 DEF Calls, Drops, Others
    <3> QED BY <3>1, KeepsSingle DEF Drops
  <2> QED BY <2>1, <2>2
<1> QED BY <1>1 DEF Single, SingleFor

LEMMA BeginSingle ==
  ASSUME TypeOK, Leased, Fresh, Single, NEW d \in Drains, BeginSend(d) PROVE Single'
<1> PICK j \in Jobs : j = drain[d].cur.job
  BY BeginFacts DEF TypeOK, Working
<1>1. ASSUME NEW k \in Jobs, k # j PROVE SingleFor(k)'
  <2>1. \A e \in Drains : (Calls(e, k)' <=> Calls(e, k))
                       /\ (Calls(e, k) => drain'[e].index = drain[e].index)
    BY <1>1, BeginFacts DEF Calls, Others
  <2> QED BY <2>1, BeginFacts, KeepsSingle DEF FaultsGrow
<1>2. SingleFor(j)'
  <2>1. SUFFICES ASSUME fault'[j] = {} PROVE SingleFor(j)'
    BY DEF SingleFor
  <2>2. fault[j] = {} /\ SingleFor(j) /\ reached' = reached /\ row' = row /\ Holds(d, j)
    BY <2>1, SingleIsFor, BeginFacts DEF Holds
  <2>3. /\ row[j].status = "processing" /\ \A e \in Drains : Holds(e, j) => e = d
        /\ drain[d].cur.sentChunks = row[j].sentChunks
    BY <2>2, BeginFacts DEF Leased, Fresh
  <2>4. \A e \in Drains : ~Calls(e, j)
    BY <2>3, BeginFacts DEF Calls, Holds
  <2>5. NoneBeyond(j, row[j].sentChunks) /\ \A c \in 1..Chunks : reached[j][c] <= 1
    BY <2>2, <2>3, <2>4 DEF SingleFor
  <2>6. Calls(d, j)' /\ drain'[d].index = row[j].sentChunks
    BY <2>3, BeginFacts DEF Calls
  <2>7. \A e \in Drains : Calls(e, j)' => e = d
    BY <2>4, BeginFacts DEF Calls, Others
  <2> QED BY <2>2, <2>5, <2>6, <2>7 DEF SingleFor, NoneBeyond
<1> QED BY <1>1, <1>2 DEF Single, SingleFor

LEMMA DeliverSingle ==
  ASSUME TypeOK, Leased, Single, NEW d \in Drains, DeliverChunk(d) PROVE Single'
<1> PICK j \in Jobs : j = drain[d].cur.job
  BY DeliverFacts DEF TypeOK, Working
<1> DEFINE n == drain[d].index + 1
<1>0. /\ \A k \in Jobs \ {j} : reached'[k] = reached[k]
      /\ \A b \in 1..Chunks \ {n} : reached'[j][b] = reached[j][b]
      /\ reached[j][n] = 0 => reached'[j][n] = 1
      /\ n \in 1..Chunks /\ drain[d].index \in Nat
  BY DeliverFacts, ReachFacts DEF TypeOK, Drain
<1>1. ASSUME NEW k \in Jobs, k # j PROVE SingleFor(k)'
  <2>1. \A e \in Drains : (Calls(e, k)' <=> Calls(e, k))
                       /\ (Calls(e, k) => drain'[e].index = drain[e].index)
    BY <1>1, DeliverFacts DEF Calls, Others
  <2> QED BY <1>0, <1>1, <2>1, DeliverFacts, KeepsSingle DEF FaultsGrow
<1>2. SingleFor(j)'
  <2>1. SUFFICES ASSUME fault'[j] = {} PROVE SingleFor(j)'
    BY DEF SingleFor
  <2>2. fault[j] = {} /\ SingleFor(j) /\ Calls(d, j) /\ Holds(d, j)
    BY <2>1, SingleIsFor, DeliverFacts DEF Calls, Holds
  <2>3. NoneBeyond(j, drain[d].index) /\ \A c \in 1..Chunks : reached[j][c] <= 1
    BY <2>2 DEF SingleFor
  <2>4. reached[j][n] = 0
    BY <1>0, <2>3 DEF NoneBeyond
  <2>5. \A c \in 1..Chunks : reached'[j][c] <= 1
    BY <1>0, <2>3, <2>4
  <2>6. \A c \in 1..Chunks : c > n => reached'[j][c] = 0
    BY <1>0, <2>3 DEF NoneBeyond
  <2>7. \A e \in Drains : Calls(e, j)' => e = d
    BY <2>2, DeliverFacts DEF Leased, Calls, Holds, Others
  <2>8. Calls(d, j)' /\ drain'[d].index = n
    BY DeliverFacts DEF Calls
  <2> QED BY <2>5, <2>6, <2>7, <2>8 DEF SingleFor, NoneBeyond
<1> QED BY <1>1, <1>2 DEF Single, SingleFor

\* The steps of the world outside, a batch that is read and a claim.
LEMMA QuietSingle ==
  ASSUME TypeOK, Leased, Fresh, Single,
         \/ (\E j \in Jobs : Enqueue(j)) \/ Inbound \/ ToggleBusy \/ Tick \/ Crash
         \/ \E d \in Drains : \/ StartDrain(d)
                              \/ \E s \in drain[d].due : ClaimDuePushJob(d, s)
  PROVE  Single'
<1>1. ASSUME NEW j \in Jobs, Enqueue(j) PROVE Single'
  <2>1. /\ UNCHANGED <<drain, fault, reached>> /\ row[j].status = "absent"
        /\ row'[j].sentChunks = 0 /\ row[j].sentChunks = 0
        /\ \A k \in Jobs \ {j} : row'[k] = row[k]
    BY <1>1 DEF Enqueue, Fresh, TypeOK
  <2>2. \A k \in Jobs : SingleFor(k)'
    BY <2>1, KeepsSingle DEF Calls, FaultsGrow
  <2> QED BY <2>2 DEF Single, SingleFor
<1>2. CASE Inbound
  <2>1. /\ UNCHANGED <<drain, fault, reached>>
        /\ \A k \in Jobs : row[k].status = "sent" => row'[k] = row[k]
    BY <1>2 DEF Inbound
  <2>2. ASSUME NEW k \in Jobs PROVE row'[k].sentChunks = row[k].sentChunks
    <3>1. row[k] \in Row
      BY DEF TypeOK
    <3>2. \/ row'[k] = row[k]
          \/ row'[k] = [row[k] EXCEPT !.status = "expired"]
          \/ row'[k] = [row[k] EXCEPT !.status = "retry", !.nextRetryAt = clock]
      BY <1>2 DEF Inbound
    <3> QED BY <3>1, <3>2 DEF Row
  <2>3. \A k \in Jobs : SingleFor(k)'
    BY <2>1, <2>2, KeepsSingle DEF Calls, FaultsGrow
  <2> QED BY <2>3 DEF Single, SingleFor
<1>3. CASE ToggleBusy \/ Tick
  <2>1. UNCHANGED <<row, drain, reached, fault>>
    BY <1>3 DEF ToggleBusy, Tick
  <2> QED BY <2>1 DEF Single, NoneBeyond, Calls
<1>4. CASE Crash
  <2>1. /\ \A d \in Drains : drain'[d].pc = "idle"
        /\ UNCHANGED <<row, reached>> /\ FaultsGrow
        /\ \A k \in Jobs : (\E d \in Drains : Handles(d, k)) => fault'[k] # {}
    BY <1>4 DEF Crash, IdleDrain, FaultsGrow
  <2>2. ASSUME NEW k \in Jobs PROVE SingleFor(k)'
    <3>1. CASE \E d \in Drains : Calls(d, k)
      <4>1. fault'[k] # {}
        BY <2>1, <3>1 DEF Calls, Handles, Working
      <4> QED BY <4>1 DEF SingleFor
    <3>2. CASE \A d \in Drains : ~Calls(d, k)
      BY <2>1, <3>2, KeepsSingle DEF Calls
    <3> QED BY <3>1, <3>2
  <2> QED BY <2>2 DEF Single, SingleFor
<1>5. ASSUME NEW d \in Drains, StartDrain(d) PROVE Single'
  <2>1. /\ UNCHANGED <<row, reached>> /\ FaultsGrow
        /\ \A k \in Jobs, e \in Drains : (Calls(e, k)' <=> Calls(e, k))
                                     /\ (Calls(e, k) => drain'[e].index = drain[e].index)
    BY <1>5, BatchFacts DEF Calls, Others, FaultsGrow
  <2>2. \A k \in Jobs : SingleFor(k)'
    BY <2>1, KeepsSingle
  <2> QED BY <2>2 DEF Single, SingleFor
<1>6. ASSUME NEW d \in Drains, NEW s \in drain[d].due, ClaimDuePushJob(d, s) PROVE Single'
  <2>1. /\ reached' = reached /\ FaultsGrow
        /\ \A k \in Jobs, e \in Drains : (Calls(e, k)' <=> Calls(e, k))
                                     /\ (Calls(e, k) => drain'[e].index = drain[e].index)
    <3>1. /\ reached' = reached /\ FaultsGrow /\ Others(d)
          /\ drain[d].pc = "next" /\ drain'[d].pc = "claimed"
      BY <1>6, ClaimFacts
    <3> QED BY <3>1 DEF Calls, Others
  <2>2. \A k \in Jobs : /\ row'[k].sentChunks = row[k].sentChunks
                        /\ row[k].status = "sent" => row'[k].status = "sent"
    BY <1>6, ClaimFacts DEF Claimable
  <2>3. \A k \in Jobs : SingleFor(k)'
    BY <2>1, <2>2, KeepsSingle
  <2> QED BY <2>3 DEF Single, SingleFor
<1> QED BY <1>1, <1>2, <1>3, <1>4, <1>5, <1>6

LEMMA NextSingle == TypeOK /\ Leased /\ Fresh /\ Single /\ [Next]_vars => Single'
<1> SUFFICES ASSUME TypeOK, Leased, Fresh, Single, [Next]_vars PROVE Single'
  OBVIOUS
<1>1. CASE UNCHANGED vars
  BY <1>1 DEF vars, Single, NoneBeyond, Calls
<1>2. CASE (\E j \in Jobs : Enqueue(j)) \/ Inbound \/ ToggleBusy \/ Tick \/ Crash
  BY <1>2, QuietSingle
<1>3. ASSUME NEW d \in Drains, StartDrain(d) \/ DrainStep(d) \/ DrainAborts(d)
      PROVE  Single'
  <2>1. CASE StartDrain(d) \/ \E s \in drain[d].due : ClaimDuePushJob(d, s)
    BY <2>1, QuietSingle
  <2>2. CASE BeginSend(d) \/ DeliverChunk(d)
    BY <2>2, BeginSingle, DeliverSingle
  <2>3. CASE \/ ExpireClaimed(d) \/ DeferClaimed(d) \/ SendSucceeds(d)
             \/ SendWaitsForUser(d) \/ SendThrows(d)
             \/ \E permanent \in BOOLEAN : SendFails(d, permanent)
    BY <2>3, ReleaseFacts, ReleaseSingle
  <2>4. CASE \/ EndDrain(d) \/ DrainAborts(d) \/ SyncDelivery(d) \/ SyncFails(d)
             \/ \E s \in drain[d].due : SkipUnclaimed(d, s)
    BY <2>4, DropFacts, DropSingle
  <2> QED BY <1>3, <2>1, <2>2, <2>3, <2>4 DEF DrainStep
<1> QED BY <1>1, <1>2, <1>3 DEF Next

\* Concurrent drains, snapshots read before the claim, parking, deferral and
\* retries alone deliver no chunk twice, for any number of them.
THEOREM NoDuplicateWithoutFault == Spec => []DuplicateOnlyAfterFault
<1>1. Init => TypeOK /\ Leased /\ Fresh /\ Single
  BY InitTypeOK, InitLeased, InitFresh, InitSingle
<1>2. TypeOK /\ Leased /\ Fresh /\ Single /\ [Next]_vars => (TypeOK /\ Leased /\ Fresh /\ Single)'
  BY NextTypeOK, NextLeased, NextFresh, NextSingle
<1>3. TypeOK /\ Single => DuplicateOnlyAfterFault
  <2> SUFFICES ASSUME TypeOK, Single, NEW j \in Jobs, NEW c \in 1..Chunks, reached[j][c] > 1
               PROVE  fault[j] # {}
    BY DEF DuplicateOnlyAfterFault
  <2>1. reached[j][c] \in 0..2
    BY DEF TypeOK
  <2> QED BY <2>1 DEF Single
<1> QED BY <1>1, <1>2, <1>3, PTL DEF Spec

-----------------------------------------------------------------------------
(* What the run is told. *)

Syncs(d, j) == drain[d].pc = "syncing" /\ drain[d].cur.job = j

\* What a report about to be written back says of the row.  A parked job may
\* have been resumed and taken up again by another drain in the meantime.
ReportFits(j, report) ==
    /\ report = "pending" => row[j].status = "retry" /\ row[j].nextRetryAt > clock
    /\ report = "sent" => row[j].status = "sent"
    /\ report = "failed" => row[j].status \in {"dead", "expired"}
    /\ report = "parked" =>
         /\ row[j].status \in {"awaiting_user", "expired", "retry", "processing"}
         /\ row[j].status \in {"retry", "processing"} =>
              row[j].expiresAt = Never \/ row[j].expiresAt > clock

\* What the run and the fallback item say once everything is written back.
ToldFate(j) ==
    /\ row[j].status = "sent" => delivery[j] = "sent" /\ fallback[j] # "open"
    /\ row[j].status = "dead" => delivery[j] = "failed"
    /\ row[j].status = "expired" => delivery[j] = "failed" \/ fallback[j] = "open"
    /\ row[j].status \in Claimable => delivery[j] = "pending"
    /\ row[j].status = "awaiting_user" => fallback[j] = "open" /\ delivery[j] = "pending"

\* One drain at a time writes back, in the instant its call returned: a call
\* that another drain began in the meantime has not returned yet.
SyncedBy(d, j) ==
    /\ delivery[j] = "pending"
    /\ \A e \in Drains : Syncs(e, j) => e = d
    /\ \A e \in Drains : Calls(e, j) => drain[e].began = clock
    /\ ReportFits(j, drain[d].report)

ToldFor(j) == Followed(j) =>
    /\ fallback[j] = "resolved" => row[j].status = "sent"
    /\ (\A d \in Drains : ~Syncs(d, j)) => ToldFate(j)
    /\ \A d \in Drains : Syncs(d, j) => SyncedBy(d, j)
Told == \A j \in Summaries : ToldFor(j)

LEMMA SummariesAreJobs == Summaries \subseteq Jobs
BY ConstantsAssumption DEF ConstantsAssumption

LEMMA InitTold == Init => Told
<1> SUFFICES ASSUME Init, NEW j \in Summaries PROVE ToldFor(j)
  BY DEF Told
<1>1. j \in Jobs /\ \A d \in Drains : drain[d].pc = "idle"
  BY SummariesAreJobs DEF Init, IdleDrain
<1>2. row[j].status = "absent" /\ fallback[j] = "none"
  BY <1>1 DEF Init, AbsentRow
<1> QED BY <1>1, <1>2 DEF ToldFor, ToldFate, Syncs, Claimable

\* A step that leaves a job's row, its callers and its write-backs alone, at
\* an instant in which a write-back keeps the clock.
LEMMA KeepsTold ==
  ASSUME Told, NEW j \in Summaries, FaultsGrow,
         row'[j] = row[j], delivery'[j] = delivery[j], fallback'[j] = fallback[j],
         (\E d \in Drains : Syncs(d, j)) => clock' = clock,
         \A d \in Drains : Syncs(d, j)' <=> Syncs(d, j),
         \A d \in Drains : Syncs(d, j) => drain'[d].report = drain[d].report,
         \A d \in Drains : Calls(d, j)' =>
            \/ Calls(d, j) /\ drain'[d].began = drain[d].began
            \/ drain'[d].began = clock'
  PROVE  ToldFor(j)'
<1>1. Followed(j)' => Followed(j)
  BY SummariesAreJobs DEF FaultsGrow, Followed
<1>2. ToldFor(j)
  BY DEF Told
<1>3. ToldFate(j) => ToldFate(j)'
  BY DEF ToldFate
<1>4. ASSUME NEW d \in Drains, Syncs(d, j), SyncedBy(d, j) PROVE SyncedBy(d, j)'
  BY <1>4 DEF SyncedBy, ReportFits
<1> QED BY <1>1, <1>2, <1>3, <1>4 DEF ToldFor

\* What a release tells the run of a summary: nothing when it is deferred, or
\* the row's fate, after a call that took time or at an expiry.
LEMMA OutcomeFacts ==
  ASSUME TypeOK, NEW d \in Drains,
         \/ ExpireClaimed(d) \/ DeferClaimed(d) \/ SendSucceeds(d)
         \/ SendWaitsForUser(d) \/ SendThrows(d)
         \/ \E permanent \in BOOLEAN : SendFails(d, permanent),
         NEW j \in Summaries, drain[d].cur.job = j
  PROVE  /\ UNCHANGED <<delivery, fallback>>
         /\ \/ /\ drain'[d].pc = "next" /\ row'[j].status = "retry"
               /\ row'[j].expiresAt = row[j].expiresAt
            \/ /\ drain'[d].pc = "syncing"
               /\ \/ CallReturns(d)
                  \/ drain[d].pc = "claimed" /\ IsExpired(j, drain[d].now)
               /\ \/ drain'[d].report = "sent" /\ row'[j].status = "sent"
                  \/ drain'[d].report = "failed" /\ row'[j].status \in {"dead", "expired"}
                  \/ drain'[d].report = "parked" /\ row'[j].status = "awaiting_user"
                  \/ /\ drain'[d].report = "pending" /\ row'[j].status = "retry"
                     /\ row'[j].nextRetryAt > clock
<1>0. drain[d].pc \in Working /\ j \in Jobs
  BY SummariesAreJobs DEF ExpireClaimed, DeferClaimed, SendSucceeds, SendWaitsForUser,
     SendThrows, SendFails, CallReturns, Working
<1>1. row[j] \in Row /\ drain[d] \in Drain
  BY <1>0 DEF TypeOK
<1>2. CASE ExpireClaimed(d)
  <2>1. drain'[d].pc = "syncing" /\ drain'[d].report = "failed"
    BY <1>2, SyncFacts DEF ExpireClaimed
  <2>2. row'[j].status = "expired"
    BY <1>0, <1>1, <1>2 DEF ExpireClaimed, TypeOK, Row
  <2> QED BY <1>2, <2>1, <2>2 DEF ExpireClaimed
<1>3. CASE DeferClaimed(d)
  <2>1. drain'[d].pc = "next"
    BY <1>3, ContinueFacts DEF DeferClaimed
  <2>2. row'[j].status = "retry" /\ row'[j].expiresAt = row[j].expiresAt
    BY <1>0, <1>1, <1>3 DEF DeferClaimed, TypeOK, Row
  <2> QED BY <1>3, <2>1, <2>2 DEF DeferClaimed
<1>4. CASE SendSucceeds(d)
  <2>1. drain'[d].pc = "syncing" /\ drain'[d].report = "sent"
    BY <1>4, SyncFacts DEF SendSucceeds
  <2>2. row'[j].status = "sent"
    BY <1>0, <1>1, <1>4 DEF SendSucceeds, TypeOK, Row
  <2> QED BY <1>4, <2>1, <2>2 DEF SendSucceeds
<1>5. CASE SendWaitsForUser(d)
  <2>1. drain'[d].pc = "syncing" /\ drain'[d].report = "parked"
    BY <1>5, SyncFacts DEF SendWaitsForUser
  <2>2. row'[j].status = "awaiting_user"
    BY <1>0, <1>1, <1>5 DEF SendWaitsForUser, TypeOK, Row
  <2> QED BY <1>5, <2>1, <2>2 DEF SendWaitsForUser
<1>6. ASSUME NEW permanent \in BOOLEAN, NEW n \in 0..Chunks, MarkFailed(d, permanent, n)
      PROVE  /\ drain'[d].pc = "syncing"
             /\ \/ drain'[d].report = "failed" /\ row'[j].status \in {"dead", "expired"}
                \/ /\ drain'[d].report = "pending" /\ row'[j].status = "retry"
                   /\ row'[j].nextRetryAt > clock
  <2> DEFINE r == FailedRow(d, permanent, n)
  <2>1. /\ r.status \in {"expired", "dead", "retry"}
        /\ r.status = "retry" => r.nextRetryAt > clock
    BY <1>0, FailedRowFacts
  <2>2. /\ row' = [row EXCEPT ![j] = r]
        /\ ContinueWithSync(d, IF r.status = "retry" THEN "pending" ELSE "failed")
    BY <1>6 DEF MarkFailed
  <2> HIDE DEF r
  <2>3. drain'[d].pc = "syncing"
        /\ drain'[d].report = IF r.status = "retry" THEN "pending" ELSE "failed"
    BY <2>2, SyncFacts
  <2>4. row'[j] = r
    BY <1>0, <2>2, WriteFacts
  <2> QED BY <2>1, <2>3, <2>4
<1>7. CASE SendThrows(d)
  <2>1. 0 \in 0..Chunks
    BY ConstantsAssumption DEF ConstantsAssumption
  <2> QED BY <1>6, <1>7, <2>1 DEF SendThrows
<1>8. ASSUME NEW permanent \in BOOLEAN, SendFails(d, permanent)
      PROVE  /\ CallReturns(d) /\ UNCHANGED <<delivery, fallback>>
             /\ drain[d].index \in 0..Chunks /\ MarkFailed(d, permanent, drain[d].index)
  BY <1>1, <1>8 DEF SendFails, Drain
<1> QED BY <1>2, <1>3, <1>4, <1>5, <1>6, <1>7, <1>8

LEMMA ReleaseTold ==
  ASSUME TypeOK, Leased, Told, NEW d \in Drains, Releases(d),
         \/ ExpireClaimed(d) \/ DeferClaimed(d) \/ SendSucceeds(d)
         \/ SendWaitsForUser(d) \/ SendThrows(d)
         \/ \E permanent \in BOOLEAN : SendFails(d, permanent)
  PROVE  Told'
<1> PICK j \in Jobs : j = drain[d].cur.job
  BY DEF Releases
<1>0. UNCHANGED <<delivery, fallback, clock>> /\ FaultsGrow
  BY DEF ExpireClaimed, DeferClaimed, SendSucceeds, SendWaitsForUser, SendThrows, SendFails,
         Releases
<1>1. ASSUME NEW k \in Summaries, k # j PROVE ToldFor(k)'
  <2>1. k \in Jobs /\ row'[k] = row[k]
    BY <1>1, SummariesAreJobs DEF Releases
  <2>2. \A e \in Drains : /\ Syncs(e, k)' <=> Syncs(e, k)
                          /\ Syncs(e, k) => drain'[e].report = drain[e].report
                          /\ Calls(e, k)' => Calls(e, k) /\ drain'[e].began = drain[e].began
    BY <1>1 DEF Syncs, Calls, Holds, Releases, Proceeds, Others
  <2> QED BY <1>0, <2>1, <2>2, KeepsTold
<1>2. ASSUME j \in Summaries PROVE ToldFor(j)'
  <2>1. SUFFICES ASSUME Followed(j)' PROVE ToldFor(j)'
    BY DEF ToldFor
  <2>2. Followed(j) /\ ToldFor(j) /\ Holds(d, j)
    BY <1>2, <2>1 DEF Told, Releases, FaultsGrow, Followed
  <2>3. row[j].status = "processing" /\ \A e \in Drains : Holds(e, j) => e = d
    BY <2>2 DEF Leased, Followed
  <2>4. fallback[j] # "resolved" /\ delivery[j] = "pending"
    BY <2>2, <2>3 DEF ToldFor, ToldFate, SyncedBy, Claimable
  <2>5. \A e \in Drains \ {d} : drain'[e] = drain[e] /\ (Syncs(e, j)' <=> Syncs(e, j))
    BY DEF Releases, Proceeds, Others, Syncs
  <2>6. ~Syncs(d, j) /\ \A e \in Drains : ~Calls(e, j)'
    BY <2>2, <2>3 DEF Syncs, Holds, Calls, Releases, Proceeds, Others
  <2>7. CASE /\ drain'[d].pc = "next" /\ row'[j].status = "retry"
             /\ row'[j].expiresAt = row[j].expiresAt
    <3>1. ~Syncs(d, j)'
      BY <2>7 DEF Syncs
    <3>2. ASSUME NEW e \in Drains, Syncs(e, j)' PROVE SyncedBy(e, j)'
      <4>1. Syncs(e, j) /\ drain'[e] = drain[e] /\ SyncedBy(e, j)
        BY <2>2, <2>5, <3>1, <3>2 DEF ToldFor
      <4>2. drain[e].report = "parked" \/ drain[e].report \notin {"pending", "sent", "failed"}
        BY <2>3, <4>1 DEF SyncedBy, ReportFits
      <4>3. ReportFits(j, drain[e].report)'
        BY <1>0, <2>3, <2>7, <4>1, <4>2 DEF SyncedBy, ReportFits
      <4>4. \A f \in Drains : Syncs(f, j)' => f = e
        BY <2>5, <3>1, <4>1 DEF SyncedBy
      <4> QED BY <1>0, <2>4, <2>6, <4>3, <4>4 DEF SyncedBy
    <3>3. ToldFate(j)'
      BY <1>0, <2>4, <2>7 DEF ToldFate
    <3> QED BY <1>0, <2>4, <3>2, <3>3 DEF ToldFor
  <2>8. CASE /\ drain'[d].pc = "syncing"
             /\ \/ CallReturns(d)
                \/ drain[d].pc = "claimed" /\ IsExpired(j, drain[d].now)
             /\ \/ drain'[d].report = "sent" /\ row'[j].status = "sent"
                \/ drain'[d].report = "failed" /\ row'[j].status \in {"dead", "expired"}
                \/ drain'[d].report = "parked" /\ row'[j].status = "awaiting_user"
                \/ /\ drain'[d].report = "pending" /\ row'[j].status = "retry"
                   /\ row'[j].nextRetryAt > clock
    <3>1. ASSUME NEW e \in Drains, Syncs(e, j) PROVE FALSE
      <4>1. SyncedBy(e, j) /\ drain[e] \in Drain /\ clock \in Nat /\ drain[d] \in Drain
        BY <2>2, <3>1 DEF ToldFor, TypeOK
      <4>2. CASE CallReturns(d)
        <5>1. Calls(d, j) /\ clock > drain[d].began
          BY <2>2, <4>2 DEF CallReturns, Calls, Holds
        <5> QED BY <4>1, <5>1 DEF SyncedBy, Drain
      <4>3. CASE IsExpired(j, drain[d].now)
        <5>1. ReportFits(j, drain[e].report)
              /\ drain[e].report \in {"pending", "sent", "failed", "parked"}
          BY <4>1 DEF SyncedBy, Drain
        <5>2. row[j].expiresAt = Never \/ row[j].expiresAt > clock
          BY <2>3, <5>1 DEF ReportFits
        <5>3. row[j].expiresAt # Never /\ row[j].expiresAt <= drain[d].now
              /\ drain[d].now <= clock /\ row[j].expiresAt \in Nat /\ drain[d].now \in Nat
          BY <4>1, <4>3 DEF IsExpired, Leased, TypeOK, Row, Drain
        <5> QED BY <4>1, <5>2, <5>3
      <4> QED BY <2>8, <4>2, <4>3
    <3>2. Syncs(d, j)' /\ \A e \in Drains : Syncs(e, j)' => e = d
      <4>1. drain'[d].cur = drain[d].cur
        BY <2>8 DEF Releases, Proceeds
      <4> QED BY <2>5, <2>8, <3>1, <4>1 DEF Syncs
    <3>3. ReportFits(j, drain[d].report)'
      BY <1>0, <2>8 DEF ReportFits
    <3>4. SyncedBy(d, j)'
      BY <1>0, <2>4, <2>6, <3>2, <3>3 DEF SyncedBy
    <3> QED BY <1>0, <2>4, <3>2, <3>4 DEF ToldFor
  <2> QED BY <1>2, <2>7, <2>8, OutcomeFacts
<1> QED BY <1>1, <1>2 DEF Told

\* A drain that is not writing back moves on.
LEMMA DropTold ==
  ASSUME TypeOK, Told, NEW d \in Drains, Drops(d),
         EndDrain(d) \/ DrainAborts(d) \/ \E s \in drain[d].due : SkipUnclaimed(d, s)
  PROVE  Told'
<1>0. UNCHANGED <<row, delivery, fallback, clock>> /\ FaultsGrow
  BY DEF EndDrain, DrainAborts, SkipUnclaimed, Drops
<1>1. ASSUME NEW k \in Summaries PROVE ToldFor(k)'
  <2>1. CASE Syncs(d, k)
    <3>1. DrainAborts(d)
      BY <2>1 DEF EndDrain, SkipUnclaimed, IsNext, Syncs
    <3>2. "sync" \in fault'[k]
      BY <2>1, <3>1, SummariesAreJobs, BlameFacts DEF DrainAborts, Syncs, LossOf
    <3> QED BY <3>2 DEF ToldFor, Followed
  <2>2. CASE ~Syncs(d, k)
    <3>1. ~Syncs(d, k) /\ ~Syncs(d, k)' /\ ~Calls(d, k)'
      BY <2>2 DEF Syncs, Calls, Drops
    <3>2. \A e \in Drains : /\ Syncs(e, k)' <=> Syncs(e, k)
                            /\ Syncs(e, k) => drain'[e].report = drain[e].report
                            /\ Calls(e, k)' => Calls(e, k) /\ drain'[e].began = drain[e].began
      BY <3>1 DEF Syncs, Calls, Drops, Others
    <3> QED BY <1>0, <3>2, KeepsTold
  <2> QED BY <2>1, <2>2
<1> QED BY <1>1 DEF Told

\* The write-back succeeds or is lost.
LEMMA SyncTold ==
  ASSUME TypeOK, Leased, Told, NEW d \in Drains, SyncDelivery(d) \/ SyncFails(d)
  PROVE  Told'
<1> PICK j \in Jobs : j = drain[d].cur.job
  BY WorkingType DEF SyncDelivery, SyncFails, Working
<1>0. /\ drain[d].pc = "syncing" /\ Syncs(d, j) /\ drain[d] \in Drain
      /\ drain'[d].pc = "next" /\ Others(d)
      /\ UNCHANGED <<clock, row>> /\ FaultsGrow
      /\ \A k \in Jobs \ {j} : delivery'[k] = delivery[k] /\ fallback'[k] = fallback[k]
  <2>1. drain[d].pc = "syncing" /\ Continue(d) /\ UNCHANGED <<clock, row>>
    BY DEF SyncDelivery, SyncFails
  <2>2. FaultsGrow
    BY BlameFacts DEF SyncDelivery, SyncFails, FaultsGrow
  <2>3. \A k \in Jobs \ {j} : delivery'[k] = delivery[k] /\ fallback'[k] = fallback[k]
    BY DEF SyncDelivery, SyncFails, TypeOK
  <2> QED BY <2>1, <2>2, <2>3, ContinueFacts DEF Syncs, Proceeds, TypeOK
<1>1. ASSUME NEW k \in Summaries, k # j PROVE ToldFor(k)'
  <2>1. k \in Jobs /\ delivery'[k] = delivery[k] /\ fallback'[k] = fallback[k]
    BY <1>0, <1>1, SummariesAreJobs
  <2>2. \A e \in Drains : /\ Syncs(e, k)' <=> Syncs(e, k)
                          /\ Syncs(e, k) => drain'[e].report = drain[e].report
                          /\ Calls(e, k)' => Calls(e, k) /\ drain'[e].began = drain[e].began
    BY <1>0, <1>1 DEF Syncs, Calls, Others
  <2> QED BY <1>0, <2>1, <2>2, KeepsTold
<1>2. ASSUME j \in Summaries PROVE ToldFor(j)'
  <2>1. SUFFICES ASSUME Followed(j)' PROVE ToldFor(j)'
    BY DEF ToldFor
  <2>2. SyncDelivery(d)
    BY <2>1, BlameFacts DEF SyncFails, Followed
  <2>3. Followed(j) /\ ToldFor(j) /\ SyncedBy(d, j)
    BY <1>0, <1>2, <2>1 DEF Told, ToldFor, FaultsGrow, Followed
  <2>4. \A e \in Drains : ~Syncs(e, j)'
    BY <1>0, <2>3 DEF SyncedBy, Syncs, Others
  <2>5. /\ delivery'[j] = IF drain[d].report = "parked" THEN delivery[j] ELSE drain[d].report
        /\ fallback'[j] = CASE drain[d].report = "parked" /\ fallback[j] = "none" -> "open"
                            [] drain[d].report = "sent" /\ fallback[j] = "open" -> "resolved"
                            [] OTHER -> fallback[j]
    BY <2>2 DEF SyncDelivery, TypeOK
  <2>6. /\ drain[d].report \in {"pending", "sent", "failed", "parked"}
        /\ delivery[j] = "pending" /\ ReportFits(j, drain[d].report)
        /\ fallback[j] \in {"none", "open", "resolved"}
        /\ fallback[j] = "resolved" => row[j].status = "sent"
    BY <1>0, <2>3 DEF SyncedBy, ToldFor, TypeOK, Drain
  <2>7. CASE drain[d].report = "sent"
    <3>1. row[j].status = "sent" /\ delivery'[j] = "sent" /\ fallback'[j] # "open"
      BY <2>5, <2>6, <2>7 DEF ReportFits
    <3> QED BY <1>0, <2>4, <3>1 DEF ToldFor, ToldFate, Claimable
  <2>8. CASE drain[d].report = "pending"
    <3>1. row[j].status = "retry" /\ delivery'[j] = "pending" /\ fallback'[j] = fallback[j]
      BY <2>5, <2>6, <2>8 DEF ReportFits
    <3> QED BY <1>0, <2>4, <2>6, <3>1 DEF ToldFor, ToldFate, Claimable
  <2>9. CASE drain[d].report = "failed"
    <3>1. /\ row[j].status \in {"dead", "expired"} /\ delivery'[j] = "failed"
          /\ fallback'[j] = fallback[j]
      BY <2>5, <2>6, <2>9 DEF ReportFits
    <3> QED BY <1>0, <2>4, <2>6, <3>1 DEF ToldFor, ToldFate, Claimable
  <2>10. CASE drain[d].report = "parked"
    <3>1. /\ row[j].status \in {"awaiting_user", "expired", "retry", "processing"}
          /\ delivery'[j] = "pending" /\ fallback'[j] = "open"
      BY <2>5, <2>6, <2>10 DEF ReportFits
    <3> QED BY <1>0, <2>4, <3>1 DEF ToldFor, ToldFate, Claimable
  <2> QED BY <2>6, <2>7, <2>8, <2>9, <2>10
<1> QED BY <1>1, <1>2 DEF Told

\* A claim during a write-back takes only a job that was parked and resumed.
LEMMA ClaimTold ==
  ASSUME TypeOK, Leased, Told, NEW d \in Drains, NEW s \in drain[d].due, ClaimDuePushJob(d, s)
  PROVE  Told'
<1> PICK j \in Jobs : j = s.job
  BY ClaimFacts
<1>0. /\ UNCHANGED <<clock, delivery, fallback>> /\ FaultsGrow
      /\ drain[d].pc = "next" /\ drain'[d].pc = "claimed" /\ Others(d)
      /\ \A k \in Jobs \ {j} : row'[k] = row[k]
  BY ClaimFacts
<1>1. \A k \in Jobs, e \in Drains :
        /\ Syncs(e, k)' <=> Syncs(e, k)
        /\ Syncs(e, k) => drain'[e].report = drain[e].report
        /\ Calls(e, k)' => Calls(e, k) /\ drain'[e].began = drain[e].began
  BY <1>0 DEF Syncs, Calls, Others
<1>2. ASSUME NEW k \in Summaries, k # j PROVE ToldFor(k)'
  BY <1>0, <1>1, <1>2, SummariesAreJobs, KeepsTold
<1>3. ASSUME j \in Summaries PROVE ToldFor(j)'
  <2>1. SUFFICES ASSUME Followed(j)' PROVE ToldFor(j)'
    BY DEF ToldFor
  <2>2. Followed(j) /\ ToldFor(j)
    BY <1>0, <1>3, <2>1 DEF Told, FaultsGrow, Followed
  <2>3. /\ row[j].status \in Claimable /\ row[j].nextRetryAt <= drain[d].now
        /\ row'[j].status = "processing"
    BY ClaimFacts
  <2>4. fallback[j] # "resolved"
    BY <2>2, <2>3 DEF ToldFor, Claimable
  <2>5. row'[j].expiresAt = row[j].expiresAt
    BY DEF ClaimDuePushJob, TypeOK, Row
  <2>6. ASSUME NEW e \in Drains, Syncs(e, j)' PROVE SyncedBy(e, j)'
    <3>1. Syncs(e, j) /\ SyncedBy(e, j) /\ drain[e].report = drain'[e].report
      BY <1>1, <2>2, <2>6 DEF ToldFor
    <3>2. drain[d].now <= clock /\ drain[d].now \in Nat /\ clock \in Nat
          /\ row[j].nextRetryAt \in Nat /\ drain[e].report \in {"pending", "sent", "failed", "parked"}
      BY DEF Leased, TypeOK, Drain, Row
    <3>3. ~(row[j].nextRetryAt > clock)
      BY <2>3, <3>2
    <3>4. drain[e].report = "parked"
          /\ row[j].status \in {"retry", "processing"}
          /\ (row[j].expiresAt = Never \/ row[j].expiresAt > clock)
      BY <2>3, <3>1, <3>2, <3>3 DEF SyncedBy, ReportFits, Claimable
    <3>5. ReportFits(j, drain[e].report)'
      BY <1>0, <2>3, <2>5, <3>1, <3>4 DEF ReportFits
    <3> QED BY <1>0, <1>1, <3>1, <3>5 DEF SyncedBy
  <2>7. (\A e \in Drains : ~Syncs(e, j)') => ToldFate(j)'
    BY <1>0, <1>1, <2>2, <2>3 DEF ToldFor, ToldFate
  <2> QED BY <1>0, <2>4, <2>6, <2>7 DEF ToldFor
<1> QED BY <1>2, <1>3 DEF Told

\* A batch is read, a call begins, a chunk is delivered.
LEMMA AloneTold ==
  ASSUME TypeOK, Told, NEW d \in Drains,
         StartDrain(d) \/ BeginSend(d) \/ DeliverChunk(d)
  PROVE  Told'
<1>1. UNCHANGED <<clock, row, delivery, fallback>> /\ FaultsGrow
  BY BatchFacts, BeginFacts, DeliverFacts DEF FaultsGrow
<1>2. ASSUME NEW k \in Summaries, NEW e \in Drains
      PROVE  /\ Syncs(e, k)' <=> Syncs(e, k)
             /\ Syncs(e, k) => drain'[e].report = drain[e].report
             /\ Calls(e, k)' => \/ Calls(e, k) /\ drain'[e].began = drain[e].began
                                \/ drain'[e].began = clock'
  <2>1. CASE e # d
    <3>1. drain'[e] = drain[e]
      BY <2>1, BatchFacts, BeginFacts, DeliverFacts DEF Others
    <3> QED BY <3>1 DEF Syncs, Calls
  <2>2. CASE e = d
    <3>1. CASE StartDrain(d)
      BY <2>2, <3>1, BatchFacts DEF Syncs, Calls
    <3>2. CASE BeginSend(d)
      BY <1>1, <2>2, <3>2, BeginFacts DEF Syncs, Calls
    <3>3. CASE DeliverChunk(d)
      BY <2>2, <3>3, DeliverFacts DEF Syncs, Calls
    <3> QED BY <3>1, <3>2, <3>3
  <2> QED BY <2>1, <2>2
<1>3. \A k \in Summaries : ToldFor(k)'
  BY <1>1, <1>2, KeepsTold
<1> QED BY <1>3 DEF Told

LEMMA OutsideTold ==
  ASSUME TypeOK, Told,
         (\E j \in Jobs : Enqueue(j)) \/ Inbound \/ ToggleBusy \/ Tick \/ Crash
  PROVE  Told'
<1>0. clock \in Nat /\ \A d \in Drains : drain[d].report \in {"pending", "sent", "failed", "parked"}
  BY DEF TypeOK, Drain
<1>1. ASSUME NEW j \in Jobs, Enqueue(j) PROVE Told'
  <2>1. /\ UNCHANGED <<clock, drain, fault, fallback>> /\ FaultsGrow
        /\ row[j].status = "absent" /\ row'[j].status = "pending"
        /\ j \in Summaries => delivery'[j] = "pending"
        /\ \A k \in Jobs \ {j} : row'[k] = row[k] /\ delivery'[k] = delivery[k]
    BY <1>1 DEF Enqueue, FaultsGrow, TypeOK
  <2>2. ASSUME NEW k \in Summaries, k # j PROVE ToldFor(k)'
    BY <2>1, <2>2, SummariesAreJobs, KeepsTold DEF Syncs, Calls
  <2>3. ASSUME j \in Summaries, Followed(j)' PROVE ToldFor(j)'
    <3>1. ToldFor(j) /\ Followed(j)
      BY <2>1, <2>3 DEF Told, Followed
    <3>2. fallback[j] # "resolved" /\ \A e \in Drains : ~Syncs(e, j)
      BY <1>0, <2>1, <3>1 DEF ToldFor, SyncedBy, ReportFits
    <3> QED BY <2>1, <2>3, <3>2 DEF ToldFor, ToldFate, Syncs
  <2> QED BY <2>2, <2>3 DEF Told, ToldFor
<1>2. CASE Inbound
  <2>1. UNCHANGED <<clock, drain, fault, delivery, fallback>>
    BY <1>2 DEF Inbound
  <2>2. ASSUME NEW k \in Jobs
        PROVE  \/ row'[k] = row[k]
               \/ row[k].status = "awaiting_user" /\ row'[k].status = "expired"
               \/ /\ row[k].status = "awaiting_user" /\ row'[k].status = "retry"
                  /\ row'[k].expiresAt > clock
    <3>1. row[k] \in Row /\ (row[k].expiresAt = Never \/ row[k].expiresAt \in Nat)
      BY DEF TypeOK, Row
    <3>2. \/ row'[k] = row[k]
          \/ row[k].status = "awaiting_user" /\ row'[k] = [row[k] EXCEPT !.status = "expired"]
          \/ /\ row[k].status = "awaiting_user" /\ row[k].expiresAt > clock
             /\ row'[k] = [row[k] EXCEPT !.status = "retry", !.nextRetryAt = clock]
      <4>1. CASE row[k].status # "awaiting_user" \/ row[k].expiresAt = Never
        BY <1>2, <4>1 DEF Inbound
      <4>2. CASE row[k].status = "awaiting_user" /\ row[k].expiresAt # Never
        <5>1. row[k].expiresAt \in Nat /\ (row[k].expiresAt <= clock \/ row[k].expiresAt > clock)
          BY <1>0, <3>1, <4>2
        <5> QED BY <1>2, <4>2, <5>1 DEF Inbound
      <4> QED BY <4>1, <4>2
    <3> QED BY <3>1, <3>2 DEF Row
  <2>3. ASSUME NEW k \in Summaries, Followed(k)' PROVE ToldFor(k)'
    <3>1. ToldFor(k) /\ Followed(k) /\ k \in Jobs
      BY <2>1, <2>3, SummariesAreJobs DEF Told, Followed
    <3>2. fallback[k] = "resolved" => row'[k].status = "sent"
      BY <2>2, <3>1 DEF ToldFor
    <3>3. ToldFate(k) => ToldFate(k)'
      BY <2>1, <2>2, <3>1 DEF ToldFate, Claimable
    <3>4. ASSUME NEW d \in Drains, SyncedBy(d, k) PROVE SyncedBy(d, k)'
      <4>1. ReportFits(k, drain[d].report)'
        BY <2>1, <2>2, <3>1, <3>4 DEF SyncedBy, ReportFits
      <4> QED BY <2>1, <3>4, <4>1 DEF SyncedBy, Syncs, Calls
    <3> QED BY <2>1, <3>1, <3>2, <3>3, <3>4 DEF ToldFor, Syncs
  <2> QED BY <2>3 DEF Told, ToldFor
<1>3. CASE ToggleBusy
  BY <1>3 DEF ToggleBusy, Told, ToldFor, Followed, ToldFate, SyncedBy, ReportFits, Syncs, Calls
<1>4. CASE Tick
  <2>1. /\ UNCHANGED <<row, drain, fault, delivery, fallback>> /\ FaultsGrow
        /\ \A d \in Drains : drain[d].pc # "syncing"
    BY <1>4 DEF Tick, FaultsGrow
  <2>2. \A k \in Summaries : ToldFor(k)'
    BY <2>1, KeepsTold DEF Syncs, Calls
  <2> QED BY <2>2 DEF Told
<1>5. CASE Crash
  <2>1. /\ \A d \in Drains : drain'[d].pc = "idle"
        /\ UNCHANGED <<clock, row, delivery, fallback>> /\ FaultsGrow
        /\ \A k \in Jobs : (\E d \in Drains : Syncs(d, k)) => ~Followed(k)'
    <3>1. /\ \A d \in Drains : drain'[d].pc = "idle"
          /\ UNCHANGED <<clock, row, delivery, fallback>>
      BY <1>5 DEF Crash, IdleDrain
    <3>2. \A k \in Jobs :
            fault'[k] = fault[k] \cup {LossOf(d) : d \in {e \in Drains : Handles(e, k)}}
      BY <1>5 DEF Crash
    <3>3. ASSUME NEW k \in Jobs, NEW d \in Drains, Syncs(d, k) PROVE ~Followed(k)'
      <4>1. Handles(d, k) /\ LossOf(d) = "sync"
        BY <3>3 DEF Syncs, Handles, Working, LossOf
      <4> QED BY <3>2, <4>1 DEF Followed
    <3> QED BY <3>1, <3>2, <3>3 DEF FaultsGrow
  <2>2. ASSUME NEW k \in Summaries PROVE ToldFor(k)'
    <3>1. CASE \E d \in Drains : Syncs(d, k)
      <4>1. ~Followed(k)'
        BY <2>1, <3>1, SummariesAreJobs
      <4> QED BY <4>1 DEF ToldFor
    <3>2. CASE \A d \in Drains : ~Syncs(d, k)
      BY <2>1, <3>2, KeepsTold DEF Syncs, Calls
    <3> QED BY <3>1, <3>2
  <2> QED BY <2>2 DEF Told
<1> QED BY <1>1, <1>2, <1>3, <1>4, <1>5

LEMMA NextTold == TypeOK /\ Leased /\ Told /\ [Next]_vars => Told'
<1> SUFFICES ASSUME TypeOK, Leased, Told, [Next]_vars PROVE Told'
  OBVIOUS
<1>1. CASE UNCHANGED vars
  BY <1>1 DEF vars, Told, ToldFor, Followed, ToldFate, SyncedBy, ReportFits, Syncs, Calls
<1>2. CASE (\E j \in Jobs : Enqueue(j)) \/ Inbound \/ ToggleBusy \/ Tick \/ Crash
  BY <1>2, OutsideTold
<1>3. ASSUME NEW d \in Drains, StartDrain(d) \/ DrainStep(d) \/ DrainAborts(d)
      PROVE  Told'
  <2>1. CASE StartDrain(d) \/ BeginSend(d) \/ DeliverChunk(d)
    BY <2>1, AloneTold
  <2>2. ASSUME NEW s \in drain[d].due, ClaimDuePushJob(d, s) PROVE Told'
    BY <2>2, ClaimTold
  <2>3. CASE \/ ExpireClaimed(d) \/ DeferClaimed(d) \/ SendSucceeds(d)
             \/ SendWaitsForUser(d) \/ SendThrows(d)
             \/ \E permanent \in BOOLEAN : SendFails(d, permanent)
    BY <2>3, ReleaseFacts, ReleaseTold
  <2>4. CASE EndDrain(d) \/ DrainAborts(d) \/ \E s \in drain[d].due : SkipUnclaimed(d, s)
    BY <2>4, DropFacts, DropTold
  <2>5. CASE SyncDelivery(d) \/ SyncFails(d)
    BY <2>5, SyncTold
  <2> QED BY <1>3, <2>1, <2>2, <2>3, <2>4, <2>5 DEF DrainStep
<1> QED BY <1>1, <1>2, <1>3 DEF Next

\* syncAutomationDelivery, for any number of drains: once nobody works on a
\* summary, its run and its fallback item tell its fate unless a write-back was
\* lost or a call outlived its lease, whatever else failed or crashed, and also when the user resumed it between the call's answer and the write-back.
THEOREM RunIsTold == Spec => []RunTellsTheJobsFate
<1>1. Init => TypeOK /\ Leased /\ Told
  BY InitTypeOK, InitLeased, InitTold
<1>2. TypeOK /\ Leased /\ Told /\ [Next]_vars => (TypeOK /\ Leased /\ Told)'
  BY NextTypeOK, NextLeased, NextTold
<1>3. Told => RunTellsTheJobsFate
  BY DEF Told, ToldFor, ToldFate, RunTellsTheJobsFate, Handles, Syncs, Working
<1> QED BY <1>1, <1>2, <1>3, PTL DEF Spec

=============================================================================
