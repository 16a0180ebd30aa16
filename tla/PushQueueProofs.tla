--------------------------- MODULE PushQueueProofs ---------------------------
(***************************************************************************)
(* Type correctness of PushQueue, that a message recorded as sent was      *)
(* delivered, and that no job is put off for longer than a lease or delay  *)
(* of the queue, for every set of jobs and drains and every lease, delay   *)
(* and bound.                                                              *)
(***************************************************************************)
EXTENDS PushQueue, TLAPS

-----------------------------------------------------------------------------
(* Lemmas about the operators the actions share. *)

\* A retry delay is a positive number of units.
LEMMA DelayType == ASSUME NEW n \in Nat \ {0} PROVE DelayAfter(n) \in Nat \ {0}
BY ConstantsAssumption DEF ConstantsAssumption, DelayAfter

\* What a drain holds while it works on a job.
LEMMA WorkingType ==
  ASSUME TypeOK, NEW d \in Drains, drain[d].pc \in Working
  PROVE  /\ drain[d] \in Drain
         /\ drain[d].cur.job \in Jobs
         /\ drain[d].cur \in Snapshot
         /\ row[drain[d].cur.job] \in Row
         /\ AttemptsOf(d) \in Nat \ {0}
<1>1. drain[d] \in Drain /\ drain[d].cur.job \in Jobs
  BY DEF TypeOK
<1>2. drain[d].cur \in Snapshot
  BY <1>1 DEF Drain
<1>3. AttemptsOf(d) \in Nat \ {0}
  BY <1>2 DEF AttemptsOf, Snapshot
<1> QED BY <1>1, <1>2, <1>3 DEF TypeOK

\* The idle drain is well typed.
LEMMA IdleDrainType == IdleDrain \in Drain /\ IdleDrain.pc = "idle" /\ IdleDrain.due = {}
BY ConstantsAssumption DEF ConstantsAssumption, IdleDrain, Drain, NoSnapshot, Snapshot

\* What the type invariant says of drains.
DrainTypes(dr) ==
    /\ dr \in [Drains -> Drain]
    /\ \A d \in Drains : dr[d].pc \in Working => dr[d].cur.job \in Jobs
    /\ \A d \in Drains : \A s \in dr[d].due : s.job \in Jobs

\* A drain replaced by a well typed one leaves the drains well typed.
LEMMA ReplaceDrain ==
  ASSUME TypeOK, NEW d \in Drains, NEW new \in Drain,
         new.pc \in Working => new.cur.job \in Jobs,
         \A s \in new.due : s.job \in Jobs,
         drain' = [drain EXCEPT ![d] = new]
  PROVE  DrainTypes(drain')
BY DEF TypeOK, DrainTypes

\* Updating the fields of a well typed drain.
LEMMA ContinueType ==
  ASSUME TypeOK, NEW d \in Drains, Continue(d)
  PROVE  DrainTypes(drain')
<1> DEFINE new == [drain[d] EXCEPT !.pc = "next", !.cur = NoSnapshot, !.index = 0,
                                   !.began = 0, !.report = "pending"]
<1>0. drain[d] \in Drain /\ NoSnapshot \in Snapshot /\ 0 \in 0..Chunks
  BY ConstantsAssumption DEF ConstantsAssumption, TypeOK, NoSnapshot, Snapshot
<1>1. new \in Drain /\ new.pc \notin Working /\ new.due = drain[d].due
  BY <1>0 DEF Drain, Working
<1>2. drain' = [drain EXCEPT ![d] = new]
  BY DEF Continue
<1>3. \A s \in new.due : s.job \in Jobs
  BY <1>1 DEF TypeOK
<1> HIDE DEF new
<1> QED BY <1>1, <1>2, <1>3, ReplaceDrain

LEMMA ContinueWithSyncType ==
  ASSUME TypeOK, NEW d \in Drains, drain[d].pc \in Working,
         NEW report \in {"pending", "sent", "failed", "parked"},
         ContinueWithSync(d, report)
  PROVE  DrainTypes(drain')
<1>1. CASE drain[d].cur.job \notin Summaries
  BY <1>1, ContinueType DEF ContinueWithSync
<1>2. CASE drain[d].cur.job \in Summaries
  <2> DEFINE new == [drain[d] EXCEPT !.pc = "syncing", !.report = report]
  <2>0. drain[d] \in Drain
    BY DEF TypeOK
  <2>1. new \in Drain /\ new.due = drain[d].due /\ new.cur = drain[d].cur
    BY <2>0 DEF Drain, Working
  <2>2. drain' = [drain EXCEPT ![d] = new]
    BY <1>2 DEF ContinueWithSync
  <2>3. new.cur.job \in Jobs /\ \A s \in new.due : s.job \in Jobs
    BY <2>1, WorkingType DEF TypeOK
  <2> HIDE DEF new
  <2> QED BY <2>1, <2>2, <2>3, ReplaceDrain
<1> QED BY <1>1, <1>2

LEMMA BlameType ==
  ASSUME TypeOK, NEW j \in Jobs, NEW f \in Faults, Blame(j, f)
  PROVE  fault' \in [Jobs -> SUBSET Faults]
BY DEF TypeOK, Blame

LEMMA ReachType ==
  ASSUME TypeOK, NEW j \in Jobs, NEW c \in 1..Chunks, Reach(j, c)
  PROVE  reached' \in [Jobs -> [1..Chunks -> 0..2]]
<1> DEFINE n == IF reached[j][c] = 2 THEN 2 ELSE reached[j][c] + 1
<1>1. reached \in [Jobs -> [1..Chunks -> 0..2]]
  BY DEF TypeOK
<1>2. reached[j] \in [1..Chunks -> 0..2]
  BY <1>1
<1>5. reached[j][c] \in 0..2
  BY <1>2
<1>6. n \in 0..2
  BY <1>5
<1>3. [reached[j] EXCEPT ![c] = n] \in [1..Chunks -> 0..2]
  BY <1>2, <1>6
<1>4. reached' = [reached EXCEPT ![j] = [reached[j] EXCEPT ![c] = n]]
  BY <1>1 DEF Reach
<1> QED BY <1>1, <1>3, <1>4

\* markFailed leaves a well typed row.
LEMMA FailedRowType ==
  ASSUME TypeOK, NEW d \in Drains, drain[d].pc \in Working,
         NEW permanent \in BOOLEAN, NEW n \in 0..Chunks
  PROVE  FailedRow(d, permanent, n) \in Row
<1> DEFINE r == row[drain[d].cur.job]
           next == clock + DelayAfter(AttemptsOf(d))
<1>1. r \in Row /\ AttemptsOf(d) \in Nat \ {0} /\ next \in Nat
  BY WorkingType, DelayType DEF TypeOK
<1> HIDE DEF next
<1>2. \A e, x \in BOOLEAN : (e => r.expiresAt \in Nat) =>
        [r EXCEPT !.status = IF e THEN "expired" ELSE IF x THEN "dead" ELSE "retry",
                  !.attempts = AttemptsOf(d),
                  !.nextRetryAt = IF e THEN r.expiresAt ELSE next,
                  !.sentChunks = n] \in Row
  BY <1>1 DEF Row, Statuses
<1>3. r.expiresAt # Never => r.expiresAt \in Nat
  BY <1>1 DEF Row
<1> QED BY <1>2, <1>3 DEF FailedRow, next

-----------------------------------------------------------------------------
(* Type correctness. *)

LEMMA InitTypeOK == Init => TypeOK
<1> SUFFICES ASSUME Init PROVE TypeOK
  OBVIOUS
<1>1. AbsentRow \in Row /\ \A c \in 1..Chunks : 0 \in 0..2
  BY ConstantsAssumption DEF ConstantsAssumption, AbsentRow, Row, Statuses
<1> QED BY <1>1, IdleDrainType DEF Init, TypeOK, Working

LEMMA EnqueueType ==
  ASSUME TypeOK, NEW j \in Jobs, Enqueue(j) PROVE TypeOK'
<1> DEFINE until == IF Window[j] # Never THEN clock + Window[j]
                    ELSE IF Source[j] = "automation" THEN clock + AutomationValidity
                    ELSE Never
           new == [status |-> "pending", attempts |-> 0, nextRetryAt |-> clock,
                   sentChunks |-> 0, expiresAt |-> until]
<1>0. Window[j] \in Nat \cup {Never} /\ clock \in Nat
  BY ConstantsAssumption DEF ConstantsAssumption, TypeOK
<1>3. until \in Nat \cup {Never} /\ 0 \in 0..Chunks
  BY <1>0, ConstantsAssumption DEF ConstantsAssumption
<1> HIDE DEF until
<1>4. new \in Row
  BY <1>0, <1>3 DEF Row, Statuses
<1>5. row' = [row EXCEPT ![j] = new]
  BY DEF Enqueue, until
<1>1. row' \in [Jobs -> Row]
  BY <1>4, <1>5 DEF TypeOK
<1>2. delivery' \in [Jobs -> {"not_requested", "pending", "sent", "failed"}]
  BY DEF Enqueue, TypeOK
<1> QED BY <1>1, <1>2 DEF Enqueue, TypeOK

LEMMA InboundType ==
  ASSUME TypeOK, Inbound PROVE TypeOK'
<1>1. \A r \in Row : /\ [r EXCEPT !.status = "expired"] \in Row
                     /\ [r EXCEPT !.status = "retry", !.nextRetryAt = clock] \in Row
  BY DEF Row, Statuses, TypeOK
<1>2. row' \in [Jobs -> Row]
  BY <1>1 DEF Inbound, TypeOK
<1> QED BY <1>2 DEF Inbound, TypeOK

LEMMA StartDrainType ==
  ASSUME TypeOK, NEW d \in Drains, StartDrain(d) PROVE TypeOK'
<1>1. PICK batch \in SUBSET Jobs :
        drain' = [drain EXCEPT ![d] =
           [IdleDrain EXCEPT !.pc = "next", !.now = clock,
                             !.due = {SnapshotOf(j) : j \in batch}]]
  BY DEF StartDrain
<1> DEFINE taken == {SnapshotOf(j) : j \in batch}
           new == [IdleDrain EXCEPT !.pc = "next", !.now = clock, !.due = taken]
<1>2. \A j \in batch : SnapshotOf(j) \in Snapshot /\ SnapshotOf(j).job \in Jobs
  BY DEF TypeOK, SnapshotOf, Snapshot, Row
<1>3. taken \in SUBSET Snapshot /\ \A s \in taken : s.job \in Jobs
  BY <1>2
<1> HIDE DEF taken
<1>4. new \in Drain /\ new.pc \notin Working /\ new.due = taken
  BY <1>3, IdleDrainType DEF TypeOK, Drain, Working
<1>5. drain' = [drain EXCEPT ![d] = new]
  BY <1>1 DEF taken
<1> HIDE DEF new
<1>6. DrainTypes(drain')
  BY <1>3, <1>4, <1>5, ReplaceDrain
<1> QED BY <1>6 DEF StartDrain, TypeOK, DrainTypes

LEMMA ClaimType ==
  ASSUME TypeOK, NEW d \in Drains, NEW s \in drain[d].due, ClaimDuePushJob(d, s)
  PROVE  TypeOK'
<1> DEFINE new == [drain[d] EXCEPT !.pc = "claimed", !.due = drain[d].due \ {s}, !.cur = s]
<1>1. drain[d] \in Drain /\ s \in Snapshot /\ s.job \in Jobs
  BY DEF TypeOK, Drain
<1>2. new \in Drain /\ new.cur = s /\ new.due \subseteq drain[d].due
  BY <1>1 DEF Drain, Working
<1>3. drain' = [drain EXCEPT ![d] = new]
  BY DEF ClaimDuePushJob
<1>4. new.cur.job \in Jobs /\ \A t \in new.due : t.job \in Jobs
  BY <1>1, <1>2 DEF TypeOK
<1> HIDE DEF new
<1>5. DrainTypes(drain')
  BY <1>2, <1>3, <1>4, ReplaceDrain
<1>6. row' \in [Jobs -> Row]
  <2>1. LeaseEnd(d) \in Nat
    BY <1>1, ConstantsAssumption DEF ConstantsAssumption, LeaseEnd, Drain
  <2>3. row[s.job] \in Row
    BY <1>1 DEF TypeOK
  <2>2. [row[s.job] EXCEPT !.status = "processing", !.nextRetryAt = LeaseEnd(d)] \in Row
    BY <2>3, <2>1 DEF Row, Statuses
  <2> QED BY <1>1, <2>2 DEF ClaimDuePushJob, TypeOK
<1>7. fault' \in [Jobs -> SUBSET Faults]
  BY <1>1, BlameType DEF ClaimDuePushJob, TypeOK, Faults
<1> QED BY <1>5, <1>6, <1>7 DEF ClaimDuePushJob, TypeOK, DrainTypes

LEMMA SkipType ==
  ASSUME TypeOK, NEW d \in Drains, NEW s \in drain[d].due, SkipUnclaimed(d, s)
  PROVE  TypeOK'
<1> DEFINE new == [drain[d] EXCEPT !.due = drain[d].due \ {s}]
<1>1. drain[d] \in Drain /\ drain[d].pc = "next"
  BY DEF TypeOK, SkipUnclaimed, IsNext
<1>2. new \in Drain /\ new.pc \notin Working /\ new.due \subseteq drain[d].due
  BY <1>1 DEF Drain, Working
<1>3. drain' = [drain EXCEPT ![d] = new]
  BY DEF SkipUnclaimed
<1>4. \A t \in new.due : t.job \in Jobs
  BY <1>2 DEF TypeOK
<1> HIDE DEF new
<1>5. DrainTypes(drain')
  BY <1>2, <1>3, <1>4, ReplaceDrain
<1> QED BY <1>5 DEF SkipUnclaimed, TypeOK, DrainTypes

LEMMA EndDrainType ==
  ASSUME TypeOK, NEW d \in Drains, EndDrain(d) PROVE TypeOK'
<1>1. DrainTypes(drain')
  BY IdleDrainType, ReplaceDrain DEF EndDrain, Working
<1> QED BY <1>1 DEF EndDrain, TypeOK, DrainTypes

LEMMA ExpireClaimedType ==
  ASSUME TypeOK, NEW d \in Drains, ExpireClaimed(d) PROVE TypeOK'
<1> DEFINE r == row[drain[d].cur.job]
<1>1. drain[d].pc \in Working
  BY DEF ExpireClaimed, Working
<1>2. drain[d] \in Drain /\ r \in Row /\ drain[d].cur.job \in Jobs
  BY <1>1, WorkingType
<1>3. [r EXCEPT !.status = "expired", !.nextRetryAt = drain[d].now] \in Row
  BY <1>2 DEF Drain, Row, Statuses
<1>4. row' \in [Jobs -> Row]
  BY <1>2, <1>3 DEF ExpireClaimed, TypeOK
<1>5. DrainTypes(drain')
  BY <1>1, ContinueWithSyncType DEF ExpireClaimed
<1> QED BY <1>4, <1>5 DEF ExpireClaimed, TypeOK, DrainTypes

LEMMA DeferClaimedType ==
  ASSUME TypeOK, NEW d \in Drains, DeferClaimed(d) PROVE TypeOK'
<1> DEFINE r == row[drain[d].cur.job]
<1>1. drain[d].pc \in Working
  BY DEF DeferClaimed, Working
<1>2. r \in Row /\ drain[d].cur.job \in Jobs
  BY <1>1, WorkingType
<1>3. clock + DeferDelay \in Nat
  BY ConstantsAssumption DEF ConstantsAssumption, TypeOK
<1>4. [r EXCEPT !.status = "retry", !.nextRetryAt = clock + DeferDelay] \in Row
  BY <1>2, <1>3 DEF Row, Statuses
<1>5. row' \in [Jobs -> Row]
  BY <1>2, <1>4 DEF DeferClaimed, TypeOK
<1>6. DrainTypes(drain')
  BY ContinueType DEF DeferClaimed
<1> QED BY <1>5, <1>6 DEF DeferClaimed, TypeOK, DrainTypes

LEMMA BeginSendType ==
  ASSUME TypeOK, NEW d \in Drains, BeginSend(d) PROVE TypeOK'
<1> DEFINE new == [drain[d] EXCEPT !.pc = "sending", !.index = drain[d].cur.sentChunks,
                                   !.began = clock]
<1>1. drain[d].pc \in Working
  BY DEF BeginSend, Working
<1>2. drain[d] \in Drain /\ drain[d].cur \in Snapshot /\ drain[d].cur.job \in Jobs
  BY <1>1, WorkingType
<1>3. drain[d].cur.sentChunks \in 0..Chunks /\ clock \in Nat
  BY <1>2 DEF Snapshot, TypeOK
<1>4. new \in Drain /\ new.cur = drain[d].cur /\ new.due = drain[d].due
  BY <1>2, <1>3 DEF Drain, Working
<1>5. drain' = [drain EXCEPT ![d] = new]
  BY DEF BeginSend
<1>6. new.cur.job \in Jobs /\ \A s \in new.due : s.job \in Jobs
  BY <1>2, <1>4 DEF TypeOK
<1> HIDE DEF new
<1>7. DrainTypes(drain')
  BY <1>4, <1>5, <1>6, ReplaceDrain
<1> QED BY <1>7 DEF BeginSend, TypeOK, DrainTypes

LEMMA DeliverChunkType ==
  ASSUME TypeOK, NEW d \in Drains, DeliverChunk(d) PROVE TypeOK'
<1> DEFINE new == [drain[d] EXCEPT !.index = drain[d].index + 1]
<1>1. drain[d].pc \in Working
  BY DEF DeliverChunk, Working
<1>2. drain[d] \in Drain /\ drain[d].cur.job \in Jobs
  BY <1>1, WorkingType
<1>3. drain[d].index + 1 \in 1..Chunks
  BY <1>2, ConstantsAssumption DEF ConstantsAssumption, DeliverChunk, Drain
<1>4. new \in Drain /\ new.cur = drain[d].cur /\ new.due = drain[d].due
  BY <1>2, <1>3 DEF Drain
<1>5. drain' = [drain EXCEPT ![d] = new]
  BY DEF DeliverChunk
<1>6. new.cur.job \in Jobs /\ \A s \in new.due : s.job \in Jobs
  BY <1>2, <1>4 DEF TypeOK
<1> HIDE DEF new
<1>7. DrainTypes(drain')
  BY <1>4, <1>5, <1>6, ReplaceDrain
<1>8. reached' \in [Jobs -> [1..Chunks -> 0..2]]
  BY <1>2, <1>3, ReachType DEF DeliverChunk
<1> QED BY <1>7, <1>8 DEF DeliverChunk, TypeOK, DrainTypes

LEMMA SendSucceedsType ==
  ASSUME TypeOK, NEW d \in Drains, SendSucceeds(d) PROVE TypeOK'
<1> DEFINE r == row[drain[d].cur.job]
<1>1. drain[d].pc \in Working
  BY DEF SendSucceeds, CallReturns, Working
<1>2. r \in Row /\ drain[d].cur.job \in Jobs /\ AttemptsOf(d) \in Nat
  BY <1>1, WorkingType
<1>3. [r EXCEPT !.status = "sent", !.attempts = AttemptsOf(d)] \in Row
  BY <1>2 DEF Row, Statuses
<1>4. row' \in [Jobs -> Row]
  BY <1>2, <1>3 DEF SendSucceeds, TypeOK
<1>5. DrainTypes(drain')
  BY <1>1, ContinueWithSyncType DEF SendSucceeds
<1> QED BY <1>4, <1>5 DEF SendSucceeds, TypeOK, DrainTypes

LEMMA SendWaitsType ==
  ASSUME TypeOK, NEW d \in Drains, SendWaitsForUser(d) PROVE TypeOK'
<1> DEFINE r == row[drain[d].cur.job]
<1>1. drain[d].pc \in Working
  BY DEF SendWaitsForUser, CallReturns, Working
<1>2. r \in Row /\ drain[d].cur.job \in Jobs /\ AttemptsOf(d) \in Nat
      /\ drain[d].index \in 0..Chunks
  BY <1>1, WorkingType DEF Drain
<1>3. [r EXCEPT !.status = "awaiting_user", !.attempts = AttemptsOf(d),
                !.sentChunks = drain[d].index] \in Row
  BY <1>2 DEF Row, Statuses
<1>4. row' \in [Jobs -> Row]
  BY <1>2, <1>3 DEF SendWaitsForUser, TypeOK
<1>5. DrainTypes(drain')
  BY <1>1, ContinueWithSyncType DEF SendWaitsForUser
<1> QED BY <1>4, <1>5 DEF SendWaitsForUser, TypeOK, DrainTypes

\* markFailed and the continuation of the loop, for both of its callers.
LEMMA MarkFailedType ==
  ASSUME TypeOK, NEW d \in Drains, drain[d].pc \in Working,
         NEW permanent \in BOOLEAN, NEW n \in 0..Chunks, MarkFailed(d, permanent, n)
  PROVE  row' \in [Jobs -> Row] /\ DrainTypes(drain')
<1>1. FailedRow(d, permanent, n) \in Row
  BY FailedRowType
<1>2. row' \in [Jobs -> Row]
  BY <1>1, WorkingType DEF MarkFailed, TypeOK
<1>3. \E report \in {"pending", "failed"} : ContinueWithSync(d, report)
  BY DEF MarkFailed
<1>4. DrainTypes(drain')
  BY <1>3, ContinueWithSyncType
<1> QED BY <1>2, <1>4

LEMMA SendFailsType ==
  ASSUME TypeOK, NEW d \in Drains, NEW permanent \in BOOLEAN, SendFails(d, permanent)
  PROVE  TypeOK'
<1>1. drain[d].pc \in Working
  BY DEF SendFails, CallReturns, Working
<1>2. drain[d].cur.job \in Jobs /\ drain[d].index \in 0..Chunks
  BY <1>1, WorkingType DEF Drain
<1>3. drain[d].index + 1 \in 1..Chunks
  BY <1>2, ConstantsAssumption DEF ConstantsAssumption, SendFails
<1>4. row' \in [Jobs -> Row] /\ DrainTypes(drain')
  BY <1>1, <1>2, MarkFailedType DEF SendFails
<1>5. reached' \in [Jobs -> [1..Chunks -> 0..2]] /\ fault' \in [Jobs -> SUBSET Faults]
  <2>1. CASE UNCHANGED <<reached, fault>>
    BY <2>1 DEF TypeOK
  <2>2. CASE /\ Reach(drain[d].cur.job, drain[d].index + 1)
             /\ Blame(drain[d].cur.job, "lost_ack")
    BY <2>2, <1>2, <1>3, ReachType, BlameType DEF Faults
  <2> QED BY <2>1, <2>2 DEF SendFails, FailingChunk
<1> QED BY <1>4, <1>5 DEF SendFails, TypeOK, DrainTypes

LEMMA SendThrowsType ==
  ASSUME TypeOK, NEW d \in Drains, SendThrows(d) PROVE TypeOK'
<1>1. drain[d].pc \in Working /\ 0 \in 0..Chunks
  BY ConstantsAssumption DEF ConstantsAssumption, SendThrows, CallReturns, Working
<1>2. row' \in [Jobs -> Row] /\ DrainTypes(drain')
  BY <1>1, MarkFailedType DEF SendThrows
<1>3. fault' \in [Jobs -> SUBSET Faults]
  BY <1>1, WorkingType, BlameType DEF SendThrows, Faults
<1> QED BY <1>2, <1>3 DEF SendThrows, TypeOK, DrainTypes

LEMMA SyncDeliveryType ==
  ASSUME TypeOK, NEW d \in Drains, SyncDelivery(d) PROVE TypeOK'
<1> DEFINE j == drain[d].cur.job
           report == drain[d].report
<1>1. drain[d].pc \in Working
  BY DEF SyncDelivery, Working
<1>2. drain[d] \in Drain /\ j \in Jobs
  BY <1>1, WorkingType
<1>3. drain[d].report \in {"pending", "sent", "failed", "parked"}
  BY <1>2 DEF Drain
<1>4. delivery' \in [Jobs -> {"not_requested", "pending", "sent", "failed"}]
  BY <1>2, <1>3 DEF SyncDelivery, TypeOK
<1>5. fallback' \in [Jobs -> {"none", "open", "resolved"}]
  BY <1>2 DEF SyncDelivery, TypeOK
<1>6. DrainTypes(drain')
  BY ContinueType DEF SyncDelivery
<1> QED BY <1>4, <1>5, <1>6 DEF SyncDelivery, TypeOK, DrainTypes

LEMMA DropDrainType ==
  ASSUME TypeOK, NEW d \in Drains,
         SyncFails(d) \/ DrainAborts(d)
  PROVE  TypeOK'
<1>1. CASE SyncFails(d)
  <2>1. drain[d].cur.job \in Jobs
    BY <1>1, WorkingType DEF SyncFails, Working
  <2>2. fault' \in [Jobs -> SUBSET Faults] /\ DrainTypes(drain')
    BY <1>1, <2>1, BlameType, ContinueType DEF SyncFails, Faults
  <2> QED BY <1>1, <2>2 DEF SyncFails, TypeOK, DrainTypes
<1>2. CASE DrainAborts(d)
  <2>1. drain[d].cur.job \in Jobs
    BY <1>2, WorkingType DEF DrainAborts
  <2>2. fault' \in [Jobs -> SUBSET Faults]
    BY <1>2, <2>1, BlameType DEF DrainAborts, Faults, LossOf
  <2>3. DrainTypes(drain')
    BY <1>2, IdleDrainType, ReplaceDrain DEF DrainAborts, Working
  <2> QED BY <1>2, <2>2, <2>3 DEF DrainAborts, TypeOK, DrainTypes
<1> QED BY <1>1, <1>2

LEMMA CrashType ==
  ASSUME TypeOK, Crash PROVE TypeOK'
<1>1. DrainTypes(drain')
  BY IdleDrainType DEF Crash, DrainTypes, Working
<1>2. fault' \in [Jobs -> SUBSET Faults]
  <2>1. \A d \in Drains : LossOf(d) \in Faults
    BY DEF LossOf, Faults
  <2>2. \A j \in Jobs :
          fault[j] \cup {LossOf(d) : d \in {e \in Drains : Handles(e, j)}} \in SUBSET Faults
    BY <2>1 DEF TypeOK
  <2> QED BY <2>2 DEF Crash
<1> QED BY <1>1, <1>2 DEF Crash, TypeOK, DrainTypes

LEMMA NextTypeOK == TypeOK /\ [Next]_vars => TypeOK'
<1> SUFFICES ASSUME TypeOK, [Next]_vars PROVE TypeOK'
  OBVIOUS
<1>1. CASE UNCHANGED vars
  BY <1>1 DEF TypeOK, vars
<1>2. CASE \E j \in Jobs : Enqueue(j)
  BY <1>2, EnqueueType
<1>3. CASE Inbound
  BY <1>3, InboundType
<1>4. CASE ToggleBusy
  BY <1>4 DEF ToggleBusy, TypeOK
<1>7. CASE Tick
  BY <1>7 DEF Tick, TypeOK
<1>5. CASE Crash
  BY <1>5, CrashType
<1>6. ASSUME NEW d \in Drains, StartDrain(d) \/ DrainStep(d) \/ DrainAborts(d)
      PROVE  TypeOK'
  <2>1. CASE StartDrain(d)
    BY <2>1, StartDrainType
  <2>2. CASE \E s \in drain[d].due : ClaimDuePushJob(d, s) \/ SkipUnclaimed(d, s)
    BY <2>2, ClaimType, SkipType
  <2>3. CASE EndDrain(d) \/ ExpireClaimed(d) \/ DeferClaimed(d) \/ BeginSend(d)
    BY <2>3, EndDrainType, ExpireClaimedType, DeferClaimedType, BeginSendType
  <2>4. CASE DeliverChunk(d) \/ SendSucceeds(d) \/ SendWaitsForUser(d)
    BY <2>4, DeliverChunkType, SendSucceedsType, SendWaitsType
  <2>5. CASE (\E permanent \in BOOLEAN : SendFails(d, permanent)) \/ SendThrows(d)
    BY <2>5, SendFailsType, SendThrowsType
  <2>6. CASE SyncDelivery(d) \/ SyncFails(d) \/ DrainAborts(d)
    BY <2>6, SyncDeliveryType, DropDrainType
  <2> QED BY <1>6, <2>1, <2>2, <2>3, <2>4, <2>5, <2>6 DEF DrainStep
<1> QED BY <1>1, <1>2, <1>3, <1>4, <1>5, <1>6, <1>7 DEF Next

\* Every row, drain and outside fact keeps its type: no lease, batch or fault
\* leads the loop of processDuePushJobs to a malformed row.
THEOREM TypeCorrect == Spec => []TypeOK
BY InitTypeOK, NextTypeOK, PTL DEF Spec

-----------------------------------------------------------------------------
(* What is recorded as sent was delivered.                                 *)
(*                                                                         *)
(* A row and a drain are sound when the progress they carry is progress    *)
(* that was made.  Deliveries only accumulate, so what is sound stays so;  *)
(* each action writes progress it took from something sound.               *)

RowSound(j, r) == HasReached(j, r.sentChunks) /\ (r.status = "sent" => HasReached(j, Chunks))

DrainSound(x) ==
    /\ \A s \in x.due : HasReached(s.job, s.sentChunks)
    /\ x.pc \in Working => HasReached(x.cur.job, x.cur.sentChunks)
    /\ x.pc = "sending" => HasReached(x.cur.job, x.index)

LEMMA SoundIsProgress ==
  ProgressIsDelivered <=> /\ \A j \in Jobs : RowSound(j, row[j])
                          /\ \A d \in Drains : DrainSound(drain[d])
BY DEF ProgressIsDelivered, SentMeansDelivered, RowSound, DrainSound

\* A chunk that arrives takes nothing back.
LEMMA ReachKeeps ==
  ASSUME TypeOK, NEW j \in Jobs, NEW c \in 1..Chunks, Reach(j, c)
  PROVE  /\ reached'[j][c] > 0
         /\ \A k \in Jobs, b \in 1..Chunks : reached[k][b] > 0 => reached'[k][b] > 0
<1>1. reached \in [Jobs -> [1..Chunks -> 0..2]]
  BY DEF TypeOK
<1> DEFINE n == IF reached[j][c] = 2 THEN 2 ELSE reached[j][c] + 1
<1>2. reached[j] \in [1..Chunks -> 0..2]
  BY <1>1
<1>3. reached[j][c] \in 0..2
  BY <1>2
<1>4. n > 0
  BY <1>3
<1>5. reached' = [reached EXCEPT ![j] = [reached[j] EXCEPT ![c] = n]]
  BY <1>1 DEF Reach
<1> HIDE DEF n
<1>6. reached'[j] = [reached[j] EXCEPT ![c] = n]
  BY <1>1, <1>5
<1>7. reached'[j][c] = n
  BY <1>2, <1>6
<1>8. ASSUME NEW k \in Jobs, NEW b \in 1..Chunks, reached[k][b] > 0
      PROVE  reached'[k][b] > 0
  <2>1. CASE k = j
    BY <2>1, <1>2, <1>4, <1>6, <1>7, <1>8
  <2>2. CASE k # j
    BY <2>2, <1>1, <1>5, <1>8
  <2> QED BY <2>1, <2>2
<1> QED BY <1>4, <1>7, <1>8

\* A step that leaves deliveries alone and writes only sound rows and drains.
LEMMA QuietStep ==
  ASSUME UNCHANGED reached,
         \A j \in Jobs : RowSound(j, row'[j]),
         \A d \in Drains : DrainSound(drain'[d])
  PROVE  ProgressIsDelivered'
BY DEF ProgressIsDelivered, SentMeansDelivered, RowSound, DrainSound, HasReached

\* The same for a step in which chunk c of job j arrives.
LEMMA ArrivalStep ==
  ASSUME TypeOK, TypeOK', NEW j \in Jobs, NEW c \in 1..Chunks, Reach(j, c),
         \A k \in Jobs : RowSound(k, row'[k]),
         \A d \in Drains : DrainSound(drain'[d])
  PROVE  ProgressIsDelivered'
<1>1. \A k \in Jobs, n \in 0..Chunks : HasReached(k, n) => \A b \in 1..n : reached'[k][b] > 0
  BY ReachKeeps, ConstantsAssumption DEF ConstantsAssumption, HasReached
<1>2. \A k \in Jobs : row'[k].sentChunks \in 0..Chunks
  BY DEF TypeOK, Row
<1>3. Chunks \in 0..Chunks
  BY ConstantsAssumption DEF ConstantsAssumption
<1>4. \A k \in Jobs : /\ \A b \in 1..row'[k].sentChunks : reached'[k][b] > 0
                      /\ row'[k].status = "sent" => \A b \in 1..Chunks : reached'[k][b] > 0
  BY <1>1, <1>2, <1>3 DEF RowSound
<1>5. ASSUME NEW d \in Drains
      PROVE  /\ \A s \in drain'[d].due : \A b \in 1..s.sentChunks : reached'[s.job][b] > 0
             /\ drain'[d].pc \in Working =>
                  \A b \in 1..drain'[d].cur.sentChunks : reached'[drain'[d].cur.job][b] > 0
             /\ drain'[d].pc = "sending" =>
                  \A b \in 1..drain'[d].index : reached'[drain'[d].cur.job][b] > 0
  <2>1. drain'[d] \in Drain /\ DrainSound(drain'[d])
    BY DEF TypeOK
  <2>2. \A s \in drain'[d].due : s.job \in Jobs /\ s.sentChunks \in 0..Chunks
    BY <2>1 DEF TypeOK, Drain, Snapshot
  <2>3. drain'[d].cur.sentChunks \in 0..Chunks /\ drain'[d].index \in 0..Chunks
    BY <2>1 DEF Drain, Snapshot
  <2>4. drain'[d].pc \in Working => drain'[d].cur.job \in Jobs
    BY DEF TypeOK
  <2> QED BY <1>1, <2>1, <2>2, <2>3, <2>4 DEF DrainSound, Working
<1> QED BY <1>4, <1>5 DEF ProgressIsDelivered, SentMeansDelivered, HasReached

LEMMA InitProgress == Init => ProgressIsDelivered
BY ConstantsAssumption DEF ConstantsAssumption, Init, ProgressIsDelivered, SentMeansDelivered,
   HasReached, AbsentRow, IdleDrain, Working

\* How the loop goes on leaves a drain sound.
LEMMA ContinueSound ==
  ASSUME TypeOK, ProgressIsDelivered, NEW d \in Drains, Continue(d)
  PROVE  \A e \in Drains : DrainSound(drain'[e])
<1>1. \A e \in Drains : DrainSound(drain[e])
  BY SoundIsProgress
<1>2. drain'[d].due = drain[d].due /\ drain'[d].pc = "next"
  BY DEF Continue, TypeOK, Drain
<1>3. DrainSound(drain'[d])
  BY <1>1, <1>2 DEF DrainSound, Working
<1>4. \A e \in Drains \ {d} : drain'[e] = drain[e]
  BY DEF Continue, TypeOK
<1> QED BY <1>1, <1>3, <1>4

LEMMA ContinueWithSyncSound ==
  ASSUME TypeOK, ProgressIsDelivered, NEW d \in Drains, drain[d].pc \in Working,
         NEW report, ContinueWithSync(d, report)
  PROVE  \A e \in Drains : DrainSound(drain'[e])
<1>1. CASE drain[d].cur.job \notin Summaries
  BY <1>1, ContinueSound DEF ContinueWithSync
<1>2. CASE drain[d].cur.job \in Summaries
  <2>1. \A e \in Drains : DrainSound(drain[e])
    BY SoundIsProgress
  <2>2. drain'[d].due = drain[d].due /\ drain'[d].pc = "syncing"
        /\ drain'[d].cur = drain[d].cur
    BY <1>2 DEF ContinueWithSync, TypeOK, Drain
  <2>3. DrainSound(drain'[d])
    BY <2>1, <2>2 DEF DrainSound, Working
  <2>4. \A e \in Drains \ {d} : drain'[e] = drain[e]
    BY <1>2 DEF ContinueWithSync, TypeOK
  <2> QED BY <2>1, <2>3, <2>4
<1> QED BY <1>1, <1>2

\* One row written, with sound progress.
LEMMA WriteSound ==
  ASSUME TypeOK, ProgressIsDelivered, NEW j \in Jobs, NEW r, RowSound(j, r),
         row' = [row EXCEPT ![j] = r]
  PROVE  \A k \in Jobs : RowSound(k, row'[k])
BY SoundIsProgress DEF TypeOK

LEMMA UnchangedSound ==
  ASSUME ProgressIsDelivered
  PROVE  /\ row' = row => \A j \in Jobs : RowSound(j, row'[j])
         /\ drain' = drain => \A d \in Drains : DrainSound(drain'[d])
BY SoundIsProgress

\* The actions outside the drains' work on a claimed job.
LEMMA OutsideProgress ==
  ASSUME TypeOK, ProgressIsDelivered,
         (\E j \in Jobs : Enqueue(j)) \/ Inbound \/ ToggleBusy \/ Tick \/ Crash
  PROVE  ProgressIsDelivered'
<1>1. ASSUME NEW j \in Jobs, Enqueue(j) PROVE ProgressIsDelivered'
  <2>1. row'[j].sentChunks = 0 /\ row'[j].status = "pending"
        /\ \A k \in Jobs \ {j} : row'[k] = row[k]
    BY <1>1 DEF Enqueue, TypeOK
  <2>2. RowSound(j, row'[j])
    BY <2>1 DEF RowSound, HasReached
  <2>3. \A k \in Jobs : RowSound(k, row'[k])
    BY <2>1, <2>2, SoundIsProgress
  <2> QED BY <1>1, <2>3, UnchangedSound, QuietStep DEF Enqueue
<1>2. CASE Inbound
  <2>1. \A j \in Jobs : row'[j].sentChunks = row[j].sentChunks
                        /\ (row'[j].status = "sent" => row[j].status = "sent")
    BY <1>2 DEF Inbound, TypeOK, Row
  <2>2. \A j \in Jobs : RowSound(j, row'[j])
    BY <2>1, SoundIsProgress DEF RowSound
  <2> QED BY <1>2, <2>2, UnchangedSound, QuietStep DEF Inbound
<1>3. CASE ToggleBusy \/ Tick
  BY <1>3, UnchangedSound, QuietStep DEF ToggleBusy, Tick
<1>4. CASE Crash
  <2>1. \A d \in Drains : DrainSound(drain'[d])
    BY <1>4, IdleDrainType DEF Crash, DrainSound, Working
  <2> QED BY <1>4, <2>1, UnchangedSound, QuietStep DEF Crash
<1> QED BY <1>1, <1>2, <1>3, <1>4

\* A batch is read, its jobs are claimed or skipped, the drain ends.
LEMMA BatchProgress ==
  ASSUME TypeOK, ProgressIsDelivered, NEW d \in Drains,
         \/ StartDrain(d) \/ EndDrain(d) \/ DrainAborts(d)
         \/ \E s \in drain[d].due : ClaimDuePushJob(d, s) \/ SkipUnclaimed(d, s)
  PROVE  ProgressIsDelivered'
<1>0. \A e \in Drains : DrainSound(drain[e])
  BY SoundIsProgress
<1>1. CASE StartDrain(d)
  <2>1. PICK batch \in SUBSET Jobs :
          drain' = [drain EXCEPT ![d] =
             [IdleDrain EXCEPT !.pc = "next", !.now = clock,
                               !.due = {SnapshotOf(j) : j \in batch}]]
    BY <1>1 DEF StartDrain
  <2>2. drain'[d].due = {SnapshotOf(j) : j \in batch} /\ drain'[d].pc = "next"
    BY <2>1 DEF TypeOK, IdleDrain
  <2>3. \A j \in batch : HasReached(SnapshotOf(j).job, SnapshotOf(j).sentChunks)
    BY SoundIsProgress DEF RowSound, SnapshotOf
  <2>4. DrainSound(drain'[d])
    BY <2>2, <2>3 DEF DrainSound, Working
  <2>5. \A e \in Drains \ {d} : drain'[e] = drain[e]
    BY <2>1 DEF TypeOK
  <2> QED BY <1>0, <1>1, <2>4, <2>5, UnchangedSound, QuietStep DEF StartDrain
<1>2. CASE EndDrain(d) \/ DrainAborts(d)
  <2>1. drain' = [drain EXCEPT ![d] = IdleDrain] /\ UNCHANGED <<row, reached>>
    BY <1>2 DEF EndDrain, DrainAborts
  <2>2. DrainSound(IdleDrain)
    BY IdleDrainType DEF DrainSound, Working
  <2>3. \A e \in Drains : DrainSound(drain'[e])
    BY <1>0, <2>1, <2>2 DEF TypeOK
  <2> QED BY <2>1, <2>3, UnchangedSound, QuietStep
<1>3. ASSUME NEW s \in drain[d].due, ClaimDuePushJob(d, s) PROVE ProgressIsDelivered'
  <2>1. drain'[d].due \subseteq drain[d].due /\ drain'[d].cur = s /\ drain'[d].pc = "claimed"
    BY <1>3 DEF ClaimDuePushJob, TypeOK, Drain
  <2>2. DrainSound(drain'[d])
    BY <1>0, <2>1 DEF DrainSound, Working
  <2>3. \A e \in Drains \ {d} : drain'[e] = drain[e]
    BY <1>3 DEF ClaimDuePushJob, TypeOK
  <2>4. s.job \in Jobs /\ row[s.job] \in Row
    BY DEF TypeOK
  <2> DEFINE r == [row[s.job] EXCEPT !.status = "processing", !.nextRetryAt = LeaseEnd(d)]
  <2>5. r.sentChunks = row[s.job].sentChunks /\ r.status = "processing"
    BY <2>4 DEF Row
  <2>6. RowSound(s.job, r)
    BY <2>4, <2>5, SoundIsProgress DEF RowSound
  <2>7. \A j \in Jobs : RowSound(j, row'[j])
    BY <1>3, <2>4, <2>6, WriteSound DEF ClaimDuePushJob
  <2> QED BY <1>0, <1>3, <2>2, <2>3, <2>7, QuietStep DEF ClaimDuePushJob
<1>4. ASSUME NEW s \in drain[d].due, SkipUnclaimed(d, s) PROVE ProgressIsDelivered'
  <2>1. drain'[d].due \subseteq drain[d].due /\ drain'[d].pc = "next"
    BY <1>4 DEF SkipUnclaimed, IsNext, TypeOK, Drain
  <2>2. DrainSound(drain'[d])
    BY <1>0, <2>1 DEF DrainSound, Working
  <2>3. \A e \in Drains \ {d} : drain'[e] = drain[e]
    BY <1>4 DEF SkipUnclaimed, TypeOK
  <2> QED BY <1>0, <1>4, <2>2, <2>3, UnchangedSound, QuietStep DEF SkipUnclaimed
<1> QED BY <1>1, <1>2, <1>3, <1>4

\* What a drain does with a job before the call: expire, defer, begin.
LEMMA ClaimedProgress ==
  ASSUME TypeOK, ProgressIsDelivered, NEW d \in Drains,
         ExpireClaimed(d) \/ DeferClaimed(d) \/ BeginSend(d)
  PROVE  ProgressIsDelivered'
<1> DEFINE j == drain[d].cur.job
<1>0. drain[d].pc \in Working /\ drain[d].pc = "claimed"
  BY DEF ExpireClaimed, DeferClaimed, BeginSend, Working
<1>1. j \in Jobs /\ row[j] \in Row /\ RowSound(j, row[j]) /\ DrainSound(drain[d])
  BY <1>0, WorkingType, SoundIsProgress
<1>2. CASE ExpireClaimed(d)
  <2> DEFINE r == [row[j] EXCEPT !.status = "expired", !.nextRetryAt = drain[d].now]
  <2>1. r.sentChunks = row[j].sentChunks /\ r.status = "expired"
    BY <1>1 DEF Row
  <2>2. RowSound(j, r)
    BY <1>1, <2>1 DEF RowSound
  <2>3. \A k \in Jobs : RowSound(k, row'[k])
    BY <1>1, <1>2, <2>2, WriteSound DEF ExpireClaimed
  <2>4. \A e \in Drains : DrainSound(drain'[e])
    BY <1>0, <1>2, ContinueWithSyncSound DEF ExpireClaimed
  <2> QED BY <1>2, <2>3, <2>4, QuietStep DEF ExpireClaimed
<1>3. CASE DeferClaimed(d)
  <2> DEFINE r == [row[j] EXCEPT !.status = "retry", !.nextRetryAt = clock + DeferDelay]
  <2>1. r.sentChunks = row[j].sentChunks /\ r.status = "retry"
    BY <1>1 DEF Row
  <2>2. RowSound(j, r)
    BY <1>1, <2>1 DEF RowSound
  <2>3. \A k \in Jobs : RowSound(k, row'[k])
    BY <1>1, <1>3, <2>2, WriteSound DEF DeferClaimed
  <2>4. \A e \in Drains : DrainSound(drain'[e])
    BY <1>3, ContinueSound DEF DeferClaimed
  <2> QED BY <1>3, <2>3, <2>4, QuietStep DEF DeferClaimed
<1>4. CASE BeginSend(d)
  <2>1. drain'[d].due = drain[d].due /\ drain'[d].cur = drain[d].cur
        /\ drain'[d].index = drain[d].cur.sentChunks
    BY <1>4 DEF BeginSend, TypeOK, Drain
  <2>2. DrainSound(drain'[d])
    BY <1>0, <1>1, <2>1 DEF DrainSound
  <2>3. \A e \in Drains \ {d} : drain'[e] = drain[e]
    BY <1>4 DEF BeginSend, TypeOK
  <2>4. \A e \in Drains : DrainSound(drain'[e])
    BY <2>2, <2>3, SoundIsProgress
  <2> QED BY <1>4, <2>4, UnchangedSound, QuietStep DEF BeginSend
<1> QED BY <1>2, <1>3, <1>4

\* A chunk arrives and the drain counts it.
LEMMA DeliverProgress ==
  ASSUME TypeOK, TypeOK', ProgressIsDelivered, NEW d \in Drains, DeliverChunk(d)
  PROVE  ProgressIsDelivered'
<1> DEFINE j == drain[d].cur.job
           n == drain[d].index + 1
<1>0. drain[d].pc \in Working /\ drain[d].pc = "sending"
  BY DEF DeliverChunk, Working
<1>1. j \in Jobs /\ drain[d] \in Drain /\ DrainSound(drain[d])
  BY <1>0, WorkingType, SoundIsProgress
<1>2. n \in 1..Chunks /\ Reach(j, n)
  BY <1>1, ConstantsAssumption DEF ConstantsAssumption, DeliverChunk, Drain
<1>3. /\ reached'[j][n] > 0
      /\ \A k \in Jobs, b \in 1..Chunks : reached[k][b] > 0 => reached'[k][b] > 0
  BY <1>1, <1>2, ReachKeeps
<1>4. \A k \in Jobs, m \in 0..Chunks : HasReached(k, m) => \A b \in 1..m : reached'[k][b] > 0
  BY <1>3, ConstantsAssumption DEF ConstantsAssumption, HasReached
<1>5. /\ drain'[d].due = drain[d].due /\ drain'[d].cur = drain[d].cur
      /\ drain'[d].pc = "sending" /\ drain'[d].index = n
      /\ \A e \in Drains \ {d} : drain'[e] = drain[e]
  BY <1>0, <1>1 DEF DeliverChunk, TypeOK, Drain
<1>6. \A b \in 1..n : reached'[j][b] > 0
  <2>1. HasReached(j, drain[d].index) /\ drain[d].index \in 0..Chunks
    BY <1>0, <1>1 DEF DrainSound, Drain
  <2>2. \A b \in 1..drain[d].index : reached'[j][b] > 0
    BY <1>1, <1>4, <2>1
  <2> QED BY <1>3, <2>1, <2>2
<1>7. \A k \in Jobs : /\ \A b \in 1..row[k].sentChunks : reached'[k][b] > 0
                      /\ row[k].status = "sent" => \A b \in 1..Chunks : reached'[k][b] > 0
  <2>1. \A k \in Jobs : row[k].sentChunks \in 0..Chunks /\ RowSound(k, row[k])
    BY SoundIsProgress DEF TypeOK, Row
  <2>2. Chunks \in 0..Chunks
    BY ConstantsAssumption DEF ConstantsAssumption
  <2> QED BY <1>4, <2>1, <2>2 DEF RowSound
<1>8. ASSUME NEW e \in Drains
      PROVE  /\ \A s \in drain[e].due : \A b \in 1..s.sentChunks : reached'[s.job][b] > 0
             /\ drain[e].pc \in Working =>
                  \A b \in 1..drain[e].cur.sentChunks : reached'[drain[e].cur.job][b] > 0
             /\ drain[e].pc = "sending" =>
                  \A b \in 1..drain[e].index : reached'[drain[e].cur.job][b] > 0
  <2>1. drain[e] \in Drain /\ DrainSound(drain[e])
    BY SoundIsProgress DEF TypeOK
  <2>2. \A s \in drain[e].due : s.job \in Jobs /\ s.sentChunks \in 0..Chunks
    BY <2>1 DEF TypeOK, Drain, Snapshot
  <2>3. drain[e].cur.sentChunks \in 0..Chunks /\ drain[e].index \in 0..Chunks
    BY <2>1 DEF Drain, Snapshot
  <2>4. drain[e].pc \in Working => drain[e].cur.job \in Jobs
    BY DEF TypeOK
  <2> QED BY <1>4, <2>1, <2>2, <2>3, <2>4 DEF DrainSound, Working
<1>9. row' = row
  BY DEF DeliverChunk
<1>10. (\A k \in Jobs : HasReached(k, row[k].sentChunks)
                        /\ (row[k].status = "sent" => HasReached(k, Chunks)))'
  BY <1>7, <1>9 DEF HasReached
<1>11. ASSUME NEW e \in Drains
       PROVE  DrainSound(drain[e])'
  <2>1. CASE e = d
    BY <2>1, <1>0, <1>5, <1>6, <1>8 DEF DrainSound, HasReached
  <2>2. CASE e # d
    BY <2>2, <1>5, <1>8 DEF DrainSound, HasReached
  <2> QED BY <2>1, <2>2
<1> QED BY <1>10, <1>11 DEF ProgressIsDelivered, SentMeansDelivered, DrainSound

\* The row markFailed writes remembers progress that was made.
LEMMA FailedRowSound ==
  ASSUME TypeOK, ProgressIsDelivered, NEW d \in Drains, drain[d].pc \in Working,
         NEW permanent \in BOOLEAN, NEW n \in 0..Chunks, HasReached(drain[d].cur.job, n)
  PROVE  RowSound(drain[d].cur.job, FailedRow(d, permanent, n))
<1>1. row[drain[d].cur.job] \in Row
  BY WorkingType
<1>2. FailedRow(d, permanent, n).sentChunks = n
      /\ FailedRow(d, permanent, n).status # "sent"
  BY <1>1 DEF FailedRow, Row
<1> QED BY <1>2 DEF RowSound

LEMMA MarkFailedSound ==
  ASSUME TypeOK, ProgressIsDelivered, NEW d \in Drains, drain[d].pc \in Working,
         NEW permanent \in BOOLEAN, NEW n \in 0..Chunks, HasReached(drain[d].cur.job, n),
         MarkFailed(d, permanent, n)
  PROVE  /\ \A k \in Jobs : RowSound(k, row'[k])
         /\ \A e \in Drains : DrainSound(drain'[e])
<1>1. \A k \in Jobs : RowSound(k, row'[k])
  BY FailedRowSound, WorkingType, WriteSound DEF MarkFailed
<1>2. \A e \in Drains : DrainSound(drain'[e])
  BY ContinueWithSyncSound DEF MarkFailed
<1> QED BY <1>1, <1>2

\* The call's answers: sent, parked, failed, thrown.
LEMMA AnswerProgress ==
  ASSUME TypeOK, TypeOK', ProgressIsDelivered, NEW d \in Drains,
         \/ SendSucceeds(d) \/ SendWaitsForUser(d) \/ SendThrows(d)
         \/ \E permanent \in BOOLEAN : SendFails(d, permanent)
  PROVE  ProgressIsDelivered'
<1> DEFINE j == drain[d].cur.job
<1>0. drain[d].pc \in Working /\ drain[d].pc = "sending"
  BY DEF SendSucceeds, SendWaitsForUser, SendThrows, SendFails, CallReturns, Working
<1>1. j \in Jobs /\ drain[d] \in Drain /\ row[j] \in Row /\ drain[d].index \in 0..Chunks
  BY <1>0, WorkingType DEF Drain
<1>2. HasReached(j, drain[d].index) /\ HasReached(j, 0) /\ RowSound(j, row[j])
  BY <1>0, <1>1, SoundIsProgress DEF DrainSound, HasReached
<1>3. CASE SendSucceeds(d)
  <2> DEFINE r == [row[j] EXCEPT !.status = "sent", !.attempts = AttemptsOf(d)]
  <2>1. r.sentChunks = row[j].sentChunks
    BY <1>1 DEF Row
  <2>2. RowSound(j, r)
    BY <1>2, <1>3, <2>1 DEF SendSucceeds, RowSound
  <2>3. \A k \in Jobs : RowSound(k, row'[k])
    BY <1>1, <1>3, <2>2, WriteSound DEF SendSucceeds
  <2>4. \A e \in Drains : DrainSound(drain'[e])
    BY <1>0, <1>3, ContinueWithSyncSound DEF SendSucceeds
  <2> QED BY <1>3, <2>3, <2>4, QuietStep DEF SendSucceeds
<1>4. CASE SendWaitsForUser(d)
  <2> DEFINE r == [row[j] EXCEPT !.status = "awaiting_user", !.attempts = AttemptsOf(d),
                                 !.sentChunks = drain[d].index]
  <2>1. r.sentChunks = drain[d].index /\ r.status = "awaiting_user"
    BY <1>1 DEF Row
  <2>2. RowSound(j, r)
    BY <1>2, <2>1 DEF RowSound
  <2>3. \A k \in Jobs : RowSound(k, row'[k])
    BY <1>1, <1>4, <2>2, WriteSound DEF SendWaitsForUser
  <2>4. \A e \in Drains : DrainSound(drain'[e])
    BY <1>0, <1>4, ContinueWithSyncSound DEF SendWaitsForUser
  <2> QED BY <1>4, <2>3, <2>4, QuietStep DEF SendWaitsForUser
<1>5. CASE SendThrows(d)
  <2>1. 0 \in 0..Chunks
    BY ConstantsAssumption DEF ConstantsAssumption
  <2> QED BY <1>0, <1>2, <1>5, <2>1, MarkFailedSound, QuietStep DEF SendThrows
<1>6. ASSUME NEW permanent \in BOOLEAN, SendFails(d, permanent) PROVE ProgressIsDelivered'
  <2>1. (\A k \in Jobs : RowSound(k, row'[k])) /\ (\A e \in Drains : DrainSound(drain'[e]))
    BY <1>0, <1>1, <1>2, <1>6, MarkFailedSound DEF SendFails
  <2>2. CASE UNCHANGED reached
    BY <2>1, <2>2, QuietStep
  <2>3. CASE Reach(j, drain[d].index + 1)
    <3>1. drain[d].index + 1 \in 1..Chunks
      BY <1>1, <1>6, ConstantsAssumption DEF ConstantsAssumption, SendFails
    <3> QED BY <1>1, <2>1, <2>3, <3>1, ArrivalStep
  <2> QED BY <1>6, <2>2, <2>3 DEF SendFails, FailingChunk
<1> QED BY <1>3, <1>4, <1>5, <1>6

LEMMA SyncProgress ==
  ASSUME TypeOK, ProgressIsDelivered, NEW d \in Drains, SyncDelivery(d) \/ SyncFails(d)
  PROVE  ProgressIsDelivered'
<1>1. UNCHANGED <<row, reached>> /\ Continue(d)
  BY DEF SyncDelivery, SyncFails
<1> QED BY <1>1, ContinueSound, UnchangedSound, QuietStep

LEMMA NextProgress == TypeOK /\ ProgressIsDelivered /\ [Next]_vars => ProgressIsDelivered'
<1> SUFFICES ASSUME TypeOK, ProgressIsDelivered, [Next]_vars PROVE ProgressIsDelivered'
  OBVIOUS
<1>0. TypeOK'
  BY NextTypeOK
<1>1. CASE UNCHANGED vars
  BY <1>1, UnchangedSound, QuietStep DEF vars
<1>2. CASE (\E j \in Jobs : Enqueue(j)) \/ Inbound \/ ToggleBusy \/ Tick \/ Crash
  BY <1>2, OutsideProgress
<1>3. ASSUME NEW d \in Drains, StartDrain(d) \/ DrainStep(d) \/ DrainAborts(d)
      PROVE  ProgressIsDelivered'
  <2>1. CASE \/ StartDrain(d) \/ EndDrain(d) \/ DrainAborts(d)
             \/ \E s \in drain[d].due : ClaimDuePushJob(d, s) \/ SkipUnclaimed(d, s)
    BY <2>1, BatchProgress
  <2>2. CASE ExpireClaimed(d) \/ DeferClaimed(d) \/ BeginSend(d)
    BY <2>2, ClaimedProgress
  <2>3. CASE DeliverChunk(d)
    BY <1>0, <2>3, DeliverProgress
  <2>4. CASE \/ SendSucceeds(d) \/ SendWaitsForUser(d) \/ SendThrows(d)
             \/ \E permanent \in BOOLEAN : SendFails(d, permanent)
    BY <1>0, <2>4, AnswerProgress
  <2>5. CASE SyncDelivery(d) \/ SyncFails(d)
    BY <2>5, SyncProgress
  <2> QED BY <1>3, <2>1, <2>2, <2>3, <2>4, <2>5 DEF DrainStep
<1> QED BY <1>1, <1>2, <1>3 DEF Next

\* The progress every row, batch and call starts from was made, so a call
\* that skips it loses no chunk.
THEOREM ProgressCorrect == Spec => []ProgressIsDelivered
<1>1. Init => TypeOK /\ ProgressIsDelivered
  BY InitTypeOK, InitProgress
<1>2. TypeOK /\ ProgressIsDelivered /\ [Next]_vars => (TypeOK /\ ProgressIsDelivered)'
  BY NextTypeOK, NextProgress
<1> QED BY <1>1, <1>2, PTL DEF Spec

\* What the queue records as sent has reached the user chunk by chunk, for any
\* number of drains, whatever crashes, throws or outlives its lease.
THEOREM SentIsDelivered == Spec => []SentMeansDelivered
<1>1. ProgressIsDelivered => SentMeansDelivered
  BY DEF ProgressIsDelivered
<1> QED BY <1>1, ProgressCorrect, PTL

-----------------------------------------------------------------------------
(* No job is put off for longer than the longest of lease and delays.      *)

\* A time no lease and no delay exceeds.
Longest(t) ==
    /\ t \in Nat /\ Lease <= t /\ DeferDelay <= t
    /\ \A i \in 1..Len(RetryDelays) : RetryDelays[i] <= t

\* What waits in the queue is due at the latest t units from now.
DueWithin(t) == \A j \in Jobs : row[j].status \in Claimable => row[j].nextRetryAt <= clock + t

\* No batch began in the future.
BatchesBegan == \A d \in Drains : drain[d].now <= clock

\* What a step does to rows and batches, as far as times are concerned.
TimesKept(t) ==
    /\ clock' \in Nat /\ clock <= clock'
    /\ \A j \in Jobs : \/ row'[j] = row[j]
                       \/ row'[j].status \notin Claimable
                       \/ row'[j].nextRetryAt <= clock + t
    /\ \A d \in Drains : drain'[d].now \in {drain[d].now, 0, clock}

LEMMA TimesKeptDue ==
  ASSUME TypeOK, NEW t \in Nat, DueWithin(t), BatchesBegan, TimesKept(t), TypeOK'
  PROVE  DueWithin(t)' /\ BatchesBegan'
<1>1. /\ clock \in Nat /\ clock' \in Nat /\ clock <= clock'
      /\ \A j \in Jobs : row[j].nextRetryAt \in Nat /\ row'[j].nextRetryAt \in Nat
      /\ \A d \in Drains : drain[d].now \in Nat /\ drain'[d].now \in Nat
  BY DEF TypeOK, TimesKept, Row, Drain
<1>2. DueWithin(t)'
  BY <1>1 DEF DueWithin, TimesKept
<1>3. BatchesBegan'
  BY <1>1 DEF BatchesBegan, TimesKept
<1> QED BY <1>2, <1>3

\* The loop goes on in the batch it is in.
LEMMA ContinueKeepsBatch ==
  ASSUME TypeOK, NEW d \in Drains, Continue(d) \/ \E report : ContinueWithSync(d, report)
  PROVE  \A e \in Drains : drain'[e].now = drain[e].now
<1>1. drain \in [Drains -> Drain]
  BY DEF TypeOK
<1>2. CASE Continue(d)
  BY <1>1, <1>2 DEF Continue, Drain
<1>3. ASSUME NEW report, drain' = [drain EXCEPT ![d] = [@ EXCEPT !.pc = "syncing", !.report = report]]
      PROVE  \A e \in Drains : drain'[e].now = drain[e].now
  BY <1>1, <1>3 DEF Drain
<1> QED BY <1>2, <1>3 DEF ContinueWithSync

\* markFailed schedules the retry after one of RETRY_DELAYS_MS.
LEMMA RetryIsSoon ==
  ASSUME TypeOK, NEW t, Longest(t), NEW d \in Drains, drain[d].pc \in Working,
         NEW permanent \in BOOLEAN, NEW n \in 0..Chunks
  PROVE  \/ FailedRow(d, permanent, n).status \notin Claimable
         \/ FailedRow(d, permanent, n).nextRetryAt <= clock + t
<1> DEFINE r == row[drain[d].cur.job]
<1>1. r \in Row /\ AttemptsOf(d) \in Nat \ {0} /\ clock \in Nat /\ t \in Nat
  <2>1. drain[d].cur \in Snapshot /\ drain[d].cur.job \in Jobs
    BY WorkingType
  <2> QED BY <2>1 DEF Snapshot, AttemptsOf, TypeOK, Longest
<1>2. DelayAfter(AttemptsOf(d)) \in Nat /\ DelayAfter(AttemptsOf(d)) <= t
  <2>1. Len(RetryDelays) \in Nat \ {0}
    BY ConstantsAssumption DEF ConstantsAssumption
  <2>2. (IF AttemptsOf(d) < Len(RetryDelays) THEN AttemptsOf(d) ELSE Len(RetryDelays))
          \in 1..Len(RetryDelays)
    BY <1>1, <2>1
  <2> QED BY <1>1, <2>2, DelayType DEF Longest, DelayAfter
<1>3. clock + DelayAfter(AttemptsOf(d)) <= clock + t
  BY <1>1, <1>2
<1>4. FailedRow(d, permanent, n).status = "retry"
        => FailedRow(d, permanent, n).nextRetryAt = clock + DelayAfter(AttemptsOf(d))
  BY <1>1 DEF FailedRow, Row
<1>5. FailedRow(d, permanent, n).status \in {"expired", "dead", "retry"}
  BY <1>1 DEF FailedRow, Row
<1> QED BY <1>3, <1>4, <1>5 DEF Claimable

\* The steps of a call of processDuePushJobs.
LEMMA DrainKeepsTimes ==
  ASSUME TypeOK, NEW t, Longest(t), BatchesBegan, NEW d \in Drains,
         StartDrain(d) \/ DrainStep(d) \/ DrainAborts(d)
  PROVE  TimesKept(t)
<1>1. /\ drain \in [Drains -> Drain] /\ row \in [Jobs -> Row] /\ clock \in Nat /\ t \in Nat
      /\ Lease \in Nat /\ DeferDelay \in Nat /\ Lease <= t /\ DeferDelay <= t
      /\ drain[d].now \in Nat /\ drain[d].now <= clock
  BY ConstantsAssumption DEF TypeOK, Longest, ConstantsAssumption, BatchesBegan, Drain
<1>2. clock' = clock
  BY DEF StartDrain, DrainStep, DrainAborts, ClaimDuePushJob, SkipUnclaimed, EndDrain, ExpireClaimed,
         DeferClaimed, BeginSend, DeliverChunk, SendSucceeds, SendWaitsForUser, SendFails, SendThrows,
         SyncDelivery, SyncFails
<1>3. ASSUME row' = row, \A e \in Drains : drain'[e].now \in {drain[e].now, 0, clock}
      PROVE  TimesKept(t)
  BY <1>1, <1>2, <1>3 DEF TimesKept
<1>4. ASSUME NEW j \in Jobs, NEW r \in Row, row' = [row EXCEPT ![j] = r],
             r.status \notin Claimable \/ r.nextRetryAt <= clock + t,
             \A e \in Drains : drain'[e].now = drain[e].now
      PROVE  TimesKept(t)
  BY <1>1, <1>2, <1>4 DEF TimesKept
<1>5. CASE StartDrain(d)
  <2>1. PICK due : drain' = [drain EXCEPT ![d] =
                     [IdleDrain EXCEPT !.pc = "next", !.now = clock, !.due = due]]
    BY <1>5 DEF StartDrain
  <2>2. \A e \in Drains : drain'[e].now \in {drain[e].now, clock}
    BY <1>1, <2>1 DEF IdleDrain
  <2> QED BY <1>3, <1>5, <2>2 DEF StartDrain
<1>6. ASSUME NEW s \in drain[d].due, ClaimDuePushJob(d, s) PROVE TimesKept(t)
  <2>1. s.job \in Jobs
    BY DEF TypeOK
  <2> DEFINE r == [row[s.job] EXCEPT !.status = "processing", !.nextRetryAt = LeaseEnd(d)]
  <2>2. LeaseEnd(d) \in Nat /\ LeaseEnd(d) <= clock + t
    BY <1>1 DEF LeaseEnd
  <2>3. r \in Row /\ r.nextRetryAt <= clock + t
    BY <1>1, <2>1, <2>2 DEF Row, Statuses
  <2>4. row' = [row EXCEPT ![s.job] = r]
    BY <1>6 DEF ClaimDuePushJob
  <2>5. \A e \in Drains : drain'[e].now = drain[e].now
    BY <1>1, <1>6 DEF ClaimDuePushJob, Drain
  <2> QED
    <3> HIDE DEF r
    <3> QED BY <1>4, <2>1, <2>3, <2>4, <2>5
<1>7. ASSUME NEW s \in drain[d].due, SkipUnclaimed(d, s) PROVE TimesKept(t)
  <2>1. \A e \in Drains : drain'[e].now = drain[e].now
    BY <1>1, <1>7 DEF SkipUnclaimed, Drain
  <2> QED BY <1>3, <1>7, <2>1 DEF SkipUnclaimed
<1>8. CASE EndDrain(d) \/ DrainAborts(d)
  <2>1. drain' = [drain EXCEPT ![d] = IdleDrain] /\ row' = row
    BY <1>8 DEF EndDrain, DrainAborts
  <2>2. \A e \in Drains : drain'[e].now \in {drain[e].now, 0}
    BY <1>1, <2>1 DEF IdleDrain
  <2> QED BY <1>3, <2>1, <2>2
<1>9. CASE BeginSend(d) \/ DeliverChunk(d)
  <2>1. \A e \in Drains : drain'[e].now = drain[e].now
    <3>1. CASE BeginSend(d)
      BY <1>1, <3>1 DEF BeginSend, Drain
    <3>2. CASE DeliverChunk(d)
      BY <1>1, <3>2 DEF DeliverChunk, Drain
    <3> QED BY <1>9, <3>1, <3>2
  <2> QED BY <1>3, <1>9, <2>1 DEF BeginSend, DeliverChunk
<1>10. CASE SyncDelivery(d) \/ SyncFails(d)
  <2>1. Continue(d) /\ row' = row
    BY <1>10 DEF SyncDelivery, SyncFails
  <2> QED BY <1>3, <2>1, ContinueKeepsBatch
<1>11. CASE ExpireClaimed(d) \/ DeferClaimed(d) \/ SendSucceeds(d) \/ SendWaitsForUser(d)
  <2> DEFINE j == drain[d].cur.job
  <2>1. drain[d].pc \in Working
    BY <1>11 DEF ExpireClaimed, DeferClaimed, SendSucceeds, SendWaitsForUser, CallReturns, Working
  <2>2. j \in Jobs /\ row[j] \in Row /\ AttemptsOf(d) \in Nat /\ drain[d].index \in 0..Chunks
    BY <1>1, <2>1, WorkingType DEF Drain
  <2>3. Continue(d) \/ \E report : ContinueWithSync(d, report)
    BY <1>11 DEF ExpireClaimed, DeferClaimed, SendSucceeds, SendWaitsForUser
  <2>4. CASE ExpireClaimed(d)
    <3>1. [row[j] EXCEPT !.status = "expired", !.nextRetryAt = drain[d].now] \in Row
      BY <1>1, <2>2 DEF Row, Statuses
    <3> QED BY <1>4, <2>2, <2>3, <2>4, <3>1, ContinueKeepsBatch DEF ExpireClaimed, Claimable, Row
  <2>5. CASE DeferClaimed(d)
    <3> DEFINE n == clock + DeferDelay
    <3>1. n \in Nat /\ n <= clock + t
      BY <1>1
    <3> HIDE DEF n
    <3>2. [row[j] EXCEPT !.status = "retry", !.nextRetryAt = n] \in Row
      BY <2>2, <3>1 DEF Row, Statuses
    <3>3. row' = [row EXCEPT ![j] = [row[j] EXCEPT !.status = "retry", !.nextRetryAt = n]]
      BY <2>5 DEF DeferClaimed, n
    <3>4. [row[j] EXCEPT !.status = "retry", !.nextRetryAt = n].nextRetryAt = n
      BY <2>2 DEF Row
    <3> QED BY <1>4, <2>2, <2>3, <3>1, <3>2, <3>3, <3>4, ContinueKeepsBatch
  <2>6. CASE SendSucceeds(d)
    <3>1. [row[j] EXCEPT !.status = "sent", !.attempts = AttemptsOf(d)] \in Row
      BY <2>2 DEF Row, Statuses
    <3> QED BY <1>4, <2>2, <2>3, <2>6, <3>1, ContinueKeepsBatch DEF SendSucceeds, Claimable, Row
  <2>7. CASE SendWaitsForUser(d)
    <3>1. [row[j] EXCEPT !.status = "awaiting_user", !.attempts = AttemptsOf(d),
                         !.sentChunks = drain[d].index] \in Row
      BY <2>2 DEF Row, Statuses
    <3> QED BY <1>4, <2>2, <2>3, <2>7, <3>1, ContinueKeepsBatch DEF SendWaitsForUser, Claimable, Row
  <2> QED BY <1>11, <2>4, <2>5, <2>6, <2>7
<1>12. ASSUME NEW permanent \in BOOLEAN, NEW n \in 0..Chunks, MarkFailed(d, permanent, n),
              drain[d].pc \in Working
       PROVE  TimesKept(t)
  <2>1. drain[d].cur.job \in Jobs /\ FailedRow(d, permanent, n) \in Row
    BY <1>12, WorkingType, FailedRowType
  <2>2. \E report : ContinueWithSync(d, report)
    BY <1>12 DEF MarkFailed
  <2>3. row' = [row EXCEPT ![drain[d].cur.job] = FailedRow(d, permanent, n)]
    BY <1>12 DEF MarkFailed
  <2> QED BY <1>4, <1>12, <2>1, <2>2, <2>3, RetryIsSoon, ContinueKeepsBatch
<1>13. ASSUME NEW permanent \in BOOLEAN, SendFails(d, permanent) PROVE TimesKept(t)
  <2>1. drain[d].pc \in Working /\ MarkFailed(d, permanent, drain[d].index)
    BY <1>13 DEF SendFails, CallReturns, Working
  <2>2. drain[d].index \in 0..Chunks
    BY <1>1 DEF Drain
  <2> QED BY <1>12, <2>1, <2>2
<1>14. CASE SendThrows(d)
  <2>1. drain[d].pc \in Working /\ MarkFailed(d, FALSE, 0)
    BY <1>14 DEF SendThrows, CallReturns, Working
  <2>2. 0 \in 0..Chunks /\ FALSE \in BOOLEAN
    BY ConstantsAssumption DEF ConstantsAssumption
  <2> QED BY <1>12, <2>1, <2>2
<1> QED BY <1>5, <1>6, <1>7, <1>8, <1>9, <1>10, <1>11, <1>13, <1>14 DEF DrainStep

LEMMA TimesNext ==
  ASSUME NEW t, Longest(t)
  PROVE  TypeOK /\ DueWithin(t) /\ BatchesBegan /\ [Next]_vars => DueWithin(t)' /\ BatchesBegan'
<1> SUFFICES ASSUME TypeOK, DueWithin(t), BatchesBegan, [Next]_vars
             PROVE  DueWithin(t)' /\ BatchesBegan'
  OBVIOUS
<1>1. /\ drain \in [Drains -> Drain] /\ row \in [Jobs -> Row] /\ clock \in Nat /\ t \in Nat
      /\ TypeOK'
  BY NextTypeOK DEF TypeOK, Longest
<1>2. ASSUME NEW j \in Jobs, Enqueue(j) PROVE TimesKept(t)
  <2>1. /\ \A i \in Jobs \ {j} : row'[i] = row[i]
        /\ row'[j].nextRetryAt = clock /\ drain' = drain /\ clock' = clock
    BY <1>1, <1>2 DEF Enqueue
  <2> QED BY <1>1, <2>1 DEF TimesKept
<1>3. ASSUME Inbound PROVE TimesKept(t)
  <2>1. \A j \in Jobs : \/ row'[j] = row[j]
                        \/ row'[j] = [row[j] EXCEPT !.status = "expired"]
                        \/ row'[j] = [row[j] EXCEPT !.status = "retry", !.nextRetryAt = clock]
    BY <1>3 DEF Inbound
  <2>2. \A r \in Row : /\ [r EXCEPT !.status = "expired"].status = "expired"
                       /\ [r EXCEPT !.status = "retry", !.nextRetryAt = clock].nextRetryAt = clock
    BY DEF Row
  <2>3. \A j \in Jobs : \/ row'[j] = row[j] \/ row'[j].status = "expired" \/ row'[j].nextRetryAt = clock
    BY <1>1, <2>1, <2>2
  <2>4. drain' = drain /\ clock' = clock
    BY <1>3 DEF Inbound
  <2> QED BY <1>1, <2>3, <2>4 DEF TimesKept, Claimable
<1>4. ASSUME ToggleBusy \/ Tick \/ UNCHANGED vars PROVE TimesKept(t)
  BY <1>1, <1>4 DEF ToggleBusy, Tick, vars, TimesKept
<1>5. ASSUME Crash PROVE TimesKept(t)
  BY <1>1, <1>5 DEF Crash, IdleDrain, TimesKept
<1>6. TimesKept(t)
  BY <1>2, <1>3, <1>4, <1>5, DrainKeepsTimes DEF Next
<1> QED BY <1>1, <1>6, TimesKeptDue

\* The part of EventuallySettled that needs no fairness: whatever is neither settled nor
\* parked is due again within the longest of lease, delay of a busy user and retry delays,
\* also when its drain died, threw or works with an old batch time, so that the next drain
\* after that finds it (claimDuePushJob, deferJob, markFailed).
THEOREM JobsComeDue ==
  ASSUME NEW CONSTANT t, Longest(t)
  PROVE  Spec => []DueWithin(t)
<1>1. Init => DueWithin(t) /\ BatchesBegan
  BY DEF Init, DueWithin, BatchesBegan, AbsentRow, Claimable, IdleDrain
<1>2. TypeOK /\ DueWithin(t) /\ BatchesBegan /\ [Next]_vars => DueWithin(t)' /\ BatchesBegan'
  BY TimesNext
<1> QED BY <1>1, <1>2, TypeCorrect, PTL DEF Spec

=============================================================================
