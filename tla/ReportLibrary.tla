---------------------------- MODULE ReportLibrary ----------------------------
(***************************************************************************)
(* The file library of one user: assets and their versions                 *)
(* (user-assets.ts), the storage they are charged for                      *)
(* (user-storage-quota.ts), the catalogue of reports                       *)
(* (report-asset-mappings.ts) and the periodic reviews the service         *)
(* publishes into it (conversation-artifacts.ts).  A version is a row and  *)
(* a file, written at different times; a publication is an asset, a row    *)
(* that names it and an entry of the catalogue, written one after another. *)
(*                                                                         *)
(* Calls run in several processes.  Their locks are those of               *)
(* ResourceMutationLock, taken here as a mutex that a dead owner loses and *)
(* that a stalled one may lose; acquiring one and what follows up to the   *)
(* next await is one step.  Names, folders and tags of assets are left     *)
(* out, and so is the refusal to delete an asset a task, a skill or a      *)
(* method uses: it changes nothing.                                        *)
(***************************************************************************)
EXTENDS Integers, FiniteSets

CONSTANTS
    Call,        \* requests and tool calls; a call that makes an asset or a version names it
    Report,      \* the reviews: kind, reportKey and variant
    Content,     \* what may be written
    Size,        \* [Content -> Nat], in bytes
    UserKey,     \* the idempotency keys of the user's requests
    Limit,       \* USER_STORAGE_LIMIT_BYTES
    MaxBusy,     \* bound: the calls under way at a time
    MaxFaults,   \* bound: the calls whose process dies, or that lose their locks and go on
    None

ASSUME LibraryAssumption ==
    /\ Size \in [Content -> Nat \ {0}]
    /\ Limit \in Nat /\ MaxBusy \in Nat /\ MaxFaults \in Nat
    /\ None \notin Call /\ None \notin Content /\ None \notin Report

VARIABLES
    assets,    \* user_assets: status and current_version_id
    versions,  \* user_asset_versions
    files,     \* the versions whose bytes are on disk
    reserved,  \* the bytes a call's reservation still counts for
    loose,     \* the bytes of the mappings without a backing asset
    artifact,  \* the conversation_artifacts row of a review
    mapping,   \* report_asset_mappings: what backs the entry of a review
    holder,    \* who has a lock
    step,      \* where a call is
    task,      \* what a call is for and what it has found
    stalled    \* history: the calls that lost their locks

library == <<assets, versions, files, reserved, loose>>
catalogue == <<artifact, mapping>>
calls == <<holder, step, task, stalled>>
vars == <<library, catalogue, calls>>
-----------------------------------------------------------------------------
(* Assets, versions, idempotency keys *)

Storage == <<"storage">>
ReviewLock(r) == <<"review", r>>
AssetLock(a) == <<"asset", a>>
LockKey == {Storage} \cup {ReviewLock(r) : r \in Report} \cup {AssetLock(a) : a \in Call}

NoKey == <<"none">>
Key == {NoKey} \cup {<<"client", k>> : k \in UserKey}
       \cup {<<"asset", r>> : r \in Report} \cup {<<"saved", r>> : r \in Report}
       \cup {<<"replacement", r, x>> : r \in Report, x \in Content}
       \cup {<<"version", r, x>> : r \in Report, x \in Content}

NoAsset == [status |-> "none", head |-> None]
NoVersion == [asset |-> None, content |-> None, source |-> "none", key |-> NoKey,
              op |-> "none", expected |-> None, parent |-> None]
NoRow == [asset |-> None, version |-> None, content |-> None]
NoEntry == [asset |-> None, version |-> None, by |-> "none"]
NoTask == [kind |-> "none", report |-> None, op |-> "none", asset |-> None, content |-> None,
           source |-> "none", key |-> NoKey, expected |-> None, parent |-> None,
           version |-> None, doomed |-> {}]

HasRow(v) == versions[v].asset # None
VersionsOf(a) == {v \in Call : versions[v].asset = a}
Stored == {v \in Call : HasRow(v)}
Listed(a) == assets[a].status \in {"active", "archived"}

\* The version that holds the idempotency key of the call.
Keyed(c) == {v \in Stored : versions[v].key = task[c].key}

\* fingerprint: what a repetition has in common with the first request.
SameRequest(c, v) ==
    LET t == task[c]  row == versions[v]
    IN /\ row.op = t.op /\ row.content = t.content /\ row.source = t.source
       /\ t.op = "upload" => /\ row.asset = t.asset
                             /\ row.expected = t.expected /\ row.parent = t.parent
-----------------------------------------------------------------------------
(* The storage account *)

\* The bytes of a sum, each one under the call it is charged to.
Bytes(size) == UNION {{c} \X (1..size[c]) : c \in Call}
Total(size) == Cardinality(Bytes(size))

\* The size of each version in the table.
Sizes(rows) == [v \in Call |-> IF rows[v].asset # None THEN Size[rows[v].content] ELSE 0]

\* authoritativeUsedBytes
Used(rows, unbacked) == Total(Sizes(rows)) + Total(unbacked)

\* sumActiveReservations
Held == Total(reserved)

\* Slip: The bytes of the request itself are not counted.
FitsBefore(n) == Used(versions, loose) + Held <= Limit

\* reserveStorage
Fits(n) == Used(versions, loose) + Held + n <= Limit

\* assertCommittedBytesWithinQuota, asked when the row of the version is in
Committable(rows, n) ==
    Used(rows, loose) + (IF Held > n THEN Held - n ELSE 0) <= Limit

\* A reservation runs out after STORAGE_RESERVATION_LEASE_MS, its write done or not.
Lapse(c) ==
    /\ reserved[c] > 0
    /\ reserved' = [reserved EXCEPT ![c] = 0]
    /\ UNCHANGED <<assets, versions, files, loose, catalogue, calls>>
-----------------------------------------------------------------------------
(* Calls and their locks *)

Free(k) == holder[k] = None
Without(c) == [k \in LockKey |-> IF holder[k] = c THEN None ELSE holder[k]]
WithoutStorage(c) ==
    [k \in LockKey |-> IF holder[k] = c /\ k[1] # "review" THEN None ELSE holder[k]]

Under(c) == step[c] \notin {"new", "done", "conflict", "dead"}
Admits(c) == step[c] = "new" /\ Cardinality({d \in Call : Under(d)}) < MaxBusy

Goes(c, s) == step' = [step EXCEPT ![c] = s]

\* A call answers, or is refused, and gives up its locks.
Ends(c, how) ==
    /\ Goes(c, how)
    /\ holder' = Without(c)
    /\ task' = [task EXCEPT ![c] = NoTask]
    /\ UNCHANGED stalled

\* A version is there: the row of the review or of the saved copy is next, if any.
Continues(c, a, v) ==
    IF task[c].kind = "write" THEN Ends(c, "done")
    ELSE /\ Goes(c, IF task[c].kind = "publish" THEN "row" ELSE "bind")
         /\ task' = [task EXCEPT ![c].asset = a, ![c].version = v]
         /\ holder' = WithoutStorage(c)
         /\ UNCHANGED stalled

Asks(c, s, asked) ==
    /\ Admits(c)
    /\ task' = [task EXCEPT ![c] = asked]
    /\ Goes(c, s)
    /\ UNCHANGED <<library, catalogue, holder, stalled>>

\* publishServiceOwnedReviewArtifact, per variant
AskPublish(c, r, x) ==
    Asks(c, "review", [NoTask EXCEPT !.kind = "publish", !.report = r, !.content = x,
                                     !.source = "system"])

\* createUserAsset for an upload of the user
AskCreate(c, k, x) ==
    Asks(c, "replay", [NoTask EXCEPT !.kind = "write", !.op = "create", !.content = x,
                                     !.source = "upload", !.key = <<"client", k>>])

\* uploadUserAssetVersion, for the head the user has seen
AskUpload(c, a, x, k) ==
    /\ assets[a].status = "active"
    /\ Asks(c, "asset", [NoTask EXCEPT !.kind = "write", !.op = "upload", !.asset = a,
                                       !.content = x, !.source = "upload",
                                       !.key = <<"client", k>>, !.expected = assets[a].head])

\* readUserAssetVersion finds the row, the file and its bytes
Readable(a, v) == HasRow(v) /\ versions[v].asset = a /\ v \in files

\* restoreUserAssetVersion; the head need not be named
AskRestore(c, a, v, k) ==
    /\ assets[a].status = "active" /\ Readable(a, v)
    /\ Asks(c, "asset", [NoTask EXCEPT !.kind = "write", !.op = "upload", !.asset = a,
                                       !.content = versions[v].content, !.source = "restore",
                                       !.key = <<"client", k>>, !.parent = v])

\* readConversationArtifactPayload: the backing version counts, and must match the row
Opens(r) ==
    LET row == artifact[r]
    IN /\ row.version # None
       /\ Readable(row.asset, row.version) /\ versions[row.version].content = row.content

\* ASSET_CONVERSATION_SAVE: the user keeps a copy of a published review
AskSave(c, r) ==
    /\ Opens(r)
    /\ Asks(c, "replay", [NoTask EXCEPT !.kind = "save", !.op = "create", !.report = r,
                                        !.content = artifact[r].content,
                                        !.source = "conversation", !.key = <<"saved", r>>])

\* deleteUserAsset
AskDelete(c, a) ==
    /\ Listed(a)
    /\ Asks(c, "asset", [NoTask EXCEPT !.kind = "delete", !.asset = a])

Wants(c) ==
    CASE step[c] = "review" -> ReviewLock(task[c].report)
      [] step[c] = "asset" -> AssetLock(task[c].asset)
      [] OTHER -> Storage

\* RESOURCE_MUTATION_LOCK_TIMEOUT
GivesUp(c) ==
    /\ step[c] \in {"review", "asset", "storage", "map"}
    /\ ~Free(Wants(c))
    /\ Ends(c, "done")
    /\ UNCHANGED <<library, catalogue>>

Faulty == stalled \cup {d \in Call : step[d] = "dead"}

\* The process of a call dies: its locks are cleared, its files and rows stay.
Crash(c) ==
    /\ Under(c) /\ Cardinality(Faulty) < MaxFaults
    /\ Ends(c, "dead")
    /\ UNCHANGED <<library, catalogue>>

\* A call that does not get to run for too long loses its locks and does not know.
Stall(c) ==
    /\ Under(c) /\ Cardinality(Faulty) < MaxFaults
    /\ holder' = Without(c) /\ holder' # holder
    /\ stalled' = stalled \cup {c}
    /\ UNCHANGED <<library, catalogue, step, task>>
-----------------------------------------------------------------------------
(* publishReviewArtifactVariant: what is there for the review *)

HeadOf(a) == versions[assets[a].head]

\* Slip: Any active asset of the review is appended to.
ActiveAsset(a) == a # None /\ assets[a].status = "active"

\* "Never append service output to an asset whose head is user-owned."
ServiceAsset(a) == a # None /\ assets[a].status = "active" /\ HeadOf(a).source = "system"

Look(c) ==
    LET r == task[c].report  x == task[c].content  a == artifact[r].asset
    IN /\ step[c] = "review" /\ Free(ReviewLock(r))
       /\ holder' = [holder EXCEPT ![ReviewLock(r)] = c]
       /\ \/ /\ ServiceAsset(a) /\ HeadOf(a).content = x
             /\ task' = [task EXCEPT ![c].asset = a, ![c].version = assets[a].head]
             /\ Goes(c, "row")
          \/ /\ ServiceAsset(a) /\ HeadOf(a).content # x
             /\ task' = [task EXCEPT ![c].op = "upload", ![c].asset = a,
                                     ![c].key = <<"version", r, x>>,
                                     ![c].expected = assets[a].head]
             /\ Goes(c, "asset")
          \/ /\ ~ServiceAsset(a)
             /\ task' = [task EXCEPT ![c].op = "create",
                                     ![c].key = IF a = None THEN <<"asset", r>>
                                                ELSE <<"replacement", r, x>>]
             /\ Goes(c, "replay")
       /\ UNCHANGED <<library, catalogue, stalled>>
-----------------------------------------------------------------------------
(* createUserAsset and uploadUserAssetVersion *)

\* Before the lock a creation only looks for its key.
LookFirst(c) ==
    /\ step[c] = "replay" /\ Keyed(c) = {}
    /\ Goes(c, "storage")
    /\ UNCHANGED <<library, catalogue, holder, task, stalled>>

LockAsset(c) ==
    LET k == AssetLock(task[c].asset)
    IN /\ step[c] = "asset" /\ Free(k)
       /\ holder' = [holder EXCEPT ![k] = c]
       /\ Goes(c, "storage")
       /\ UNCHANGED <<library, catalogue, task, stalled>>

InStorage(c) == step[c] = "storage" /\ Free(Storage) /\ task[c].kind # "delete"

\* Slip: A creation trusts the look it took before it had the lock.
LooksOnce(c) == step[c] = "replay" \/ (InStorage(c) /\ task[c].op = "upload")

\* Where a call looks its key up: a creation twice.
LooksUp(c) == step[c] = "replay" \/ InStorage(c)

\* requireAsset and its status; a creation has no asset yet
Accepts(c) == task[c].op = "upload" => assets[task[c].asset].status = "active"

\* ASSET_VERSION_CONFLICT
Stale(c) ==
    /\ task[c].op = "upload" /\ task[c].expected # None
    /\ task[c].expected # assets[task[c].asset].head

Found(c) == IF LooksUp(c) /\ Accepts(c) THEN Keyed(c) ELSE {}

\* resolveIdempotentCreate, and its counterpart for a version: the present head is the answer
Replay(c) ==
    /\ \E v \in Found(c) :
        /\ SameRequest(c, v)
        /\ Continues(c, versions[v].asset, assets[versions[v].asset].head)
    /\ UNCHANGED <<library, catalogue>>

\* ASSET_IDEMPOTENCY_CONFLICT
Conflict(c) ==
    /\ \E v \in Found(c) : ~SameRequest(c, v)
    /\ Ends(c, "conflict")
    /\ UNCHANGED <<library, catalogue>>

Refuse(c) ==
    /\ InStorage(c) /\ Found(c) = {}
    /\ ~Accepts(c) \/ Stale(c)
    /\ Ends(c, "done")
    /\ UNCHANGED <<library, catalogue>>

Reserve(c) ==
    LET n == Size[task[c].content]
    IN /\ InStorage(c) /\ Found(c) = {} /\ Accepts(c) /\ ~Stale(c)
       /\ IF Fits(n)
          THEN /\ reserved' = [reserved EXCEPT ![c] = n]
               /\ holder' = [holder EXCEPT ![Storage] = c]
               /\ Goes(c, "stage")
               /\ UNCHANGED <<task, stalled>>
          ELSE Ends(c, "done") /\ UNCHANGED reserved
       /\ UNCHANGED <<assets, versions, files, loose, catalogue>>

\* stageAndCommit
Stage(c) ==
    /\ step[c] = "stage"
    /\ files' = files \cup {c}
    /\ Goes(c, "commit")
    /\ UNCHANGED <<assets, versions, reserved, loose, catalogue, holder, task, stalled>>

StageFails(c) ==
    /\ step[c] = "stage"
    /\ reserved' = [reserved EXCEPT ![c] = 0]
    /\ Ends(c, "done")
    /\ UNCHANGED <<assets, versions, files, loose, catalogue>>

Target(c) == IF task[c].op = "create" THEN c ELSE task[c].asset

\* insertVersion
WithVersion(c) ==
    LET t == task[c]
    IN [versions EXCEPT ![c] = [asset |-> Target(c), content |-> t.content, source |-> t.source,
                                key |-> t.key, op |-> t.op, expected |-> t.expected,
                                parent |-> t.parent]]

\* What the transaction asks once more; the key is a unique index.
StillValid(c) == Accepts(c) /\ ~Stale(c) /\ Keyed(c) = {}

Commits(c) == StillValid(c) /\ Committable(WithVersion(c), Size[task[c].content])

Commit(c) ==
    /\ step[c] = "commit" /\ Commits(c)
    /\ versions' = WithVersion(c)
    /\ assets' = [assets EXCEPT ![Target(c)] = [status |-> "active", head |-> c]]
    /\ reserved' = [reserved EXCEPT ![c] = 0]
    /\ Continues(c, Target(c), c)
    /\ UNCHANGED <<files, loose, catalogue>>

CommitFails(c) ==
    /\ step[c] = "commit" /\ ~Commits(c)
    /\ Goes(c, "undo")
    /\ UNCHANGED <<library, catalogue, holder, task, stalled>>

\* The catch block removes the staged file and releases the reservation.
Undo(c) ==
    /\ step[c] = "undo"
    /\ files' = files \ {c}
    /\ reserved' = [reserved EXCEPT ![c] = 0]
    /\ Ends(c, "done")
    /\ UNCHANGED <<assets, versions, loose, catalogue>>
-----------------------------------------------------------------------------
(* The rest of a publication, and of saving one *)

\* The artifact row of the review, inserted or updated.
Row(c) ==
    LET t == task[c]
    IN /\ step[c] = "row"
       /\ artifact' = [artifact EXCEPT ![t.report] = [asset |-> t.asset, version |-> t.version,
                                                      content |-> t.content]]
       /\ Goes(c, "map")
       /\ UNCHANGED <<library, mapping, holder, task, stalled>>

\* Slip: The asset found when the publication began is trusted.
TrustedBacks(a, v) == TRUE

\* assertBackingInScope
Backs(a, v) == Listed(a) /\ versions[v].asset = a

\* registerReportAssetMapping with a backing version, which costs nothing
Map(c) ==
    LET t == task[c]
    IN /\ step[c] = "map" /\ Free(Storage)
       /\ mapping' = IF Backs(t.asset, t.version)
                     THEN [mapping EXCEPT ![t.report] = [asset |-> t.asset, version |-> t.version,
                                                         by |-> "publish"]]
                     ELSE mapping
       /\ Ends(c, "done")
       /\ UNCHANGED <<library, artifact>>

\* The connector writes the copy's asset and version into the row of the artifact.
Bind(c) ==
    LET t == task[c]
    IN /\ step[c] = "bind"
       /\ artifact' = [artifact EXCEPT ![t.report].asset = t.asset, ![t.report].version = t.version]
       /\ Ends(c, "done")
       /\ UNCHANGED <<library, mapping>>
-----------------------------------------------------------------------------
(* Deleting, archiving, reports without a backing asset, listing *)

InDelete(c) == step[c] = "storage" /\ task[c].kind = "delete" /\ Free(Storage)

\* Slip: The files go before the rows that name them.
FilesFirst(c) ==
    /\ InDelete(c) /\ Listed(task[c].asset)
    /\ holder' = [holder EXCEPT ![Storage] = c]
    /\ files' = files \ VersionsOf(task[c].asset)
    /\ Goes(c, "remove")
    /\ UNCHANGED <<assets, versions, reserved, loose, catalogue, task, stalled>>

\* One transaction removes the entries and the rows; the files of the versions follow.
\* Finding the workspace before the transaction is not a step of its own.
DeleteRows(c) ==
    LET a == task[c].asset
    IN /\ InDelete(c) /\ Listed(a)
       /\ holder' = [holder EXCEPT ![Storage] = c]
       /\ mapping' = [r \in Report |-> IF mapping[r].asset = a THEN NoEntry ELSE mapping[r]]
       /\ versions' = [v \in Call |-> IF versions[v].asset = a THEN NoVersion ELSE versions[v]]
       /\ assets' = [assets EXCEPT ![a] = [status |-> "deleted", head |-> None]]
       /\ task' = [task EXCEPT ![c].doomed = VersionsOf(a)]
       /\ Goes(c, "remove")
       /\ UNCHANGED <<files, reserved, loose, artifact, stalled>>

DeleteNothing(c) ==
    /\ InDelete(c) /\ ~Listed(task[c].asset)
    /\ Ends(c, "done")
    /\ UNCHANGED <<library, catalogue>>

RemoveFiles(c) ==
    /\ step[c] = "remove"
    /\ files' = files \ task[c].doomed
    /\ Ends(c, "done")
    /\ UNCHANGED <<assets, versions, reserved, loose, catalogue>>

\* archiveUserAsset
Archive(a) ==
    /\ assets[a].status = "active" /\ Free(AssetLock(a))
    /\ assets' = [assets EXCEPT ![a].status = "archived"]
    /\ UNCHANGED <<versions, files, reserved, loose, catalogue, calls>>

\* registerReportAssetMapping for a report that lives in the workspace: its
\* bytes are reserved and charged in one uninterrupted piece of code.
RegisterLoose(c, x) ==
    /\ Admits(c) /\ Free(Storage)
    /\ loose' = IF Fits(Size[x]) THEN [loose EXCEPT ![c] = Size[x]] ELSE loose
    /\ Ends(c, "done")
    /\ UNCHANGED <<assets, versions, files, reserved, catalogue>>

\* backfillFormalReportAssetMappings, when the library is listed
Uncatalogued == {r \in Report : artifact[r].version # None /\ mapping[r] = NoEntry}

Backfill ==
    /\ Uncatalogued # {}
    /\ mapping' = [r \in Report |-> IF r \in Uncatalogued
                                    THEN [asset |-> artifact[r].asset,
                                          version |-> artifact[r].version, by |-> "backfill"]
                                    ELSE mapping[r]]
    /\ UNCHANGED <<library, artifact, calls>>
-----------------------------------------------------------------------------
Init ==
    /\ assets = [a \in Call |-> NoAsset]
    /\ versions = [v \in Call |-> NoVersion]
    /\ files = {}
    /\ reserved = [c \in Call |-> 0]
    /\ loose = [c \in Call |-> 0]
    /\ artifact = [r \in Report |-> NoRow]
    /\ mapping = [r \in Report |-> NoEntry]
    /\ holder = [k \in LockKey |-> None]
    /\ step = [c \in Call |-> "new"]
    /\ task = [c \in Call |-> NoTask]
    /\ stalled = {}

Request(c) ==
    \/ \E r \in Report, x \in Content : AskPublish(c, r, x)
    \/ \E k \in UserKey, x \in Content : AskCreate(c, k, x)
    \/ \E a \in Call, x \in Content, k \in UserKey : AskUpload(c, a, x, k)
    \/ \E a, v \in Call, k \in UserKey : AskRestore(c, a, v, k)
    \/ \E r \in Report : AskSave(c, r)
    \/ \E a \in Call : AskDelete(c, a)
    \/ \E x \in Content : RegisterLoose(c, x)

Work(c) ==
    \/ Look(c) \/ LookFirst(c) \/ LockAsset(c) \/ Replay(c) \/ Conflict(c) \/ Refuse(c)
    \/ Reserve(c) \/ Stage(c) \/ StageFails(c) \/ Commit(c) \/ CommitFails(c) \/ Undo(c)
    \/ Row(c) \/ Map(c) \/ Bind(c)
    \/ DeleteRows(c) \/ DeleteNothing(c) \/ RemoveFiles(c) \/ GivesUp(c)

Next ==
    \/ \E c \in Call : Request(c) \/ Work(c) \/ Crash(c) \/ Stall(c) \/ Lapse(c)
    \/ \E a \in Call : Archive(a)
    \/ Backfill

Spec == Init /\ [][Next]_vars
-----------------------------------------------------------------------------
(* Properties *)

Steps == {"new", "review", "replay", "asset", "storage", "stage", "commit", "undo", "row", "map",
          "bind", "remove", "done", "conflict", "dead"}
MaybeCall == Call \cup {None}
MaybeContent == Content \cup {None}
Source == {"none", "system", "upload", "restore", "conversation"}

TaskRecord == [kind : {"none", "publish", "write", "save", "delete"}, report : Report \cup {None},
               op : {"none", "create", "upload"}, asset : MaybeCall, content : MaybeContent,
               source : Source, key : Key, expected : MaybeCall, parent : MaybeCall,
               version : MaybeCall, doomed : SUBSET Call]

\* Type of the state of the library, the catalogue and the calls.
TypeOK ==
    /\ assets \in [Call -> [status : {"none", "active", "archived", "deleted"}, head : MaybeCall]]
    /\ versions \in [Call -> [asset : MaybeCall, content : MaybeContent, source : Source, key : Key,
                              op : {"none", "create", "upload"}, expected : MaybeCall,
                              parent : MaybeCall]]
    /\ files \in SUBSET Call
    /\ reserved \in [Call -> Nat] /\ loose \in [Call -> Nat]
    /\ artifact \in [Report -> [asset : MaybeCall, version : MaybeCall, content : MaybeContent]]
    /\ mapping \in [Report -> [asset : MaybeCall, version : MaybeCall,
                               by : {"none", "publish", "backfill"}]]
    /\ holder \in [LockKey -> MaybeCall]
    /\ step \in [Call -> Steps]
    /\ task \in [Call -> TaskRecord]
    /\ stalled \in SUBSET Call

\* What the user stores never exceeds the limit, although a reservation stops
\* counting when it expires, its process may be dead, and a stalled writer has
\* lost the lock that kept others out (user-storage-quota.ts).
QuotaHolds == Used(versions, loose) <= Limit

\* Every version in the table has its file, through failed and interrupted
\* writes and deletions, and an asset the user sees has one of its own versions
\* as its head (createUserAsset, uploadUserAssetVersion, deleteUserAsset).
LibraryOpens ==
    /\ \A v \in Stored : v \in files
    /\ \A a \in Call : Listed(a) => assets[a].head \in VersionsOf(a)

\* As long as nobody lost a lock, a writer that has staged its file finds in its
\* transaction what it found before: an active asset, the head it expected and
\* no other version with its key ("authoritative recheck", user-assets.ts).
StagedIsCurrent ==
    stalled = {} => \A c \in Call : step[c] = "commit" => StillValid(c)

\* An entry of the catalogue that a publication registered names an asset and a
\* version of it that exist, whatever was deleted meanwhile (assertBackingInScope).
RegisteredIsBacked ==
    \A r \in Report : mapping[r].by = "publish" =>
        Listed(mapping[r].asset) /\ mapping[r].version \in VersionsOf(mapping[r].asset)

\* The service never puts its output on top of a version the user made: a head
\* of the system replaces a head of the system (publishReviewArtifactVariant).
UserHeadKept ==
    [][\A a \in Call :
        /\ assets'[a].head # assets[a].head /\ assets[a].head # None /\ assets'[a].head # None
        /\ versions'[assets'[a].head].source = "system"
        => versions[assets[a].head].source = "system"]_vars
=============================================================================
