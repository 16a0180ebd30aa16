------------------------- MODULE ReportLibraryProofs -------------------------
(***************************************************************************)
(* Theorems about ReportLibrary, for any calls, reviews, contents and      *)
(* sizes, any limit and any number of faults.  The invariant is built in   *)
(* layers: types and what a call is for, the library with its catalogue,   *)
(* what the locks add as long as nobody loses one, and the storage account *)
(* with the finite sums it is made of.                                     *)
(***************************************************************************)
EXTENDS ReportLibrary, FiniteSetTheorems, TLAPS

-----------------------------------------------------------------------------
(* Types, and what a call at a step is for *)

Meets(t, s) ==
    /\ s \notin {"new", "done", "conflict", "dead"} => t.kind # "none"
    /\ t.kind \notin {"none", "delete"} => t.content \in Content
    /\ t.kind \in {"publish", "save"} => t.report \in Report
    /\ t.kind = "delete" \/ t.op = "upload" \/ s = "asset" => t.asset \in Call
    /\ s \in {"replay", "stage", "commit", "undo", "row", "map", "bind"} => t.kind # "delete"
    /\ s \in {"replay", "storage", "stage", "commit"} /\ t.kind # "delete" => t.op # "none"
    /\ s = "asset" /\ t.kind # "delete" => t.op = "upload"
    /\ s = "replay" => t.op = "create"
    /\ s = "review" => t.kind = "publish"
    /\ s \in {"row", "map", "bind"} => t.kind \in {"publish", "save"}

TaskFits == \A c \in Call : Meets(task[c], step[c])

\* A version in the table has a content.
RowFits == \A v \in Call : HasRow(v) => versions[v].content \in Content

Typed == TypeOK /\ TaskFits /\ RowFits

LEMMA TypedInit == Init => Typed
BY LibraryAssumption DEF LibraryAssumption, Init, Typed, TypeOK, TaskFits, Meets, RowFits, HasRow, NoAsset,
   NoVersion, NoRow, NoEntry, NoTask, NoKey, Key, TaskRecord, MaybeCall, MaybeContent, Source, Steps

LEMMA KeyType ==
    /\ NoKey \in Key
    /\ \A k \in UserKey : <<"client", k>> \in Key
    /\ \A r \in Report : <<"asset", r>> \in Key /\ <<"saved", r>> \in Key
    /\ \A r \in Report, x \in Content : <<"replacement", r, x>> \in Key /\ <<"version", r, x>> \in Key
<1>1. \A r \in Report, x \in Content : <<"replacement", r, x>> \in {<<"replacement", q, y>> : q \in Report, y \in Content}
                                       /\ <<"version", r, x>> \in {<<"version", q, y>> : q \in Report, y \in Content}
    OBVIOUS
<1>2. \A k \in UserKey : <<"client", k>> \in {<<"client", j>> : j \in UserKey}
    OBVIOUS
<1>3. \A r \in Report : <<"asset", r>> \in {<<"asset", q>> : q \in Report}
                        /\ <<"saved", r>> \in {<<"saved", q>> : q \in Report}
    OBVIOUS
<1> QED
    BY <1>1, <1>2, <1>3 DEF Key

\* A call that asks.
LEMMA AsksType ==
    ASSUME Typed, NEW c \in Call, NEW s \in Steps, NEW t \in TaskRecord, Asks(c, s, t), Meets(t, s)
    PROVE  Typed'
BY DEF Asks, Goes, library, catalogue, Typed, TypeOK, TaskFits, RowFits, HasRow

\* A call that goes on.
LEMMA StepType ==
    ASSUME Typed, NEW c \in Call, NEW s \in Steps, NEW t \in TaskRecord, Goes(c, s), Meets(t, s),
           task' = [task EXCEPT ![c] = t]
    PROVE  step' \in [Call -> Steps] /\ task' \in [Call -> TaskRecord] /\ TaskFits'
BY DEF Goes, Typed, TypeOK, TaskFits

\* A call that ends.
LEMMA EndsType ==
    ASSUME Typed, NEW c \in Call, NEW how \in {"done", "conflict", "dead"}, Ends(c, how)
    PROVE  /\ holder' \in [LockKey -> MaybeCall] /\ step' \in [Call -> Steps]
           /\ task' \in [Call -> TaskRecord] /\ stalled' \in SUBSET Call /\ TaskFits'
BY DEF Ends, Goes, Without, Typed, TypeOK, TaskFits, Meets, NoTask, NoKey, Key, TaskRecord, MaybeCall,
   MaybeContent, Source, Steps

\* A call whose version is there.
LEMMA ContinuesType ==
    ASSUME Typed, NEW c \in Call, NEW a \in Call, NEW v \in MaybeCall, Continues(c, a, v),
           step[c] \in {"replay", "storage", "commit"}, task[c].kind # "delete"
    PROVE  /\ holder' \in [LockKey -> MaybeCall] /\ step' \in [Call -> Steps]
           /\ task' \in [Call -> TaskRecord] /\ stalled' \in SUBSET Call /\ TaskFits'
<1>1. CASE task[c].kind = "write"
    BY <1>1, EndsType DEF Continues
<1>2. CASE task[c].kind # "write"
    <2> DEFINE s == IF task[c].kind = "publish" THEN "row" ELSE "bind"
    <2>1. step' = [step EXCEPT ![c] = s] /\ holder' = WithoutStorage(c) /\ stalled' = stalled
          /\ task' = [task EXCEPT ![c].asset = a, ![c].version = v]
        BY <1>2 DEF Continues, Goes
    <2>2. task[c] \in TaskRecord /\ Meets(task[c], step[c])
        BY DEF Typed, TypeOK, TaskFits
    <2>3. task' = [task EXCEPT ![c] = [task[c] EXCEPT !.asset = a, !.version = v]]
        BY <2>1, <2>2 DEF Typed, TypeOK, TaskRecord
    <2> DEFINE t == [task[c] EXCEPT !.asset = a, !.version = v]
    <2>4. t \in TaskRecord
        BY <2>2 DEF TaskRecord, MaybeCall
    <2>7. task[c].kind \in {"publish", "save"}
        BY <1>2, <2>2 DEF TaskRecord, Meets
    <2>8. /\ t.kind = task[c].kind /\ t.content = task[c].content /\ t.report = task[c].report
          /\ t.asset = a
        BY <2>2 DEF TaskRecord
    <2>9. Meets(t, s)
        BY <2>2, <2>7, <2>8 DEF Meets
    <2>5. s \in Steps
        BY DEF Steps
    <2> HIDE DEF s, t
    <2>6. task' \in [Call -> TaskRecord] /\ step' \in [Call -> Steps] /\ TaskFits'
        BY <2>1, <2>3, <2>4, <2>5, <2>9 DEF Typed, TypeOK, TaskFits, t
    <2> QED
        BY <2>1, <2>6 DEF WithoutStorage, Typed, TypeOK, MaybeCall
<1> QED
    BY <1>1, <1>2

LEMMA TypedRequest ==
    ASSUME Typed, NEW c \in Call, Request(c)
    PROVE  Typed'
<1>1. ASSUME NEW r \in Report, NEW x \in Content, AskPublish(c, r, x) PROVE Typed'
    <2> DEFINE t == [NoTask EXCEPT !.kind = "publish", !.report = r, !.content = x,
                                   !.source = "system"]
    <2>1. t \in TaskRecord /\ Meets(t, "review") /\ "review" \in Steps
        BY KeyType DEF TaskRecord, MaybeCall, MaybeContent, NoTask, Source, Steps, Meets
    <2>2. Asks(c, "review", t)
        BY <1>1 DEF AskPublish
    <2> HIDE DEF t
    <2> QED
        BY <2>1, <2>2, AsksType
<1>2. ASSUME NEW k \in UserKey, NEW x \in Content, AskCreate(c, k, x) PROVE Typed'
    <2> DEFINE t == [NoTask EXCEPT !.kind = "write", !.op = "create", !.content = x,
                                   !.source = "upload", !.key = <<"client", k>>]
    <2>1. t \in TaskRecord /\ Meets(t, "replay") /\ "replay" \in Steps
        BY KeyType DEF TaskRecord, MaybeCall, MaybeContent, NoTask, Source, Steps, Meets
    <2>2. Asks(c, "replay", t)
        BY <1>2 DEF AskCreate
    <2> HIDE DEF t
    <2> QED
        BY <2>1, <2>2, AsksType
<1>3. ASSUME NEW a \in Call, NEW x \in Content, NEW k \in UserKey, AskUpload(c, a, x, k) PROVE Typed'
    <2>3. assets[a].head \in MaybeCall
        BY DEF Typed, TypeOK
    <2> DEFINE t == [NoTask EXCEPT !.kind = "write", !.op = "upload", !.asset = a,
                                   !.content = x, !.source = "upload",
                                   !.key = <<"client", k>>, !.expected = assets[a].head]
    <2>1. t \in TaskRecord /\ Meets(t, "asset") /\ "asset" \in Steps
        BY <2>3, KeyType DEF TaskRecord, MaybeCall, MaybeContent, NoTask, Source, Steps, Meets
    <2>2. Asks(c, "asset", t)
        BY <1>3 DEF AskUpload
    <2> HIDE DEF t
    <2> QED
        BY <2>1, <2>2, AsksType
<1>4. ASSUME NEW a \in Call, NEW v \in Call, NEW k \in UserKey, AskRestore(c, a, v, k) PROVE Typed'
    <2>3. versions[v].content \in Content
        BY <1>4, LibraryAssumption DEF LibraryAssumption, AskRestore, Readable, Typed, RowFits, HasRow
    <2> DEFINE t == [NoTask EXCEPT !.kind = "write", !.op = "upload", !.asset = a,
                                   !.content = versions[v].content, !.source = "restore",
                                   !.key = <<"client", k>>, !.parent = v]
    <2>1. t \in TaskRecord /\ Meets(t, "asset") /\ "asset" \in Steps
        BY <2>3, KeyType DEF TaskRecord, MaybeCall, MaybeContent, NoTask, Source, Steps, Meets
    <2>2. Asks(c, "asset", t)
        BY <1>4 DEF AskRestore
    <2> HIDE DEF t
    <2> QED
        BY <2>1, <2>2, AsksType
<1>5. ASSUME NEW r \in Report, AskSave(c, r) PROVE Typed'
    <2>3. artifact[r].content \in Content
        <3>1. artifact[r].version \in Call
            BY <1>5 DEF AskSave, Opens, Typed, TypeOK, MaybeCall
        <3>2. HasRow(artifact[r].version) /\ versions[artifact[r].version].content = artifact[r].content
            BY <1>5 DEF AskSave, Opens, Readable
        <3> QED
            BY <3>1, <3>2 DEF Typed, RowFits
    <2> DEFINE t == [NoTask EXCEPT !.kind = "save", !.op = "create", !.report = r,
                                   !.content = artifact[r].content,
                                   !.source = "conversation", !.key = <<"saved", r>>]
    <2>1. t \in TaskRecord /\ Meets(t, "replay") /\ "replay" \in Steps
        BY <2>3, KeyType DEF TaskRecord, MaybeCall, MaybeContent, NoTask, Source, Steps, Meets
    <2>2. Asks(c, "replay", t)
        BY <1>5 DEF AskSave
    <2> HIDE DEF t
    <2> QED
        BY <2>1, <2>2, AsksType
<1>6. ASSUME NEW a \in Call, AskDelete(c, a) PROVE Typed'
    <2> DEFINE t == [NoTask EXCEPT !.kind = "delete", !.asset = a]
    <2>1. t \in TaskRecord /\ Meets(t, "asset") /\ "asset" \in Steps
        BY KeyType DEF TaskRecord, MaybeCall, MaybeContent, NoTask, Source, Steps, Meets
    <2>2. Asks(c, "asset", t)
        BY <1>6 DEF AskDelete
    <2> HIDE DEF t
    <2> QED
        BY <2>1, <2>2, AsksType
<1>7. ASSUME NEW x \in Content, RegisterLoose(c, x) PROVE Typed'
    <2>1. Size[x] \in Nat
        BY LibraryAssumption DEF LibraryAssumption
    <2> QED
        BY <1>7, <2>1, EndsType DEF RegisterLoose, Typed, TypeOK, RowFits, HasRow, catalogue
<1> QED
    BY <1>1, <1>2, <1>3, <1>4, <1>5, <1>6, <1>7 DEF Request

\* The look a publication takes at what is there.
LEMMA TypedLook ==
    ASSUME Typed, NEW c \in Call, Look(c)
    PROVE  Typed'
<1> DEFINE r == task[c].report
           x == task[c].content
           a == artifact[r].asset
<1>1. task[c] \in TaskRecord /\ Meets(task[c], "review") /\ r \in Report /\ x \in Content
    BY DEF Typed, TypeOK, TaskFits, Look, Meets
<1>2. a \in MaybeCall
    BY <1>1 DEF Typed, TypeOK
<1>3. a # None => a \in Call /\ assets[a].head \in MaybeCall
    BY <1>2 DEF Typed, TypeOK, MaybeCall
<1>4. /\ holder' \in [LockKey -> MaybeCall] /\ stalled' = stalled
      /\ UNCHANGED <<library, catalogue>>
    BY DEF Look, Typed, TypeOK, MaybeCall
<1>5. CASE /\ ServiceAsset(a)
          /\ task' = [task EXCEPT ![c].asset = a, ![c].version = assets[a].head]
          /\ Goes(c, "row")
    <2> DEFINE t == [task[c] EXCEPT !.asset = a, !.version = assets[a].head]
    <2>1. task' = [task EXCEPT ![c] = t]
        BY <1>1, <1>5 DEF Typed, TypeOK, TaskRecord
    <2>2. t \in TaskRecord /\ Meets(t, "row") /\ "row" \in Steps
        BY <1>1, <1>2, <1>3, KeyType, <1>5 DEF TaskRecord, MaybeCall, Steps, Meets, ServiceAsset
    <2> HIDE DEF t
    <2> QED
        BY <1>3, <1>4, <1>5, <2>1, <2>2, StepType DEF Typed, TypeOK, RowFits, HasRow, library, catalogue
<1>6. CASE /\ ServiceAsset(a)
          /\ task' = [task EXCEPT ![c].op = "upload", ![c].asset = a,
                                ![c].key = <<"version", r, x>>,
                                ![c].expected = assets[a].head]
          /\ Goes(c, "asset")
    <2> DEFINE t == [task[c] EXCEPT !.op = "upload", !.asset = a, !.key = <<"version", r, x>>,
                                   !.expected = assets[a].head]
    <2>1. task' = [task EXCEPT ![c] = t]
        BY <1>1, <1>6 DEF Typed, TypeOK, TaskRecord
    <2>2. t \in TaskRecord /\ Meets(t, "asset") /\ "asset" \in Steps
        BY <1>1, <1>2, <1>3, KeyType, <1>6 DEF TaskRecord, MaybeCall, Steps, Meets, ServiceAsset
    <2> HIDE DEF t
    <2> QED
        BY <1>3, <1>4, <1>6, <2>1, <2>2, StepType DEF Typed, TypeOK, RowFits, HasRow, library, catalogue
<1>7. CASE /\ ~ServiceAsset(a)
          /\ task' = [task EXCEPT ![c].op = "create",
                                ![c].key = IF a = None THEN <<"asset", r>>
                                           ELSE <<"replacement", r, x>>]
          /\ Goes(c, "replay")
    <2> DEFINE t == [task[c] EXCEPT !.op = "create", !.key = IF a = None THEN <<"asset", r>>
                                                         ELSE <<"replacement", r, x>>]
    <2>1. task' = [task EXCEPT ![c] = t]
        BY <1>1, <1>7 DEF Typed, TypeOK, TaskRecord
    <2>2. t \in TaskRecord /\ Meets(t, "replay") /\ "replay" \in Steps
        BY <1>1, <1>2, <1>3, KeyType, <1>7 DEF TaskRecord, MaybeCall, Steps, Meets, ServiceAsset
    <2> HIDE DEF t
    <2> QED
        BY <1>3, <1>4, <1>7, <2>1, <2>2, StepType DEF Typed, TypeOK, RowFits, HasRow, library, catalogue
<1> QED
    BY <1>5, <1>6, <1>7 DEF Look

\* Another step of a call that keeps its task.
LEMMA SameTaskType ==
    ASSUME Typed, NEW c \in Call, NEW s \in Steps, Goes(c, s), task' = task, Meets(task[c], s)
    PROVE  step' \in [Call -> Steps] /\ TaskFits'
BY DEF Goes, Typed, TypeOK, TaskFits

LEMMA TypedWork ==
    ASSUME Typed, NEW c \in Call, Work(c)
    PROVE  Typed'
<1> USE DEF catalogue, library
<1>0. task[c] \in TaskRecord /\ Meets(task[c], step[c]) /\ step[c] \in Steps
    BY DEF Typed, TypeOK, TaskFits
<1>2. CASE LookFirst(c)
    <2>1. Meets(task[c], "storage")
        BY <1>0, <1>2 DEF LookFirst, Meets
    <2> QED
        BY <1>2, <2>1, SameTaskType DEF LookFirst, Steps, Typed, TypeOK, RowFits, HasRow
<1>3. CASE LockAsset(c)
    <2>1. Meets(task[c], "storage")
        BY <1>0, <1>3 DEF LockAsset, Meets
    <2> QED
        BY <1>3, <2>1, SameTaskType DEF LockAsset, Steps, Typed, TypeOK, RowFits, HasRow, MaybeCall
<1>4. CASE Replay(c)
    <2>1. PICK v \in Found(c) : Continues(c, versions[v].asset, assets[versions[v].asset].head)
        BY <1>4 DEF Replay
    <2>2. v \in Call /\ versions[v].asset \in Call
        BY <2>1 DEF Found, Keyed, Stored, HasRow, Typed, TypeOK, MaybeCall
    <2>3. assets[versions[v].asset].head \in MaybeCall
        BY <2>2 DEF Typed, TypeOK
    <2>4. step[c] \in {"replay", "storage"} /\ task[c].kind # "delete"
        BY <1>0, <2>1 DEF Found, LooksUp, InStorage, Meets
    <2> QED
        BY <1>4, <2>1, <2>2, <2>3, <2>4, ContinuesType DEF Replay, Typed, TypeOK, RowFits, HasRow
<1>5. CASE Conflict(c)
    BY <1>5, EndsType DEF Conflict, Typed, TypeOK, RowFits, HasRow
<1>6. CASE Refuse(c)
    BY <1>6, EndsType DEF Refuse, Typed, TypeOK, RowFits, HasRow
<1>7. CASE Reserve(c)
    <2>1. Size[task[c].content] \in Nat
        BY <1>0, <1>7, LibraryAssumption DEF LibraryAssumption, Reserve, InStorage, Meets
    <2>2. UNCHANGED <<assets, versions, files, loose, catalogue>>
        BY <1>7 DEF Reserve
    <2>3. CASE /\ reserved' = [reserved EXCEPT ![c] = Size[task[c].content]]
               /\ holder' = [holder EXCEPT ![Storage] = c]
               /\ Goes(c, "stage")
               /\ UNCHANGED <<task, stalled>>
        <3>1. Meets(task[c], "stage")
            BY <1>0, <1>7 DEF Reserve, InStorage, Meets
        <3> QED
            BY <2>1, <2>2, <2>3, <3>1, SameTaskType DEF Steps, Typed, TypeOK, RowFits, HasRow, MaybeCall
    <2>4. CASE Ends(c, "done") /\ UNCHANGED reserved
        BY <2>2, <2>4, EndsType DEF Typed, TypeOK, RowFits, HasRow
    <2> QED
        BY <1>7, <2>3, <2>4 DEF Reserve
<1>8. CASE Stage(c)
    <2>1. Meets(task[c], "commit")
        BY <1>0, <1>8 DEF Stage, Meets
    <2> QED
        BY <1>8, <2>1, SameTaskType DEF Stage, Steps, Typed, TypeOK, RowFits, HasRow
<1>9. CASE StageFails(c)
    BY <1>9, EndsType DEF StageFails, Typed, TypeOK, RowFits, HasRow
<1>10. CASE Commit(c)
    <2>1. /\ step[c] = "commit" /\ task[c].kind \notin {"none", "delete"} /\ task[c].op \in {"create", "upload"}
          /\ Target(c) \in Call /\ task[c].content \in Content
        BY <1>0, <1>10 DEF Commit, Meets, Target, TaskRecord
    <2>2. /\ versions'[c].asset = Target(c) /\ versions'[c].content = task[c].content
          /\ \A v \in Call : v # c => versions'[v] = versions[v]
          /\ versions' = [versions EXCEPT ![c] = versions'[c]]
          /\ versions'[c] = [asset |-> Target(c), content |-> task[c].content, source |-> task[c].source,
                             key |-> task[c].key, op |-> task[c].op, expected |-> task[c].expected,
                             parent |-> task[c].parent]
        BY <1>10 DEF Commit, WithVersion, Typed, TypeOK
    <2>3. versions' \in [Call -> [asset : MaybeCall, content : MaybeContent, source : Source, key : Key,
                                  op : {"none", "create", "upload"}, expected : MaybeCall,
                                  parent : MaybeCall]]
        BY <1>0, <2>1, <2>2 DEF Typed, TypeOK, TaskRecord, MaybeCall, MaybeContent
    <2>4. RowFits'
        BY <2>1, <2>2 DEF Typed, RowFits, HasRow
    <2>5. assets' \in [Call -> [status : {"none", "active", "archived", "deleted"}, head : MaybeCall]]
        BY <1>10, <2>1 DEF Commit, Typed, TypeOK, MaybeCall
    <2>6. c \in MaybeCall
        BY DEF MaybeCall
    <2> QED
        BY <1>10, <2>1, <2>3, <2>4, <2>5, <2>6, ContinuesType DEF Commit, Typed, TypeOK
<1>11. CASE CommitFails(c)
    <2>1. Meets(task[c], "undo")
        BY <1>0, <1>11 DEF CommitFails, Meets
    <2> QED
        BY <1>11, <2>1, SameTaskType DEF CommitFails, Steps, Typed, TypeOK, RowFits, HasRow
<1>12. CASE Undo(c)
    BY <1>12, EndsType DEF Undo, Typed, TypeOK, RowFits, HasRow
<1>13. CASE Row(c)
    <2>1. Meets(task[c], "map")
        BY <1>0, <1>13 DEF Row, Meets
    <2>2. artifact' \in [Report -> [asset : MaybeCall, version : MaybeCall, content : MaybeContent]]
        BY <1>0, <1>13 DEF Row, Typed, TypeOK, TaskRecord
    <2> QED
        BY <1>13, <2>1, <2>2, SameTaskType DEF Row, Steps, Typed, TypeOK, RowFits, HasRow
<1>14. CASE Map(c)
    <2>1. mapping' \in [Report -> [asset : MaybeCall, version : MaybeCall,
                                   by : {"none", "publish", "backfill"}]]
        BY <1>0, <1>14 DEF Map, Typed, TypeOK, TaskRecord
    <2> QED
        BY <1>14, <2>1, EndsType DEF Map, Typed, TypeOK, RowFits, HasRow
<1>15. CASE Bind(c)
    <2> DEFINE r == task[c].report
               row == [artifact[r] EXCEPT !.asset = task[c].asset, !.version = task[c].version]
    <2>2. r \in Report
        BY <1>0, <1>15 DEF Bind, Meets
    <2>3. row \in [asset : MaybeCall, version : MaybeCall, content : MaybeContent]
        <3>1. artifact[r] \in [asset : MaybeCall, version : MaybeCall, content : MaybeContent]
            BY <2>2 DEF Typed, TypeOK
        <3>2. task[c].asset \in MaybeCall /\ task[c].version \in MaybeCall
            BY <1>0 DEF TaskRecord
        <3> QED
            BY <3>1, <3>2
    <2>4. artifact' = [artifact EXCEPT ![r] = row]
        BY <1>15, <2>2 DEF Bind, Typed, TypeOK
    <2> HIDE DEF row
    <2>1. artifact' \in [Report -> [asset : MaybeCall, version : MaybeCall, content : MaybeContent]]
        BY <2>2, <2>3, <2>4 DEF Typed, TypeOK
    <2> QED
        BY <1>15, <2>1, EndsType DEF Bind, Typed, TypeOK, RowFits, HasRow
<1>16. CASE DeleteRows(c)
    <2> DEFINE a == task[c].asset
               t == [task[c] EXCEPT !.doomed = VersionsOf(a)]
    <2>1. a \in Call /\ Meets(t, "remove") /\ t \in TaskRecord
        BY <1>0, <1>16 DEF DeleteRows, InDelete, Meets, TaskRecord, VersionsOf
    <2>2. task' = [task EXCEPT ![c] = t]
        BY <1>0, <1>16 DEF DeleteRows, Typed, TypeOK, TaskRecord
    <2>3. mapping' \in [Report -> [asset : MaybeCall, version : MaybeCall,
                                   by : {"none", "publish", "backfill"}]]
        BY <1>16 DEF DeleteRows, Typed, TypeOK, NoEntry, MaybeCall
    <2>8. RowFits'
        <3>1. \A v \in Call : versions'[v] = IF versions[v].asset = a THEN NoVersion ELSE versions[v]
            BY <1>16 DEF DeleteRows
        <3>2. NoVersion.asset = None
            BY DEF NoVersion
        <3> QED
            BY <3>1, <3>2 DEF Typed, RowFits, HasRow
    <2>4. NoVersion \in [asset : MaybeCall, content : MaybeContent, source : Source, key : Key,
                         op : {"none", "create", "upload"}, expected : MaybeCall, parent : MaybeCall]
        BY KeyType DEF NoVersion, MaybeCall, MaybeContent, Source
    <2>5. versions' \in [Call -> [asset : MaybeCall, content : MaybeContent, source : Source, key : Key,
                                  op : {"none", "create", "upload"}, expected : MaybeCall,
                                  parent : MaybeCall]]
        BY <1>16, <2>4 DEF DeleteRows, Typed, TypeOK
    <2>6. assets' \in [Call -> [status : {"none", "active", "archived", "deleted"}, head : MaybeCall]]
        BY <1>16, <2>1 DEF DeleteRows, Typed, TypeOK, MaybeCall
    <2>7. "remove" \in Steps /\ Goes(c, "remove")
        BY <1>16 DEF Steps, DeleteRows
    <2> HIDE DEF t
    <2> QED
        BY <1>16, <2>1, <2>2, <2>3, <2>5, <2>6, <2>7, <2>8, StepType DEF DeleteRows, Typed, TypeOK, MaybeCall
<1>17. CASE DeleteNothing(c)
    BY <1>17, EndsType DEF DeleteNothing, Typed, TypeOK, RowFits, HasRow
<1>18. CASE RemoveFiles(c)
    BY <1>18, EndsType DEF RemoveFiles, Typed, TypeOK, RowFits, HasRow
<1>19. CASE GivesUp(c)
    BY <1>19, EndsType DEF GivesUp, Typed, TypeOK, RowFits, HasRow
<1> QED
    BY <1>2, <1>3, <1>4, <1>5, <1>6, <1>7, <1>8, <1>9, <1>10, <1>11, <1>12, <1>13, <1>14, <1>15, <1>16,
       <1>17, <1>18, <1>19, TypedLook DEF Work

LEMMA TypedNext == Typed /\ [Next]_vars => Typed'
<1> SUFFICES ASSUME Typed, [Next]_vars PROVE Typed'
    OBVIOUS
<1>1. ASSUME NEW c \in Call, Request(c) \/ Work(c) PROVE Typed'
    BY <1>1, TypedRequest, TypedWork
<1>2. ASSUME NEW c \in Call, Crash(c) PROVE Typed'
    BY <1>2, EndsType DEF Crash, Typed, TypeOK, RowFits, HasRow, library, catalogue
<1>3. ASSUME NEW c \in Call, Stall(c) PROVE Typed'
    BY <1>3 DEF Stall, Without, Typed, TypeOK, TaskFits, RowFits, HasRow, library, catalogue, MaybeCall
<1>4. ASSUME NEW c \in Call, Lapse(c) PROVE Typed'
    BY <1>4 DEF Lapse, Typed, TypeOK, TaskFits, RowFits, HasRow, catalogue, calls
<1>5. ASSUME NEW a \in Call, Archive(a) PROVE Typed'
    BY <1>5 DEF Archive, Typed, TypeOK, TaskFits, RowFits, HasRow, catalogue, calls
<1>6. CASE Backfill
    BY <1>6 DEF Backfill, Typed, TypeOK, TaskFits, RowFits, HasRow, library, calls
<1>7. CASE UNCHANGED vars
    BY <1>7 DEF vars, library, catalogue, calls, Typed, TypeOK, TaskFits, RowFits, HasRow
<1> QED
    BY <1>1, <1>2, <1>3, <1>4, <1>5, <1>6, <1>7 DEF Next

\* The state keeps its type.
THEOREM TypeCorrect == Spec => []TypeOK
<1>1. Typed => TypeOK
    BY DEF Typed
<1> QED
    BY <1>1, TypedInit, TypedNext, PTL DEF Spec
-----------------------------------------------------------------------------
(* The library and the catalogue *)

\* A call at one of these steps has not made its version.
Before == {"new", "review", "replay", "asset", "storage", "stage", "commit", "undo"}

\* A version in the table is of a call past its commit, has its file, and its asset is listed.
RowsOK ==
    \A v \in Call : HasRow(v) => /\ v \in files /\ step[v] \notin Before
                                 /\ versions[v].asset \in Call /\ Listed(versions[v].asset)

HeadsOK == \A a \in Call : Listed(a) => assets[a].head \in Call /\ versions[assets[a].head].asset = a

\* A call before its commit has no asset of its name, and has its file when it has staged it.
FreshOK ==
    \A c \in Call : /\ step[c] \in Before => assets[c] = NoAsset
                    /\ step[c] = "commit" => c \in files

\* The versions a deletion removes the files of are not in the table and do not come back.
Doomed(c) == \A v \in Call : v \in task[c].doomed => ~HasRow(v) /\ step[v] \notin Before

\* A publication that goes on has an asset and a version.
Bound(c) == step[c] \in {"row", "map", "bind"} => task[c].asset \in Call /\ task[c].version \in Call

\* A publication that appends has found a version of the system.
Appends(c) ==
    task[c].source = "system" /\ task[c].op = "upload" =>
        LET e == task[c].expected
        IN /\ e \in Call /\ step[e] \notin Before
           /\ HasRow(e) => versions[e].source = "system"

CallsOK == \A c \in Call : Doomed(c) /\ Bound(c) /\ Appends(c)

MappedOK ==
    \A r \in Report : mapping[r].by = "publish" =>
        /\ mapping[r].asset \in Call /\ mapping[r].version \in Call
        /\ Listed(mapping[r].asset) /\ versions[mapping[r].version].asset = mapping[r].asset

LibraryInv == RowsOK /\ HeadsOK /\ FreshOK /\ CallsOK /\ MappedOK

LEMMA LibraryInit == Init => LibraryInv
BY LibraryAssumption DEF LibraryAssumption, Init, LibraryInv, RowsOK, HeadsOK, FreshOK, CallsOK, Doomed, Bound,
   Appends, MappedOK, HasRow, Listed, NoAsset, NoVersion, NoEntry, NoTask, Before

\* Only one call moves.
Alone(c) == \A d \in Call \ {c} : step'[d] = step[d] /\ task'[d] = task[d]

LEMMA GoesAlone ==
    ASSUME Typed, NEW c \in Call, NEW s, NEW t, Goes(c, s), task' = [task EXCEPT ![c] = t]
    PROVE  Alone(c) /\ step'[c] = s /\ task'[c] = t
BY DEF Goes, Alone, Typed, TypeOK

LEMMA EndsAlone ==
    ASSUME Typed, NEW c \in Call, NEW how \in {"done", "conflict", "dead"}, Ends(c, how)
    PROVE  Alone(c) /\ step'[c] = how /\ task'[c] = NoTask
BY DEF Ends, Goes, Alone, Typed, TypeOK

LEMMA KeepsAlone ==
    ASSUME Typed, NEW c \in Call, NEW s, Goes(c, s), task' = task
    PROVE  Alone(c) /\ step'[c] = s /\ task'[c] = task[c]
BY DEF Goes, Alone, Typed, TypeOK

\* A version is there: the call ends or goes on with it.
LEMMA ContinuesAlone ==
    ASSUME Typed, NEW c \in Call, NEW a, NEW v, Continues(c, a, v)
    PROVE  /\ Alone(c) /\ step'[c] \in {"done", "row", "bind"}
           /\ \/ task'[c] = NoTask /\ step'[c] = "done"
              \/ task'[c] = [task[c] EXCEPT !.asset = a, !.version = v]
<1>1. CASE task[c].kind = "write"
    BY <1>1, EndsAlone DEF Continues
<1>2. CASE task[c].kind # "write"
    BY <1>2 DEF Continues, Goes, Alone, Typed, TypeOK, TaskRecord
<1> QED
    BY <1>1, <1>2

\* A step of one call that leaves the tables, the files and the catalogue alone.
LEMMA Quiet ==
    ASSUME Typed, LibraryInv, NEW c \in Call, Alone(c),
           UNCHANGED <<assets, versions, files, mapping>>,
           step'[c] \in Before => step[c] \in Before /\ step'[c] # "commit",
           task'[c].doomed \subseteq task[c].doomed, Bound(c)', Appends(c)'
    PROVE  LibraryInv'
<1>1. \A d \in Call : step'[d] \in Before => step[d] \in Before
    BY DEF Alone
<1>2. RowsOK' /\ HeadsOK' /\ MappedOK'
    BY <1>1 DEF LibraryInv, RowsOK, HeadsOK, MappedOK, HasRow, Listed
<1>3. FreshOK'
    BY <1>1 DEF LibraryInv, FreshOK, Alone, Before
<1>4. \A d \in Call : Doomed(d)'
    BY <1>1 DEF LibraryInv, CallsOK, Doomed, Alone, HasRow
<1>5. \A d \in Call \ {c} : Bound(d)' /\ Appends(d)'
    BY <1>1 DEF LibraryInv, CallsOK, Bound, Appends, Alone, HasRow
<1> QED
    BY <1>2, <1>3, <1>4, <1>5 DEF LibraryInv, CallsOK

LEMMA AskQuiet ==
    ASSUME Typed, LibraryInv, NEW c \in Call, NEW s \in {"review", "replay", "asset"}, NEW t,
           Asks(c, s, t), t.doomed = {}, t.source = "system" => t.op # "upload"
    PROVE  LibraryInv'
<1>1. Alone(c) /\ step'[c] = s /\ task'[c] = t
    BY GoesAlone DEF Asks
<1>2. UNCHANGED <<assets, versions, files, mapping>> /\ step[c] = "new"
    BY DEF Asks, Admits, library, catalogue
<1>3. Bound(c)' /\ Appends(c)'
    BY <1>1 DEF Bound, Appends
<1> QED
    BY <1>1, <1>2, <1>3, Quiet DEF Before

LEMMA EndQuiet ==
    ASSUME Typed, LibraryInv, NEW c \in Call, NEW how \in {"done", "conflict", "dead"}, Ends(c, how),
           UNCHANGED <<assets, versions, files, mapping>>
    PROVE  LibraryInv'
<1>1. Alone(c) /\ step'[c] = how /\ task'[c] = NoTask
    BY EndsAlone
<1>2. Bound(c)' /\ Appends(c)' /\ task'[c].doomed = {}
    BY <1>1 DEF Bound, Appends, NoTask
<1> QED
    BY <1>1, <1>2, Quiet DEF Before

\* A call that goes on and keeps its task.
LEMMA KeepQuiet ==
    ASSUME Typed, LibraryInv, NEW c \in Call, NEW s \in Steps \ {"commit"}, Goes(c, s), task' = task,
           UNCHANGED <<assets, versions, files, mapping>>,
           s \in Before => step[c] \in Before,
           s \in {"row", "map", "bind"} => step[c] \in {"row", "map", "bind"}
    PROVE  LibraryInv'
<1>1. Alone(c) /\ step'[c] = s /\ task'[c] = task[c]
    BY KeepsAlone
<1>2. \A d \in Call : step'[d] \in Before => step[d] \in Before
    BY <1>1 DEF Alone
<1>3. Bound(c)' /\ Appends(c)'
    BY <1>1, <1>2 DEF LibraryInv, CallsOK, Bound, Appends, HasRow
<1> QED
    BY <1>1, <1>3, Quiet

LEMMA LibraryRequest ==
    ASSUME Typed, LibraryInv, NEW c \in Call, Request(c)
    PROVE  LibraryInv'
<1>1. ASSUME NEW r \in Report, NEW x \in Content, AskPublish(c, r, x) PROVE LibraryInv'
    BY <1>1, AskQuiet DEF AskPublish, NoTask
<1>2. ASSUME NEW k \in UserKey, NEW x \in Content, AskCreate(c, k, x) PROVE LibraryInv'
    BY <1>2, AskQuiet DEF AskCreate, NoTask
<1>3. ASSUME NEW a \in Call, NEW x \in Content, NEW k \in UserKey, AskUpload(c, a, x, k) PROVE LibraryInv'
    BY <1>3, AskQuiet DEF AskUpload, NoTask
<1>4. ASSUME NEW a \in Call, NEW v \in Call, NEW k \in UserKey, AskRestore(c, a, v, k) PROVE LibraryInv'
    BY <1>4, AskQuiet DEF AskRestore, NoTask
<1>5. ASSUME NEW r \in Report, AskSave(c, r) PROVE LibraryInv'
    BY <1>5, AskQuiet DEF AskSave, NoTask
<1>6. ASSUME NEW a \in Call, AskDelete(c, a) PROVE LibraryInv'
    BY <1>6, AskQuiet DEF AskDelete, NoTask
<1>7. ASSUME NEW x \in Content, RegisterLoose(c, x) PROVE LibraryInv'
    BY <1>7, EndQuiet DEF RegisterLoose, catalogue
<1> QED
    BY <1>1, <1>2, <1>3, <1>4, <1>5, <1>6, <1>7 DEF Request

LEMMA LibraryLook ==
    ASSUME Typed, LibraryInv, NEW c \in Call, Look(c)
    PROVE  LibraryInv'
<1> DEFINE a == artifact[task[c].report].asset
<1>1. /\ task[c] \in TaskRecord /\ step[c] = "review" /\ a \in MaybeCall
      /\ UNCHANGED <<assets, versions, files, mapping>>
    BY DEF Typed, TypeOK, TaskFits, Meets, Look, library, catalogue
<1>2. ServiceAsset(a) => /\ a \in Call /\ assets[a].head \in Call /\ HasRow(assets[a].head)
                         /\ step[assets[a].head] \notin Before
                         /\ versions[assets[a].head].source = "system"
    BY <1>1, LibraryAssumption DEF LibraryAssumption, ServiceAsset, HeadOf, Listed, LibraryInv, HeadsOK, RowsOK,
       HasRow, MaybeCall
<1>3. CASE /\ ServiceAsset(a)
           /\ task' = [task EXCEPT ![c].asset = a, ![c].version = assets[a].head]
           /\ Goes(c, "row")
    <2>1. Alone(c) /\ step'[c] = "row" /\ task'[c] = [task[c] EXCEPT !.asset = a, !.version = assets[a].head]
        BY <1>1, <1>3 DEF Goes, Alone, Typed, TypeOK, TaskRecord
    <2>2. /\ task'[c].asset = a /\ task'[c].version = assets[a].head
          /\ task'[c].doomed = task[c].doomed /\ task'[c].op = task[c].op
          /\ task'[c].source = task[c].source /\ task'[c].expected = task[c].expected
        BY <1>1, <2>1 DEF TaskRecord
    <2>3. \A d \in Call : step'[d] \in Before => step[d] \in Before
        BY <2>1 DEF Alone, Before
    <2>4. Bound(c)' /\ Appends(c)'
        BY <1>1, <1>2, <1>3, <2>2, <2>3 DEF Bound, Appends, LibraryInv, CallsOK, HasRow
    <2> QED
        BY <1>1, <2>1, <2>2, <2>4, Quiet DEF Before
<1>4. CASE /\ ServiceAsset(a)
           /\ task' = [task EXCEPT ![c].op = "upload", ![c].asset = a,
                                   ![c].key = <<"version", task[c].report, task[c].content>>,
                                   ![c].expected = assets[a].head]
           /\ Goes(c, "asset")
    <2>1. Alone(c) /\ step'[c] = "asset"
        BY <1>1, <1>4 DEF Goes, Alone, Typed, TypeOK
    <2>2. task'[c].doomed = task[c].doomed /\ task'[c].expected = assets[a].head
        BY <1>1, <1>4 DEF TaskRecord, Typed, TypeOK
    <2>3. \A d \in Call : step'[d] \in Before => step[d] \in Before
        BY <1>1, <2>1 DEF Alone, Before
    <2>4. Bound(c)' /\ Appends(c)'
        BY <1>1, <1>2, <1>4, <2>1, <2>2, <2>3 DEF Bound, Appends, HasRow
    <2> QED
        BY <1>1, <2>1, <2>2, <2>4, Quiet DEF Before
<1>5. CASE /\ ~ServiceAsset(a)
           /\ task' = [task EXCEPT ![c].op = "create",
                                   ![c].key = IF a = None THEN <<"asset", task[c].report>>
                                              ELSE <<"replacement", task[c].report, task[c].content>>]
           /\ Goes(c, "replay")
    <2>1. Alone(c) /\ step'[c] = "replay"
        BY <1>1, <1>5 DEF Goes, Alone, Typed, TypeOK
    <2>2. task'[c].doomed = task[c].doomed /\ task'[c].op = "create"
        BY <1>1, <1>5 DEF TaskRecord, Typed, TypeOK
    <2>3. Bound(c)' /\ Appends(c)'
        BY <2>1, <2>2 DEF Bound, Appends
    <2> QED
        BY <1>1, <2>1, <2>2, <2>3, Quiet DEF Before
<1> QED
    BY <1>3, <1>4, <1>5 DEF Look

LEMMA LibraryReplay ==
    ASSUME Typed, LibraryInv, NEW c \in Call, Replay(c)
    PROVE  LibraryInv'
<1>1. PICK v \in Found(c) : Continues(c, versions[v].asset, assets[versions[v].asset].head)
    BY DEF Replay
<1> DEFINE a == versions[v].asset
<1>2. a \in Call /\ assets[a].head \in Call /\ step[c] \in Before
    BY <1>1 DEF Found, LooksUp, InStorage, Before, Keyed, Stored, LibraryInv, RowsOK, HeadsOK
<1>8. Continues(c, a, assets[a].head)
    BY <1>1
<1> HIDE DEF a
<1>3. UNCHANGED <<assets, versions, files, mapping>> /\ task[c] \in TaskRecord
    BY DEF Replay, library, catalogue, Typed, TypeOK
<1>4. /\ Alone(c) /\ step'[c] \in {"done", "row", "bind"}
      /\ \/ task'[c] = NoTask /\ step'[c] = "done"
         \/ task'[c] = [task[c] EXCEPT !.asset = a, !.version = assets[a].head]
    <2>1. CASE task[c].kind = "write"
        BY <1>8, <2>1, EndsAlone DEF Continues
    <2>2. CASE task[c].kind # "write"
        BY <1>8, <2>2 DEF Continues, Goes, Alone, Typed, TypeOK, TaskRecord
    <2> QED
        BY <2>1, <2>2
<1>5. \A d \in Call : step'[d] \in Before => step[d] \in Before
    BY <1>4 DEF Alone, Before
<1>6. CASE task'[c] = NoTask /\ step'[c] = "done"
    BY <1>3, <1>4, <1>6, Quiet DEF NoTask, Bound, Appends, Before
<1>7. CASE task'[c] = [task[c] EXCEPT !.asset = a, !.version = assets[a].head]
    <2>1. /\ task'[c].asset = a /\ task'[c].version = assets[a].head
          /\ task'[c].doomed = task[c].doomed /\ task'[c].op = task[c].op
          /\ task'[c].source = task[c].source /\ task'[c].expected = task[c].expected
        BY <1>3, <1>7 DEF TaskRecord
    <2>2. Bound(c)' /\ Appends(c)'
        BY <1>2, <1>3, <1>5, <2>1 DEF Bound, Appends, LibraryInv, CallsOK, HasRow
    <2> QED
        BY <1>3, <1>4, <2>1, <2>2, Quiet DEF Before
<1> QED
    BY <1>4, <1>6, <1>7

LEMMA LibraryStage ==
    ASSUME Typed, LibraryInv, NEW c \in Call, Stage(c)
    PROVE  LibraryInv'
<1>1. Alone(c) /\ step'[c] = "commit" /\ task' = task /\ step[c] = "stage"
      /\ UNCHANGED <<assets, versions, mapping>> /\ files' = files \cup {c}
    BY KeepsAlone DEF Stage, catalogue
<1>2. \A d \in Call : step'[d] \in Before <=> step[d] \in Before
    BY <1>1 DEF Alone, Before
<1> QED
    BY <1>1, <1>2 DEF Alone, LibraryInv, RowsOK, HeadsOK, FreshOK, CallsOK, Doomed, Bound, Appends, MappedOK,
       HasRow, Listed

\* The version of a call that commits: what it sets and what it leaves.
LEMMA CommitSets ==
    ASSUME Typed, LibraryInv, NEW c \in Call, Commit(c)
    PROVE  /\ Target(c) \in Call /\ ~HasRow(c)
           /\ versions'[c].asset = Target(c) /\ versions'[c].source = task[c].source
           /\ versions'[c].key = task[c].key
           /\ \A v \in Call \ {c} : versions'[v] = versions[v]
           /\ assets'[Target(c)] = [status |-> "active", head |-> c]
           /\ \A a \in Call \ {Target(c)} : assets'[a] = assets[a]
           /\ \A a \in Call : Listed(a) => Listed(a)'
           /\ task[c].op \in {"create", "upload"} /\ (task[c].op = "create" => Target(c) = c)
           /\ task[c].op = "upload" => /\ Target(c) = task[c].asset /\ assets[Target(c)].status = "active"
                                       /\ task[c].expected \in {None, assets[Target(c)].head}
<1>1. /\ task[c] \in TaskRecord /\ Meets(task[c], "commit") /\ step[c] = "commit"
    BY DEF Typed, TypeOK, TaskFits, Commit
<1>2. task[c].op \in {"create", "upload"} /\ Target(c) \in Call
    BY <1>1 DEF Meets, Target, TaskRecord
<1>3. ~HasRow(c)
    BY <1>1 DEF LibraryInv, RowsOK, Before
<1>4. /\ versions'[c].asset = Target(c) /\ versions'[c].source = task[c].source
      /\ versions'[c].key = task[c].key
      /\ \A v \in Call \ {c} : versions'[v] = versions[v]
    BY DEF Commit, WithVersion, Typed, TypeOK
<1>5. /\ assets'[Target(c)] = [status |-> "active", head |-> c]
      /\ \A a \in Call \ {Target(c)} : assets'[a] = assets[a]
    BY <1>2 DEF Commit, Typed, TypeOK
<1>6. \A a \in Call : Listed(a) => Listed(a)'
    BY <1>5 DEF Listed
<1>7. task[c].op = "upload" => /\ Target(c) = task[c].asset /\ assets[Target(c)].status = "active"
                               /\ task[c].expected \in {None, assets[Target(c)].head}
    BY DEF Commit, Commits, StillValid, Accepts, Stale, Target
<1> QED
    BY <1>2, <1>3, <1>4, <1>5, <1>6, <1>7 DEF Target

LEMMA LibraryCommit ==
    ASSUME Typed, LibraryInv, NEW c \in Call, Commit(c)
    PROVE  LibraryInv'
<1> DEFINE a == Target(c)
<1>1. /\ a \in Call /\ ~HasRow(c) /\ versions'[c].asset = a /\ versions'[c].source = task[c].source
      /\ \A v \in Call \ {c} : versions'[v] = versions[v]
      /\ assets'[a] = [status |-> "active", head |-> c]
      /\ \A b \in Call \ {a} : assets'[b] = assets[b]
      /\ \A b \in Call : Listed(b) => Listed(b)'
      /\ task[c].op \in {"create", "upload"} /\ (task[c].op = "create" => a = c)
      /\ task[c].op = "upload" => assets[a].status = "active"
    BY CommitSets
<1> HIDE DEF a
<1>2. /\ files' = files /\ mapping' = mapping /\ step[c] = "commit" /\ c \in files
      /\ task[c] \in TaskRecord
    BY DEF Commit, catalogue, LibraryInv, FreshOK, Typed, TypeOK
<1>3. /\ Alone(c) /\ step'[c] \in {"done", "row", "bind"}
      /\ \/ task'[c] = NoTask /\ step'[c] = "done"
         \/ task'[c] = [task[c] EXCEPT !.asset = a, !.version = c]
    BY ContinuesAlone DEF Commit, a
<1>4. /\ \A d \in Call : step'[d] \in Before => step[d] \in Before
      /\ step'[c] \notin Before /\ step[c] \in Before
    BY <1>2, <1>3 DEF Alone, Before
<1>5. RowsOK'
    <2>1. ASSUME NEW v \in Call \ {c}, HasRow(v)'
          PROVE  v \in files' /\ step'[v] \notin Before /\ versions'[v].asset \in Call /\ Listed(versions[v].asset)'
        <3>1. HasRow(v) /\ versions'[v] = versions[v]
            BY <1>1, <2>1 DEF HasRow
        <3> QED
            BY <1>1, <1>2, <1>4, <3>1 DEF LibraryInv, RowsOK
    <2>2. c \in files' /\ step'[c] \notin Before /\ versions'[c].asset \in Call /\ Listed(versions[c].asset)'
        BY <1>1, <1>2, <1>4 DEF Listed
    <2> QED
        BY <2>1, <2>2 DEF RowsOK
<1>6. HeadsOK'
    <2>1. ASSUME NEW b \in Call \ {a}, Listed(b)' PROVE assets'[b].head \in Call /\ versions'[assets'[b].head].asset = b
        <3>1. assets[b].head \in Call /\ versions[assets[b].head].asset = b
            BY <1>1, <2>1 DEF Listed, LibraryInv, HeadsOK
        <3>2. assets[b].head # c
            BY <1>1, <3>1, LibraryAssumption DEF LibraryAssumption, HasRow
        <3> QED
            BY <1>1, <3>1, <3>2
    <2>2. assets'[a].head \in Call /\ versions'[assets'[a].head].asset = a
        BY <1>1
    <2> QED
        BY <2>1, <2>2 DEF HeadsOK
<1>7. FreshOK'
    <2>1. ASSUME NEW d \in Call, step'[d] \in Before PROVE assets'[d] = NoAsset
        <3>1. d # c /\ assets[d] = NoAsset
            BY <1>4, <2>1 DEF LibraryInv, FreshOK
        <3>2. d # a
            BY <1>1, <3>1 DEF NoAsset
        <3> QED
            BY <1>1, <3>1, <3>2
    <2>2. ASSUME NEW d \in Call, step'[d] = "commit" PROVE d \in files'
        BY <1>2, <1>3, <2>2 DEF Alone, LibraryInv, FreshOK
    <2> QED
        BY <2>1, <2>2 DEF FreshOK
<1>8. \A d \in Call : Doomed(d)'
    <2>1. \A d \in Call, v \in Call : v \in task'[d].doomed => v \in task[d].doomed
        <3>1. task'[c].doomed = {} \/ task'[c].doomed = task[c].doomed
            <4>1. CASE task'[c] = NoTask
                BY <4>1 DEF NoTask
            <4>2. CASE task'[c] = [task[c] EXCEPT !.asset = a, !.version = c]
                BY <1>2, <4>2 DEF TaskRecord
            <4> QED
                BY <1>3, <4>1, <4>2
        <3> QED
            BY <1>3, <3>1 DEF Alone
    <2>2. ASSUME NEW d \in Call, NEW v \in Call, v \in task[d].doomed PROVE ~HasRow(v)' /\ step'[v] \notin Before
        <3>1. ~HasRow(v) /\ step[v] \notin Before
            BY <2>2 DEF LibraryInv, CallsOK, Doomed
        <3> QED
            BY <1>1, <1>4, <3>1 DEF HasRow
    <2> QED
        BY <2>1, <2>2 DEF Doomed
<1>9. ASSUME NEW d \in Call PROVE Bound(d)' /\ Appends(d)'
    <2>1. CASE d # c
        <3>1. task'[d] = task[d] /\ step'[d] = step[d] /\ Bound(d) /\ Appends(d)
            BY <1>3, <2>1 DEF Alone, LibraryInv, CallsOK
        <3> QED
            BY <1>1, <1>4, <3>1 DEF Bound, Appends, HasRow
    <2>2. CASE d = c /\ task'[c] = NoTask /\ step'[c] = "done"
        BY <2>2 DEF Bound, Appends, NoTask
    <2>3. CASE d = c /\ task'[c] = [task[c] EXCEPT !.asset = a, !.version = c]
        <3>1. /\ task'[c].asset = a /\ task'[c].version = c /\ task'[c].op = task[c].op
              /\ task'[c].source = task[c].source /\ task'[c].expected = task[c].expected
            BY <1>2, <2>3 DEF TaskRecord
        <3>2. Appends(c)
            BY DEF LibraryInv, CallsOK
        <3> QED
            BY <1>1, <1>4, <2>3, <3>1, <3>2 DEF Bound, Appends, HasRow
    <2> QED
        BY <1>3, <2>1, <2>2, <2>3
<1>10. MappedOK'
    <2>1. ASSUME NEW r \in Report, mapping'[r].by = "publish"
          PROVE  /\ mapping'[r].asset \in Call /\ mapping'[r].version \in Call
                 /\ Listed(mapping[r].asset)' /\ versions'[mapping'[r].version].asset = mapping'[r].asset
        <3>1. /\ mapping[r].asset \in Call /\ mapping[r].version \in Call
              /\ Listed(mapping[r].asset) /\ versions[mapping[r].version].asset = mapping[r].asset
            BY <1>2, <2>1 DEF LibraryInv, MappedOK
        <3>2. mapping[r].version # c
            BY <1>1, <3>1, LibraryAssumption DEF LibraryAssumption, HasRow
        <3> QED
            BY <1>1, <1>2, <3>1, <3>2
    <2> QED
        BY <2>1 DEF MappedOK
<1> QED
    BY <1>5, <1>6, <1>7, <1>8, <1>9, <1>10 DEF LibraryInv, CallsOK

\* Files go that no version in the table, and no call before its commit, has.
LEMMA FilesGo ==
    ASSUME Typed, LibraryInv, NEW c \in Call, NEW S, Ends(c, "done"),
           UNCHANGED <<assets, versions, mapping>>, files' = files \ S,
           \A v \in Call : v \in S => ~HasRow(v) /\ (v = c \/ step[v] \notin Before)
    PROVE  LibraryInv'
<1>1. Alone(c) /\ step'[c] = "done" /\ task'[c] = NoTask
    BY EndsAlone
<1>2. \A d \in Call : step'[d] \in Before => step[d] \in Before /\ d # c
    BY <1>1 DEF Alone, Before
<1>3. RowsOK' /\ HeadsOK' /\ MappedOK'
    BY <1>2 DEF LibraryInv, RowsOK, HeadsOK, MappedOK, HasRow, Listed
<1>4. FreshOK'
    BY <1>1, <1>2 DEF LibraryInv, FreshOK, Alone, Before
<1>5. ASSUME NEW d \in Call PROVE Doomed(d)' /\ Bound(d)' /\ Appends(d)'
    <2>1. CASE d = c
        BY <1>1, <2>1 DEF NoTask, Doomed, Bound, Appends
    <2>2. CASE d # c
        BY <1>1, <1>2, <2>2 DEF Alone, LibraryInv, CallsOK, Doomed, Bound, Appends, HasRow
    <2> QED
        BY <2>1, <2>2
<1> QED
    BY <1>3, <1>4, <1>5 DEF LibraryInv, CallsOK

LEMMA LibraryMap ==
    ASSUME Typed, LibraryInv, NEW c \in Call, Map(c)
    PROVE  LibraryInv'
<1> DEFINE t == task[c]
<1>1. Alone(c) /\ step'[c] = "done" /\ task'[c] = NoTask
    BY EndsAlone DEF Map
<1>2. UNCHANGED <<assets, versions, files>> /\ t.asset \in Call /\ t.version \in Call
    BY DEF Map, library, LibraryInv, CallsOK, Bound
<1>3. \A d \in Call : step'[d] \in Before => step[d] \in Before
    BY <1>1 DEF Alone, Before
<1>4. RowsOK' /\ HeadsOK'
    BY <1>2, <1>3 DEF LibraryInv, RowsOK, HeadsOK, HasRow, Listed
<1>5. FreshOK'
    BY <1>1, <1>2, <1>3 DEF LibraryInv, FreshOK, Alone
<1>6. ASSUME NEW d \in Call PROVE Doomed(d)' /\ Bound(d)' /\ Appends(d)'
    <2>1. CASE d = c
        BY <1>1, <2>1 DEF NoTask, Doomed, Bound, Appends
    <2>2. CASE d # c
        BY <1>1, <1>2, <1>3, <2>2 DEF Alone, LibraryInv, CallsOK, Doomed, Bound, Appends, HasRow
    <2> QED
        BY <2>1, <2>2
<1>7. MappedOK'
    <2>1. CASE Backs(t.asset, t.version)
        <3>1. mapping' = [mapping EXCEPT ![t.report] = [asset |-> t.asset, version |-> t.version,
                                                        by |-> "publish"]]
            BY <2>1 DEF Map
        <3> QED
            BY <1>2, <2>1, <3>1 DEF LibraryInv, MappedOK, Backs, Listed, Typed, TypeOK
    <2>2. CASE ~Backs(t.asset, t.version)
        <3>1. mapping' = mapping
            BY <2>2 DEF Map
        <3> QED
            BY <1>2, <3>1 DEF LibraryInv, MappedOK, Listed
    <2> QED
        BY <2>1, <2>2
<1> QED
    BY <1>4, <1>5, <1>6, <1>7 DEF LibraryInv, CallsOK

LEMMA LibraryDelete ==
    ASSUME Typed, LibraryInv, NEW c \in Call, DeleteRows(c)
    PROVE  LibraryInv'
<1> DEFINE a == task[c].asset
<1>1. /\ step[c] = "storage" /\ task[c] \in TaskRecord /\ a \in Call /\ Listed(a)
      /\ task[c].kind = "delete" /\ files' = files
    BY DEF DeleteRows, InDelete, Typed, TypeOK, TaskFits, Meets
<1> HIDE DEF a
<1>2. /\ \A v \in Call : versions'[v] = IF versions[v].asset = a THEN NoVersion ELSE versions[v]
      /\ \A b \in Call \ {a} : assets'[b] = assets[b]
      /\ assets'[a] = [status |-> "deleted", head |-> None]
      /\ \A r \in Report : mapping'[r] = IF mapping[r].asset = a THEN NoEntry ELSE mapping[r]
    BY <1>1 DEF DeleteRows, Typed, TypeOK, a
<1>3. /\ Alone(c) /\ step'[c] = "remove"
      /\ task'[c] = [task[c] EXCEPT !.doomed = VersionsOf(a)]
    BY DEF DeleteRows, Goes, Alone, Typed, TypeOK, TaskRecord, a
<1>4. \A d \in Call : step'[d] \in Before => step[d] \in Before
    BY <1>1, <1>3 DEF Alone, Before
<1>5. \A v \in Call : HasRow(v)' => HasRow(v) /\ versions'[v] = versions[v] /\ versions[v].asset # a
    BY <1>2 DEF HasRow, NoVersion
<1>6. \A b \in Call : Listed(b)' => b # a /\ Listed(b) /\ assets'[b] = assets[b]
    BY <1>2 DEF Listed
<1>7. \A b \in Call : b # a /\ Listed(b) => Listed(b)'
    BY <1>2 DEF Listed
<1>8. RowsOK'
    BY <1>1, <1>4, <1>5, <1>7 DEF LibraryInv, RowsOK
<1>9. HeadsOK'
    BY <1>2, <1>6 DEF LibraryInv, HeadsOK
<1>10. FreshOK'
    BY <1>1, <1>2, <1>3, <1>4 DEF LibraryInv, FreshOK, Alone, NoAsset, Listed
<1>11. ASSUME NEW d \in Call PROVE Doomed(d)' /\ Bound(d)' /\ Appends(d)'
    <2>1. CASE d = c
        <3>1. task'[c].doomed = VersionsOf(a) /\ task'[c].op = task[c].op /\ task'[c].source = task[c].source
              /\ task'[c].expected = task[c].expected
            BY <1>1, <1>3 DEF TaskRecord
        <3>2. \A v \in Call : v \in VersionsOf(a) => HasRow(v) /\ versions'[v] = NoVersion
            BY <1>1, <1>2, LibraryAssumption DEF LibraryAssumption, VersionsOf, HasRow
        <3>3. Doomed(c)'
            BY <1>3, <1>4, <3>1, <3>2 DEF Doomed, HasRow, NoVersion, LibraryInv, RowsOK
        <3>4. Appends(c)
            BY DEF LibraryInv, CallsOK
        <3> QED
            BY <1>3, <1>4, <1>5, <2>1, <3>1, <3>3, <3>4 DEF Bound, Appends
    <2>2. CASE d # c
        <3>1. Doomed(d) /\ Bound(d) /\ Appends(d) /\ task'[d] = task[d] /\ step'[d] = step[d]
            BY <1>3, <2>2 DEF Alone, LibraryInv, CallsOK
        <3> QED
            BY <1>4, <1>5, <3>1 DEF Doomed, Bound, Appends
    <2> QED
        BY <2>1, <2>2
<1>12. MappedOK'
    <2>1. ASSUME NEW r \in Report, mapping'[r].by = "publish"
          PROVE  /\ mapping'[r].asset \in Call /\ mapping'[r].version \in Call
                 /\ Listed(mapping[r].asset)' /\ versions'[mapping'[r].version].asset = mapping'[r].asset
        <3>1. mapping[r].asset # a /\ mapping'[r] = mapping[r]
            BY <1>2, <2>1 DEF NoEntry
        <3>2. /\ mapping[r].asset \in Call /\ mapping[r].version \in Call
              /\ Listed(mapping[r].asset) /\ versions[mapping[r].version].asset = mapping[r].asset
            BY <2>1, <3>1 DEF LibraryInv, MappedOK
        <3> QED
            BY <1>2, <1>7, <3>1, <3>2
    <2> QED
        BY <2>1 DEF MappedOK
<1> QED
    BY <1>8, <1>9, <1>10, <1>11, <1>12 DEF LibraryInv, CallsOK

LEMMA LibraryWork ==
    ASSUME Typed, LibraryInv, NEW c \in Call, Work(c)
    PROVE  LibraryInv'
<1> USE DEF library, catalogue
<1>1. CASE Look(c) \/ Replay(c) \/ Stage(c) \/ Commit(c) \/ Map(c) \/ DeleteRows(c)
    BY <1>1, LibraryLook, LibraryReplay, LibraryStage, LibraryCommit, LibraryMap, LibraryDelete
<1>2. CASE LookFirst(c)
    BY <1>2, KeepQuiet DEF LookFirst, Steps, Before
<1>3. CASE LockAsset(c)
    BY <1>3, KeepQuiet DEF LockAsset, Steps, Before
<1>4. CASE Conflict(c)
    BY <1>4, EndQuiet DEF Conflict
<1>5. CASE Refuse(c)
    BY <1>5, EndQuiet DEF Refuse
<1>6. CASE Reserve(c)
    <2>1. UNCHANGED <<assets, versions, files, mapping>> /\ step[c] = "storage"
        BY <1>6 DEF Reserve, InStorage
    <2>2. CASE Goes(c, "stage") /\ UNCHANGED task
        BY <2>1, <2>2, KeepQuiet DEF Steps, Before
    <2>3. CASE Ends(c, "done")
        BY <2>1, <2>3, EndQuiet
    <2> QED
        BY <1>6, <2>2, <2>3 DEF Reserve
<1>7. CASE StageFails(c)
    BY <1>7, EndQuiet DEF StageFails
<1>8. CASE CommitFails(c)
    BY <1>8, KeepQuiet DEF CommitFails, Steps, Before
<1>9. CASE Undo(c)
    <2>1. ~HasRow(c)
        BY <1>9 DEF Undo, LibraryInv, RowsOK, Before
    <2>2. \A v \in Call : v \in {c} => ~HasRow(v) /\ (v = c \/ step[v] \notin Before)
        BY <2>1
    <2> QED
        BY <1>9, <2>2, FilesGo DEF Undo
<1>10. CASE Row(c)
    BY <1>10, KeepQuiet DEF Row, Steps, Before
<1>11. CASE Bind(c)
    BY <1>11, EndQuiet DEF Bind
<1>12. CASE DeleteNothing(c)
    BY <1>12, EndQuiet DEF DeleteNothing
<1>13. CASE RemoveFiles(c)
    <2>1. \A v \in Call : v \in task[c].doomed => ~HasRow(v) /\ (v = c \/ step[v] \notin Before)
        BY DEF LibraryInv, CallsOK, Doomed
    <2> QED
        BY <1>13, <2>1, FilesGo DEF RemoveFiles
<1>14. CASE GivesUp(c)
    BY <1>14, EndQuiet DEF GivesUp
<1> QED
    BY <1>1, <1>2, <1>3, <1>4, <1>5, <1>6, <1>7, <1>8, <1>9, <1>10, <1>11, <1>12, <1>13, <1>14 DEF Work

LEMMA LibraryNext == Typed /\ LibraryInv /\ [Next]_vars => LibraryInv'
<1> SUFFICES ASSUME Typed, LibraryInv, [Next]_vars PROVE LibraryInv'
    OBVIOUS
<1>1. ASSUME NEW c \in Call, Request(c) \/ Work(c) PROVE LibraryInv'
    BY <1>1, LibraryRequest, LibraryWork
<1>2. ASSUME NEW c \in Call, Crash(c) PROVE LibraryInv'
    BY <1>2, EndQuiet DEF Crash, library, catalogue
<1>3. CASE UNCHANGED <<assets, versions, files, mapping, step, task>>
    BY <1>3 DEF LibraryInv, RowsOK, HeadsOK, FreshOK, CallsOK, Doomed, Bound, Appends, MappedOK, HasRow, Listed
<1>4. ASSUME NEW c \in Call, Stall(c) \/ Lapse(c) PROVE LibraryInv'
    BY <1>3, <1>4 DEF Stall, Lapse, library, catalogue, calls
<1>5. ASSUME NEW a \in Call, Archive(a) PROVE LibraryInv'
    <2>1. /\ UNCHANGED <<versions, files, mapping, step, task>>
          /\ \A b \in Call : assets'[b].head = assets[b].head /\ (Listed(b)' <=> Listed(b))
          /\ \A b \in Call : assets[b] = NoAsset => assets'[b] = NoAsset
        BY <1>5 DEF Archive, catalogue, calls, Typed, TypeOK, Listed, NoAsset
    <2>2. RowsOK' /\ HeadsOK' /\ FreshOK'
        BY <2>1 DEF LibraryInv, RowsOK, HeadsOK, FreshOK, HasRow
    <2>3. CallsOK'
        BY <2>1 DEF LibraryInv, CallsOK, Doomed, Bound, Appends, HasRow
    <2>4. MappedOK'
        BY <2>1 DEF LibraryInv, MappedOK
    <2> QED
        BY <2>2, <2>3, <2>4 DEF LibraryInv
<1>6. CASE Backfill
    <2>1. /\ UNCHANGED <<assets, versions, files, step, task>>
          /\ \A r \in Report : mapping'[r].by = "publish" => mapping'[r] = mapping[r]
        BY <1>6 DEF Backfill, library, calls
    <2>2. RowsOK' /\ HeadsOK' /\ FreshOK' /\ CallsOK'
        BY <2>1 DEF LibraryInv, RowsOK, HeadsOK, FreshOK, CallsOK, Doomed, Bound, Appends, HasRow, Listed
    <2>3. MappedOK'
        BY <2>1 DEF LibraryInv, MappedOK, Listed
    <2> QED
        BY <2>2, <2>3 DEF LibraryInv
<1>7. CASE UNCHANGED vars
    BY <1>3, <1>7 DEF vars, library, catalogue, calls
<1> QED
    BY <1>1, <1>2, <1>4, <1>5, <1>6, <1>7 DEF Next

LEMMA AlwaysLibrary == Spec => [](Typed /\ LibraryInv)
<1>1. Init => Typed /\ LibraryInv
    BY TypedInit, LibraryInit
<1>2. Typed /\ LibraryInv /\ [Next]_vars => Typed' /\ LibraryInv'
    BY TypedNext, LibraryNext
<1> QED
    BY <1>1, <1>2, PTL DEF Spec

\* Every version in the table has its file and every listed asset a head of its
\* own, with any number of crashes and of calls that lose their locks.
THEOREM LibraryStaysOpen == Spec => []LibraryOpens
<1>1. LibraryInv => LibraryOpens
    BY DEF LibraryInv, RowsOK, HeadsOK, LibraryOpens, Stored, VersionsOf
<1> QED
    BY <1>1, AlwaysLibrary, PTL

\* A catalogue entry that a publication registered names an asset and a version
\* of it that exist.
THEOREM CatalogueIsBacked == Spec => []RegisteredIsBacked
<1>1. LibraryInv => RegisteredIsBacked
    BY DEF LibraryInv, MappedOK, RegisteredIsBacked, VersionsOf
<1> QED
    BY <1>1, AlwaysLibrary, PTL

\* Only a commit replaces a head by another; one of the service expects a head
\* of the service, and finds it or is refused.
THEOREM UserHeadIsKept == Spec => UserHeadKept
<1> DEFINE Kept == \A a \in Call :
               /\ assets'[a].head # assets[a].head /\ assets[a].head # None /\ assets'[a].head # None
               /\ versions'[assets'[a].head].source = "system"
               => versions[assets[a].head].source = "system"
<1>1. ASSUME Typed, LibraryInv, NEW c \in Call, Commit(c) PROVE Kept
    <2> SUFFICES ASSUME NEW a \in Call, assets'[a].head # assets[a].head, assets[a].head # None,
                        assets'[a].head # None, versions'[assets'[a].head].source = "system"
                 PROVE  versions[assets[a].head].source = "system"
        OBVIOUS
    <2>1. a = Target(c) /\ assets'[a].head = c /\ task[c].source = "system"
        <3>1. /\ assets'[Target(c)] = [status |-> "active", head |-> c]
              /\ \A b \in Call \ {Target(c)} : assets'[b] = assets[b]
              /\ versions'[c].source = task[c].source
            BY <1>1, CommitSets
        <3>2. a = Target(c)
            BY <3>1
        <3>3. assets'[a].head = c
            BY <3>1, <3>2
        <3> QED
            BY <3>1, <3>2, <3>3
    <2>2. step[c] = "commit"
        BY <1>1 DEF Commit
    <2>3. task[c].op = "upload"
        <3>1. assets[c] = NoAsset
            BY <1>1, <2>2 DEF LibraryInv, FreshOK, Before
        <3>2. assets[c].head = None
            BY <3>1 DEF NoAsset
        <3> QED
            BY <1>1, <2>1, <3>2, CommitSets
    <2>6. Appends(c)
        BY <1>1 DEF LibraryInv, CallsOK
    <2>4. task[c].expected = assets[a].head /\ assets[a].status = "active"
        BY <1>1, <2>1, <2>3, <2>6, CommitSets, LibraryAssumption DEF LibraryAssumption, Appends
    <2>5. versions[assets[a].head].asset = a /\ assets[a].head \in Call
        BY <1>1, <2>4 DEF LibraryInv, HeadsOK, Listed
    <2> QED
        BY <2>1, <2>3, <2>4, <2>5, <2>6, LibraryAssumption DEF LibraryAssumption, Appends, HasRow
<1>2. ASSUME \A a \in Call : assets'[a].head = assets[a].head \/ assets'[a].head = None PROVE Kept
    BY <1>2
<1>3. ASSUME Typed, NEW c \in Call, DeleteRows(c) PROVE Kept
    BY <1>2, <1>3 DEF DeleteRows, Typed, TypeOK
<1>4. ASSUME Typed, NEW a \in Call, Archive(a) PROVE Kept
    BY <1>2, <1>4 DEF Archive, Typed, TypeOK
<1>5. ASSUME NEW c \in Call, Request(c) PROVE Kept
    <2>1. assets' = assets
        BY <1>5 DEF Request, AskPublish, AskCreate, AskUpload, AskRestore, AskSave, AskDelete, RegisterLoose,
           Asks, library
    <2> QED
        BY <1>2, <2>1
<1>6. ASSUME Typed, LibraryInv, NEW c \in Call, Work(c) PROVE Kept
    <2>1. CASE Commit(c)
        BY <1>1, <1>6, <2>1
    <2>2. CASE DeleteRows(c)
        BY <1>3, <1>6, <2>2
    <2>3. CASE ~Commit(c) /\ ~DeleteRows(c)
        <3>1. assets' = assets
            BY <1>6, <2>3 DEF Work, Look, LookFirst, LockAsset, Replay, Conflict, Refuse, Reserve, Stage, StageFails,
               CommitFails, Undo, Row, Map, Bind, DeleteNothing, RemoveFiles, GivesUp, library
        <3> QED
            BY <1>2, <3>1
    <2> QED
        BY <2>1, <2>2, <2>3
<1>7. Typed /\ LibraryInv /\ [Next]_vars => Kept
    <2> SUFFICES ASSUME Typed, LibraryInv, [Next]_vars PROVE Kept
        OBVIOUS
    <2>1. CASE assets' = assets
        BY <1>2, <2>1
    <2>2. ASSUME NEW c \in Call, Crash(c) \/ Stall(c) \/ Lapse(c) PROVE assets' = assets
        BY <2>2 DEF Crash, Stall, Lapse, library
    <2>3. Backfill \/ UNCHANGED vars => assets' = assets
        BY DEF Backfill, vars, library
    <2> QED
        BY <1>4, <1>5, <1>6, <2>1, <2>2, <2>3 DEF Next
<1>8. Typed /\ LibraryInv /\ [Next]_vars => [Kept]_vars
    BY <1>7
<1> QED
    BY <1>8, AlwaysLibrary, PTL DEF Spec, UserHeadKept
-----------------------------------------------------------------------------
(* What the locks add *)

\* A writer at its transaction has the storage lock, one that appends the lock
\* of the asset from before it looked, and what it found then still holds.
Holds(c) ==
    /\ step[c] \in {"stage", "commit"} => holder[Storage] = c /\ StillValid(c)
    /\ step[c] \in {"storage", "stage", "commit"} /\ task[c].kind # "delete" /\ task[c].op = "upload"
       => holder[AssetLock(task[c].asset)] = c

LockInv == stalled = {} => \A c \in Call : Holds(c)

\* Nobody but the call that moves loses a lock.
OthersKeep(c) == \A d \in Call \ {c}, k \in LockKey : holder[k] = d => holder'[k] = d

LEMMA LockKeys ==
    /\ Storage \in LockKey
    /\ \A r \in Report : ReviewLock(r) \in LockKey
    /\ \A a \in Call : AssetLock(a) \in LockKey
BY DEF LockKey

LEMMA EndsKeep ==
    ASSUME NEW c \in Call, NEW how, Ends(c, how)
    PROVE  OthersKeep(c) /\ stalled' = stalled
BY DEF Ends, Without, OthersKeep

LEMMA ContinuesKeep ==
    ASSUME NEW c \in Call, NEW a, NEW v, Continues(c, a, v)
    PROVE  OthersKeep(c) /\ stalled' = stalled
BY EndsKeep DEF Continues, WithoutStorage, OthersKeep

\* A lock that is free is taken.
LEMMA TakesKeep ==
    ASSUME Typed, NEW c \in Call, NEW k \in LockKey, Free(k), holder' = [holder EXCEPT ![k] = c]
    PROVE  OthersKeep(c) /\ holder'[k] = c
BY LibraryAssumption DEF LibraryAssumption, Free, OthersKeep, Typed, TypeOK

LEMMA WorkKeeps ==
    ASSUME Typed, LibraryInv, NEW c \in Call, Request(c) \/ Work(c) \/ Crash(c)
    PROVE  OthersKeep(c) /\ Alone(c) /\ stalled' = stalled
<1>1. CASE Request(c)
    <2>1. ASSUME NEW s, NEW t, Asks(c, s, t) PROVE OthersKeep(c) /\ Alone(c) /\ stalled' = stalled
        BY <2>1, GoesAlone DEF Asks, OthersKeep
    <2>2. ASSUME NEW x \in Content, RegisterLoose(c, x) PROVE OthersKeep(c) /\ Alone(c) /\ stalled' = stalled
        BY <2>2, EndsKeep, EndsAlone DEF RegisterLoose
    <2> QED
        BY <1>1, <2>1, <2>2 DEF Request, AskPublish, AskCreate, AskUpload, AskRestore, AskSave, AskDelete
<1>2. CASE Crash(c)
    BY <1>2, EndsKeep, EndsAlone DEF Crash
<1>3. CASE \E how \in {"done", "conflict"} : Ends(c, how)
    BY <1>3, EndsKeep, EndsAlone
<1>4. CASE \E a, v : Continues(c, a, v)
    BY <1>4, ContinuesKeep, ContinuesAlone
<1>5. CASE Look(c)
    <2>1. ReviewLock(task[c].report) \in LockKey
        BY <1>5, LockKeys DEF Look, Typed, TaskFits, Meets
    <2>2. OthersKeep(c)
        BY <1>5, <2>1, TakesKeep DEF Look
    <2>3. Alone(c)
        BY <1>5 DEF Look, Goes, Alone, Typed, TypeOK
    <2> QED
        BY <1>5, <2>2, <2>3 DEF Look
<1>6. CASE LockAsset(c)
    <2>1. AssetLock(task[c].asset) \in LockKey
        BY <1>6, LockKeys DEF LockAsset, Typed, TaskFits, Meets
    <2> QED
        BY <1>6, <2>1, TakesKeep DEF LockAsset, Goes, Alone, Typed, TypeOK
<1>7. CASE Reserve(c) /\ ~Ends(c, "done")
    BY <1>7, LockKeys, TakesKeep DEF Reserve, InStorage, Goes, Alone, Typed, TypeOK
<1>8. CASE DeleteRows(c)
    BY <1>8, LockKeys, TakesKeep DEF DeleteRows, InDelete, Goes, Alone, Typed, TypeOK
<1>9. CASE LookFirst(c) \/ Stage(c) \/ CommitFails(c) \/ Row(c)
    BY <1>9 DEF LookFirst, Stage, CommitFails, Row, Goes, Alone, OthersKeep, Typed, TypeOK
<1> QED
    BY <1>1, <1>2, <1>3, <1>4, <1>5, <1>6, <1>7, <1>8, <1>9 DEF Work, Replay, Conflict, Refuse, Reserve, StageFails,
       Commit, Undo, Map, Bind, DeleteNothing, RemoveFiles, GivesUp

\* What others have found stays as long as the tables do.
LEMMA OthersHold ==
    ASSUME Typed, NEW c \in Call, OthersKeep(c), Alone(c), UNCHANGED <<assets, versions>>,
           \A d \in Call : Holds(d)
    PROVE  \A d \in Call \ {c} : Holds(d)'
<1> SUFFICES ASSUME NEW d \in Call \ {c} PROVE Holds(d)'
    OBVIOUS
<1>1. step'[d] = step[d] /\ task'[d] = task[d] /\ Holds(d) /\ task[d] \in TaskRecord /\ Meets(task[d], step[d])
    BY DEF Alone, Typed, TypeOK, TaskFits
<1>2. StillValid(d)' <=> StillValid(d)
    BY <1>1 DEF StillValid, Accepts, Stale, Keyed, Stored, HasRow
<1>3. \A k \in LockKey : holder[k] = d => holder'[k] = d
    BY DEF OthersKeep
<1>4. task[d].op = "upload" => AssetLock(task[d].asset) \in LockKey
    BY <1>1, LockKeys DEF Meets
<1> QED
    BY <1>1, <1>2, <1>3, <1>4, LockKeys DEF Holds

LEMMA LockNext == Typed /\ LibraryInv /\ LockInv /\ [Next]_vars => LockInv'
<1> SUFFICES ASSUME Typed, LibraryInv, LockInv, [Next]_vars, stalled' = {}
             PROVE  \A d \in Call : Holds(d)'
    BY DEF LockInv
<1>1. ASSUME NEW c \in Call, Request(c) \/ Work(c) \/ Crash(c) PROVE \A d \in Call : Holds(d)'
    <2>1. OthersKeep(c) /\ Alone(c) /\ \A d \in Call : Holds(d)
        BY <1>1, WorkKeeps DEF LockInv
    <2>2. CASE Commit(c) \/ DeleteRows(c)
        <3>1. \A d \in Call \ {c} : step[d] \notin {"stage", "commit"}
            BY <2>1, <2>2, LibraryAssumption DEF LibraryAssumption, Holds, Commit, DeleteRows, InDelete, Free
        <3>2. step'[c] \notin {"storage", "stage", "commit"}
            BY <2>2, ContinuesAlone DEF Commit, DeleteRows, Goes, Typed, TypeOK
        <3>3. ASSUME NEW d \in Call \ {c} PROVE Holds(d)'
            <4>1. step'[d] = step[d] /\ task'[d] = task[d] /\ Holds(d) /\ Meets(task[d], step[d])
                BY <2>1 DEF Alone, Typed, TaskFits
            <4>2. task[d].op = "upload" => AssetLock(task[d].asset) \in LockKey
                BY <4>1, LockKeys DEF Meets
            <4> QED
                BY <2>1, <3>1, <4>1, <4>2 DEF Holds, OthersKeep
        <3> QED
            BY <3>2, <3>3 DEF Holds
    <2>3. CASE ~Commit(c) /\ ~DeleteRows(c)
        <3>1. UNCHANGED <<assets, versions>>
            BY <1>1, <2>3 DEF Request, AskPublish, AskCreate, AskUpload, AskRestore, AskSave, AskDelete, RegisterLoose,
               Asks, Work, Look, LookFirst, LockAsset, Replay, Conflict, Refuse, Reserve, Stage, StageFails,
               CommitFails, Undo, Row, Map, Bind, DeleteNothing, RemoveFiles, GivesUp, Crash, library
        <3>2. \A d \in Call \ {c} : Holds(d)'
            BY <2>1, <3>1, OthersHold
        <3>3. CASE step'[c] \notin {"storage", "stage", "commit"}
            BY <3>2, <3>3 DEF Holds
        <3>4. Typed /\ Meets(task[c], step[c]) /\ task[c] \in TaskRecord
            BY DEF Typed, TypeOK, TaskFits
        <3>5. CASE LookFirst(c)
            BY <2>1, <3>2, <3>4, <3>5, KeepsAlone DEF LookFirst, Holds, Meets
        <3>6. CASE LockAsset(c)
            <4>1. step'[c] = "storage" /\ task'[c] = task[c] /\ AssetLock(task[c].asset) \in LockKey
                BY <3>4, <3>6, KeepsAlone, LockKeys DEF LockAsset, Meets
            <4>2. holder'[AssetLock(task[c].asset)] = c
                BY <3>6, <4>1, TakesKeep DEF LockAsset
            <4> QED
                BY <3>2, <4>1, <4>2 DEF Holds
        <3>7. CASE Reserve(c)
            <4>1. CASE Ends(c, "done")
                BY <3>3, <4>1, EndsAlone
            <4>2. CASE holder' = [holder EXCEPT ![Storage] = c] /\ Goes(c, "stage") /\ UNCHANGED task
                <5>1. step'[c] = "stage" /\ task'[c] = task[c] /\ step[c] = "storage"
                    BY <3>7, <4>2, KeepsAlone DEF Reserve, InStorage
                <5>2. StillValid(c)
                    BY <3>7 DEF Reserve, StillValid, Found, LooksUp
                <5>3. StillValid(c)'
                    BY <3>1, <5>1, <5>2 DEF StillValid, Accepts, Stale, Keyed, Stored, HasRow
                <5>4. holder'[Storage] = c /\ \A k \in LockKey : holder[k] = c => holder'[k] = c
                    BY <4>2, LockKeys DEF Typed, TypeOK
                <5>5. task[c].op = "upload" => AssetLock(task[c].asset) \in LockKey
                    BY <3>4, LockKeys DEF Meets
                <5> QED
                    BY <2>1, <3>2, <5>1, <5>3, <5>4, <5>5 DEF Holds
            <4> QED
                BY <3>7, <4>1, <4>2 DEF Reserve
        <3>8. CASE Stage(c)
            <4>1. step'[c] = "commit" /\ task'[c] = task[c] /\ step[c] = "stage" /\ holder' = holder
                BY <3>8, KeepsAlone DEF Stage
            <4>2. StillValid(c)' <=> StillValid(c)
                BY <3>1, <4>1 DEF StillValid, Accepts, Stale, Keyed, Stored, HasRow
            <4> QED
                BY <2>1, <3>2, <4>1, <4>2 DEF Holds
        <3>9. Look(c) \/ Replay(c) \/ CommitFails(c) \/ Row(c) => step'[c] \notin {"storage", "stage", "commit"}
            BY ContinuesAlone DEF Look, Replay, CommitFails, Row, Goes, Typed, TypeOK
        <3>10. ASSUME \E how \in {"done", "conflict", "dead"} : Ends(c, how)
               PROVE  step'[c] \notin {"storage", "stage", "commit"}
            BY <3>10, EndsAlone
        <3>11. Request(c) => step'[c] \notin {"storage", "stage", "commit"}
            BY EndsAlone DEF Request, AskPublish, AskCreate, AskUpload, AskRestore, AskSave, AskDelete, RegisterLoose,
               Asks, Goes, Typed, TypeOK
        <3> QED
            BY <1>1, <2>3, <3>3, <3>5, <3>6, <3>7, <3>8, <3>9, <3>10, <3>11 DEF Work, Conflict, Refuse, StageFails, Undo,
               Map, Bind, DeleteNothing, RemoveFiles, GivesUp, Crash
    <2> QED
        BY <2>2, <2>3
<1>2. CASE /\ UNCHANGED <<assets, versions, holder, step, task, stalled>>
    BY <1>2 DEF LockInv, Holds, StillValid, Accepts, Stale, Keyed, Stored, HasRow
<1>3. ASSUME NEW c \in Call, Lapse(c) PROVE \A d \in Call : Holds(d)'
    BY <1>2, <1>3 DEF Lapse, calls
<1>4. ASSUME NEW c \in Call, Stall(c) PROVE FALSE
    BY <1>4 DEF Stall
<1>5. ASSUME NEW a \in Call, Archive(a) PROVE \A d \in Call : Holds(d)'
    <2> SUFFICES ASSUME NEW d \in Call PROVE Holds(d)'
        OBVIOUS
    <2>1. UNCHANGED <<versions, holder, step, task, stalled>> /\ Holds(d) /\ Meets(task[d], step[d])
        BY <1>5 DEF Archive, calls, LockInv, Typed, TaskFits
    <2>2. \A b \in Call : assets'[b].head = assets[b].head /\ (b # a => assets'[b] = assets[b])
        BY <1>5 DEF Archive, Typed, TypeOK
    <2>3. CASE step[d] \in {"stage", "commit"}
        <3>1. task[d].op = "upload" => task[d].asset \in Call \ {a}
            BY <1>5, <2>1, <2>3, LibraryAssumption DEF LibraryAssumption, Holds, Meets, Archive, Free
        <3>2. StillValid(d)'
            BY <2>1, <2>2, <2>3, <3>1 DEF Holds, StillValid, Accepts, Stale, Keyed, Stored, HasRow
        <3> QED
            BY <2>1, <3>2 DEF Holds
    <2>4. CASE step[d] \notin {"stage", "commit"}
        BY <2>1, <2>4 DEF Holds
    <2> QED
        BY <2>3, <2>4
<1>6. Backfill \/ UNCHANGED vars => UNCHANGED <<assets, versions, holder, step, task, stalled>>
    BY DEF Backfill, vars, library, calls
<1> QED
    BY <1>1, <1>2, <1>3, <1>4, <1>5, <1>6 DEF Next

\* As long as nobody lost a lock, the transaction of a writer finds what the
\* writer found before it staged its file.
THEOREM StagingIsCurrent == Spec => []StagedIsCurrent
<1>1. Init => LockInv
    BY DEF Init, LockInv, Holds
<1>2. LockInv => StagedIsCurrent
    BY DEF LockInv, Holds, StagedIsCurrent
<1> QED
    BY <1>1, <1>2, LockNext, AlwaysLibrary, PTL DEF Spec
-----------------------------------------------------------------------------
(* The storage account *)

\* A sum of no larger sizes is finite when the larger one is, and no larger.
LEMMA FewerBytes ==
    ASSUME NEW f \in [Call -> Nat], NEW g \in [Call -> Nat], IsFiniteSet(Bytes(f)),
           \A c \in Call : g[c] <= f[c]
    PROVE  IsFiniteSet(Bytes(g)) /\ Total(f) \in Nat /\ Total(g) \in Nat /\ Total(g) <= Total(f)
<1>1. Bytes(g) \subseteq Bytes(f)
    <2> SUFFICES ASSUME NEW c \in Call, NEW p \in {c} \X (1..g[c]) PROVE p \in {c} \X (1..f[c])
        BY DEF Bytes
    <2>1. f[c] \in Nat /\ g[c] \in Nat /\ g[c] <= f[c]
        OBVIOUS
    <2> QED
        BY <2>1
<1>2. IsFiniteSet(Bytes(g)) /\ Cardinality(Bytes(g)) <= Cardinality(Bytes(f))
    BY <1>1, FS_Subset
<1> QED
    BY <1>2, FS_CardinalityType DEF Total

\* A sum grows by no more than the size that is new in it.
LEMMA MoreBytes ==
    ASSUME NEW f \in [Call -> Nat], NEW g \in [Call -> Nat], IsFiniteSet(Bytes(f)),
           NEW c \in Call, NEW n \in Nat, g[c] <= n, \A d \in Call \ {c} : g[d] <= f[d]
    PROVE  /\ IsFiniteSet(Bytes(g)) /\ Total(f) \in Nat /\ Total(g) \in Nat
           /\ Total(g) <= Total(f) + n
<1> DEFINE new == {c} \X (1..n)
<1>1. Bytes(g) \subseteq Bytes(f) \cup new
    <2> SUFFICES ASSUME NEW d \in Call, NEW p \in {d} \X (1..g[d])
                 PROVE  p \in {d} \X (1..f[d]) \/ p \in new
        BY DEF Bytes
    <2>1. f[d] \in Nat /\ g[d] \in Nat
        OBVIOUS
    <2>2. CASE d = c
        BY <2>1, <2>2
    <2>3. CASE d # c
        <3>1. g[d] <= f[d]
            BY <2>3
        <3> QED
            BY <2>1, <3>1
    <2> QED
        BY <2>2, <2>3
<1>2. IsFiniteSet(new) /\ Cardinality(new) = n
    <2>1. IsFiniteSet({c}) /\ Cardinality({c}) = 1
        BY FS_Singleton
    <2>2. IsFiniteSet(1..n) /\ Cardinality(1..n) = n
        BY FS_Interval
    <2>3. IsFiniteSet(new) /\ Cardinality(new) = Cardinality({c}) * Cardinality(1..n)
        BY <2>1, <2>2, FS_Product
    <2> QED
        BY <2>1, <2>2, <2>3
<1> HIDE DEF new
<1>3. /\ IsFiniteSet(Bytes(f) \cup new)
      /\ Cardinality(Bytes(f) \cup new)
         = Cardinality(Bytes(f)) + Cardinality(new) - Cardinality(Bytes(f) \cap new)
    BY <1>2, FS_Union
<1>4. IsFiniteSet(Bytes(f) \cap new)
    BY FS_Subset
<1>5. /\ Cardinality(Bytes(f)) \in Nat /\ Cardinality(Bytes(f) \cap new) \in Nat
      /\ Cardinality(Bytes(f) \cup new) \in Nat
    BY <1>3, <1>4, FS_CardinalityType
<1>6. IsFiniteSet(Bytes(g)) /\ Cardinality(Bytes(g)) <= Cardinality(Bytes(f) \cup new)
    BY <1>1, <1>3, FS_Subset
<1>7. Cardinality(Bytes(g)) \in Nat
    BY <1>6, FS_CardinalityType
<1> QED
    BY <1>2, <1>3, <1>5, <1>6, <1>7 DEF Total

\* What is charged and what is reserved can be summed up.
Counted ==
    /\ IsFiniteSet(Bytes(Sizes(versions)))
    /\ IsFiniteSet(Bytes(loose))
    /\ IsFiniteSet(Bytes(reserved))

Quota == Counted /\ QuotaHolds

LEMMA SizesType ==
    ASSUME Typed
    PROVE  Sizes(versions) \in [Call -> Nat] /\ loose \in [Call -> Nat] /\ reserved \in [Call -> Nat]
<1>1. ASSUME NEW v \in Call, versions[v].asset # None PROVE Size[versions[v].content] \in Nat
    BY <1>1, LibraryAssumption DEF LibraryAssumption, Typed, RowFits, HasRow
<1> QED
    BY <1>1 DEF Sizes, Typed, TypeOK

\* A step that charges nothing and reserves at most one call's bytes.
LEMMA ChargesNothing ==
    ASSUME Typed, Typed', Quota, UNCHANGED loose, NEW c, NEW n \in Nat,
           \A v \in Call : versions'[v] = versions[v] \/ versions'[v] = NoVersion,
           \A d \in Call \ {c} : reserved'[d] <= reserved[d],
           c \in Call => reserved'[c] <= n
    PROVE  Quota'
<1> DEFINE old == Sizes(versions)
           new == Sizes(versions')
<1>1. /\ old \in [Call -> Nat] /\ loose \in [Call -> Nat] /\ reserved \in [Call -> Nat]
    BY SizesType
<1>2. /\ new \in [Call -> Nat] /\ reserved' \in [Call -> Nat]
    <2>1. Sizes(versions)' = new
        BY DEF Sizes
    <2>2. reserved' \in [Call -> Nat]
        BY DEF Typed, TypeOK
    <2>3. ASSUME NEW v \in Call, versions'[v].asset # None PROVE Size[versions'[v].content] \in Nat
        BY <2>3, LibraryAssumption DEF LibraryAssumption, Typed, RowFits, HasRow
    <2> QED
        BY <2>2, <2>3 DEF Sizes
<1>3. \A v \in Call : new[v] <= old[v]
    <2> SUFFICES ASSUME NEW v \in Call PROVE new[v] <= old[v]
        OBVIOUS
    <2>1. CASE versions'[v] = versions[v]
        <3>1. new[v] = old[v] /\ old[v] \in Nat
            BY <1>1, <2>1 DEF Sizes
        <3> QED
            BY <3>1
    <2>2. CASE versions'[v] = NoVersion
        <3>1. new[v] = 0 /\ old[v] \in Nat
            BY <1>1, <2>2 DEF Sizes, NoVersion
        <3> QED
            BY <3>1
    <2> QED
        BY <2>1, <2>2
<1> HIDE DEF old, new
<1>4. IsFiniteSet(Bytes(old)) /\ IsFiniteSet(Bytes(loose)) /\ IsFiniteSet(Bytes(reserved))
    BY DEF Quota, Counted, old
<1>5. IsFiniteSet(Bytes(new)) /\ Total(old) \in Nat /\ Total(new) \in Nat /\ Total(new) <= Total(old)
    BY <1>1, <1>2, <1>3, <1>4, FewerBytes
<1>6. IsFiniteSet(Bytes(reserved'))
    <2>1. CASE c \in Call
        BY <1>1, <1>2, <1>4, <2>1, MoreBytes
    <2>2. CASE c \notin Call
        BY <1>1, <1>2, <1>4, <2>2, FewerBytes
    <2> QED
        BY <2>1, <2>2
<1>7. Total(loose) \in Nat
    BY <1>1, <1>4, FewerBytes
<1>8. Total(old) + Total(loose) <= Limit /\ Limit \in Nat
    BY LibraryAssumption DEF Quota, QuotaHolds, Used, old, LibraryAssumption
<1>9. Total(new) + Total(loose') <= Limit
    BY <1>5, <1>7, <1>8
<1>10. (Sizes(versions))' = new /\ Total(Sizes(versions))' = Total(new) /\ Bytes(Sizes(versions))' = Bytes(new)
       /\ Bytes(loose)' = Bytes(loose') /\ Bytes(reserved)' = Bytes(reserved') /\ Total(loose)' = Total(loose')
    BY DEF new, Sizes, Total, Bytes
<1> QED
    BY <1>4, <1>5, <1>6, <1>9, <1>10 DEF Quota, Counted, QuotaHolds, Used

\* The transaction asks for the account with the version it writes.
LEMMA CommitCharges ==
    ASSUME Typed, Typed', Quota, NEW c \in Call, Commit(c)
    PROVE  Quota'
<1> DEFINE old == Sizes(versions)
           new == Sizes(versions')
           n == Size[task[c].content]
<1>1. /\ versions' = WithVersion(c) /\ Committable(WithVersion(c), n) /\ UNCHANGED loose
      /\ reserved' = [reserved EXCEPT ![c] = 0] /\ task[c].content \in Content
    BY DEF Commit, Commits, Typed, TaskFits, Meets
<1>2. n \in Nat /\ Limit \in Nat
    BY <1>1, LibraryAssumption DEF LibraryAssumption
<1>3. /\ old \in [Call -> Nat] /\ loose \in [Call -> Nat] /\ reserved \in [Call -> Nat]
    BY SizesType
<1>4. \A d \in Call \ {c} : versions'[d] = versions[d]
    BY <1>1 DEF WithVersion, Typed, TypeOK
<1>5. versions'[c].content = task[c].content
    BY <1>1 DEF WithVersion, Typed, TypeOK
<1>6. ASSUME NEW d \in Call PROVE new[d] \in Nat /\ (d # c => new[d] <= old[d]) /\ new[c] <= n
    <2>1. d # c => new[d] = old[d] /\ old[d] \in Nat
        BY <1>3, <1>4 DEF Sizes
    <2>2. new[c] \in {n, 0}
        BY <1>5 DEF Sizes
    <2> HIDE DEF old, new, n
    <2> QED
        BY <1>2, <2>1, <2>2
<1>7. new \in [Call -> Nat]
    BY <1>6 DEF Sizes
<1> HIDE DEF old, new
<1>8. IsFiniteSet(Bytes(old)) /\ IsFiniteSet(Bytes(loose)) /\ IsFiniteSet(Bytes(reserved))
    BY DEF Quota, Counted, old
<1>9. IsFiniteSet(Bytes(new)) /\ Total(new) \in Nat
    BY <1>2, <1>3, <1>6, <1>7, <1>8, MoreBytes
<1>10. Total(loose) \in Nat /\ Total(reserved) \in Nat
    BY <1>3, <1>8, FewerBytes
<1>11. Total(new) + Total(loose) <= Limit
    <2>1. Total(new) + Total(loose) + (IF Total(reserved) > n THEN Total(reserved) - n ELSE 0) <= Limit
        BY <1>1 DEF Committable, Used, Held, new
    <2> QED
        BY <1>2, <1>9, <1>10, <2>1
<1>12. IsFiniteSet(Bytes(reserved'))
    <2>1. reserved' \in [Call -> Nat] /\ \A d \in Call : reserved'[d] <= reserved[d]
        BY <1>1, <1>3
    <2> QED
        BY <1>3, <1>8, <2>1, FewerBytes
<1>13. Sizes(versions)' = new /\ Total(Sizes(versions))' = Total(new) /\ Bytes(Sizes(versions))' = Bytes(new)
       /\ Bytes(loose)' = Bytes(loose') /\ Bytes(reserved)' = Bytes(reserved') /\ Total(loose)' = Total(loose')
    BY DEF new, Sizes, Total, Bytes
<1> QED
    BY <1>1, <1>8, <1>9, <1>11, <1>12, <1>13 DEF Quota, Counted, QuotaHolds, Used

\* A report of the workspace is charged in the piece of code that asks for the account.
LEMMA LooseCharges ==
    ASSUME Typed, Typed', Quota, NEW c \in Call, NEW x \in Content, RegisterLoose(c, x)
    PROVE  Quota'
<1> DEFINE n == Size[x]
<1>1. UNCHANGED <<versions, reserved>> /\ loose' = IF Fits(n) THEN [loose EXCEPT ![c] = n] ELSE loose
    BY DEF RegisterLoose
<1>2. n \in Nat /\ Limit \in Nat
    BY LibraryAssumption DEF LibraryAssumption
<1>3. /\ Sizes(versions) \in [Call -> Nat] /\ loose \in [Call -> Nat] /\ reserved \in [Call -> Nat]
    BY SizesType
<1>4. /\ IsFiniteSet(Bytes(Sizes(versions))) /\ IsFiniteSet(Bytes(loose)) /\ IsFiniteSet(Bytes(reserved))
      /\ Total(Sizes(versions)) + Total(loose) <= Limit
    BY DEF Quota, Counted, QuotaHolds, Used
<1>5. Total(Sizes(versions)) \in Nat /\ Total(reserved) \in Nat
    BY <1>3, <1>4, FewerBytes
<1> HIDE DEF n
<1>6. IsFiniteSet(Bytes(loose')) /\ Total(Sizes(versions)) + Total(loose') <= Limit
    <2>1. CASE Fits(n)
        <3>1. loose' = [loose EXCEPT ![c] = n]
            BY <1>1, <2>1
        <3>2. loose' \in [Call -> Nat] /\ loose'[c] <= n /\ \A d \in Call \ {c} : loose'[d] <= loose[d]
            BY <1>2, <1>3, <3>1
        <3>3. /\ IsFiniteSet(Bytes(loose')) /\ Total(loose) \in Nat /\ Total(loose') \in Nat
              /\ Total(loose') <= Total(loose) + n
            BY <1>2, <1>3, <1>4, <3>2, MoreBytes
        <3>4. Total(Sizes(versions)) + Total(loose) + Total(reserved) + n <= Limit
            BY <2>1 DEF Fits, Used, Held
        <3> QED
            BY <1>2, <1>5, <3>3, <3>4
    <2>2. CASE ~Fits(n)
        BY <1>1, <1>4, <2>2
    <2> QED
        BY <2>1, <2>2
<1>7. Sizes(versions)' = Sizes(versions) /\ Bytes(Sizes(versions))' = Bytes(Sizes(versions))
      /\ Total(Sizes(versions))' = Total(Sizes(versions)) /\ Bytes(reserved)' = Bytes(reserved)
      /\ Bytes(loose)' = Bytes(loose') /\ Total(loose)' = Total(loose')
    BY <1>1 DEF Sizes, Bytes, Total
<1> QED
    BY <1>4, <1>6, <1>7 DEF Quota, Counted, QuotaHolds, Used

LEMMA QuotaNext == Typed /\ Quota /\ [Next]_vars => Quota'
<1> SUFFICES ASSUME Typed, Quota, [Next]_vars PROVE Quota'
    OBVIOUS
<1>1. Typed'
    BY TypedNext
<1>2. reserved \in [Call -> Nat] /\ None \notin Call
    BY LibraryAssumption DEF Typed, TypeOK, LibraryAssumption
<1>3. \A n \in Nat : n <= n /\ 0 <= n
    OBVIOUS
<1>4. CASE UNCHANGED <<versions, reserved, loose>>
    <2>1. \A d \in Call \ {None} : reserved'[d] <= reserved[d]
        BY <1>2, <1>3, <1>4
    <2> QED
        BY <1>1, <1>2, <1>4, <2>1, ChargesNothing
\* A reservation ends, or one is made.
<1>5. ASSUME NEW c \in Call, NEW n \in Nat, reserved' = [reserved EXCEPT ![c] = n], UNCHANGED <<versions, loose>>
      PROVE  Quota'
    <2>1. reserved'[c] <= n /\ \A d \in Call \ {c} : reserved'[d] <= reserved[d]
        BY <1>2, <1>3, <1>5
    <2> QED
        BY <1>1, <1>5, <2>1, ChargesNothing
<1>6. ASSUME NEW c \in Call, Request(c) PROVE Quota'
    <2>1. ASSUME NEW x \in Content, RegisterLoose(c, x) PROVE Quota'
        BY <1>1, <2>1, LooseCharges
    <2>2. ASSUME NEW s, NEW t, Asks(c, s, t) PROVE Quota'
        BY <1>4, <2>2 DEF Asks, library
    <2> QED
        BY <1>6, <2>1, <2>2 DEF Request, AskPublish, AskCreate, AskUpload, AskRestore, AskSave, AskDelete
<1>7. ASSUME NEW c \in Call, Work(c) PROVE Quota'
    <2>1. CASE Commit(c)
        BY <1>1, <2>1, CommitCharges
    <2>2. CASE Reserve(c)
        <3>1. CASE Fits(Size[task[c].content])
            <4>1. task[c].content \in Content
                BY <2>2 DEF Reserve, InStorage, Typed, TypeOK, TaskFits, Meets
            <4>2. Size[task[c].content] \in Nat
                BY <4>1, LibraryAssumption DEF LibraryAssumption
            <4> QED
                BY <1>5, <2>2, <3>1, <4>2 DEF Reserve
        <3>2. CASE ~Fits(Size[task[c].content])
            BY <1>4, <2>2, <3>2 DEF Reserve
        <3> QED
            BY <3>1, <3>2
    <2>3. CASE StageFails(c) \/ Undo(c)
        BY <1>5, <2>3 DEF StageFails, Undo
    <2>4. CASE DeleteRows(c)
        <3>1. UNCHANGED <<reserved, loose>> /\ \A v \in Call : versions'[v] \in {versions[v], NoVersion}
            BY <2>4 DEF DeleteRows
        <3>2. \A d \in Call \ {None} : reserved'[d] <= reserved[d]
            BY <1>2, <1>3, <3>1
        <3> QED
            BY <1>1, <1>2, <3>1, <3>2, ChargesNothing
    <2>5. CASE Look(c) \/ LookFirst(c) \/ LockAsset(c) \/ Replay(c) \/ Conflict(c) \/ Refuse(c)
        BY <1>4, <2>5 DEF Look, LookFirst, LockAsset, Replay, Conflict, Refuse, library
    <2>6. CASE Stage(c) \/ CommitFails(c) \/ Row(c) \/ Map(c) \/ Bind(c)
        BY <1>4, <2>6 DEF Stage, CommitFails, Row, Map, Bind, library
    <2>7. CASE DeleteNothing(c) \/ RemoveFiles(c) \/ GivesUp(c)
        BY <1>4, <2>7 DEF DeleteNothing, RemoveFiles, GivesUp, library
    <2> QED
        BY <1>7, <2>1, <2>2, <2>3, <2>4, <2>5, <2>6, <2>7 DEF Work
<1>8. ASSUME NEW c \in Call, Crash(c) \/ Stall(c) PROVE Quota'
    BY <1>4, <1>8 DEF Crash, Stall, library
<1>9. ASSUME NEW c \in Call, Lapse(c) PROVE Quota'
    BY <1>5, <1>9 DEF Lapse
<1>10. CASE Backfill \/ UNCHANGED vars \/ \E a \in Call : Archive(a)
    BY <1>4, <1>10 DEF Backfill, Archive, vars, library
<1> QED
    BY <1>6, <1>7, <1>8, <1>9, <1>10 DEF Next

\* What the user stores stays within the limit, for any calls, contents and sizes, any
\* number of crashes and of calls that lose their locks, and although reservations lapse
\* under the writes they were made for (reserveStorage, assertCommittedBytesWithinQuota).
THEOREM QuotaIsKept == Spec => []QuotaHolds
<1>1. Init => Quota
    <2> SUFFICES ASSUME Init PROVE Quota
        OBVIOUS
    <2>1. ASSUME NEW f, \A c \in Call : f[c] = 0 PROVE Bytes(f) = {} /\ IsFiniteSet(Bytes(f)) /\ Total(f) = 0
        <3>1. Bytes(f) = {}
            BY <2>1 DEF Bytes
        <3> QED
            BY <3>1, FS_EmptySet DEF Total
    <2>2. \A c \in Call : Sizes(versions)[c] = 0 /\ loose[c] = 0 /\ reserved[c] = 0
        BY DEF Init, Sizes, NoVersion
    <2>3. /\ IsFiniteSet(Bytes(Sizes(versions))) /\ Total(Sizes(versions)) = 0
          /\ IsFiniteSet(Bytes(loose)) /\ Total(loose) = 0 /\ IsFiniteSet(Bytes(reserved))
        BY <2>1, <2>2
    <2> QED
        BY <2>3, LibraryAssumption DEF Quota, Counted, QuotaHolds, Used, LibraryAssumption
<1>2. Quota => QuotaHolds
    BY DEF Quota
<1> QED
    BY <1>1, <1>2, QuotaNext, TypedInit, TypedNext, PTL DEF Spec
=============================================================================
