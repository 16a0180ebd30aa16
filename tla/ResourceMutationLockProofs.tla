--------------------- MODULE ResourceMutationLockProofs ---------------------
(***************************************************************************)
(* Mutual exclusion of the directory lock while no fault happens, its      *)
(* implementation of ResourceMutex, and the clean-up promise that faults   *)
(* of other calls do not disturb: for any calls, processes and keys.       *)
(***************************************************************************)
EXTENDS ResourceMutationLock, FiniteSetTheorems, TLAPS

-----------------------------------------------------------------------------
(* The key a call works on. *)

LEMMA LevelsAreNumbers == \A t \in Task : DOMAIN Calls[t] \subseteq Nat
<1> SUFFICES ASSUME NEW t \in Task PROVE DOMAIN Calls[t] \subseteq Nat
  OBVIOUS
<1>1. Calls[t] \in Seq(Seq(Key))
  BY CallsAssumption
<1> QED
  BY <1>1

LEMMA WantedAreKeys == \A t \in Task : Wanted(t) \subseteq Key
<1> SUFFICES ASSUME NEW t \in Task, NEW l \in DOMAIN Calls[t] PROVE KeysAt(t, l) \subseteq Key
  BY DEF Wanted
<1>1. Calls[t] \in Seq(Seq(Key))
  BY CallsAssumption
<1>2. Calls[t][l] \in Seq(Key)
  BY <1>1
<1> QED
  BY <1>2 DEF KeysAt

\* The order of acquisition is total on the keys of a call.
LEMMA BeforeTotal ==
    ASSUME NEW t \in Task, NEW j \in Wanted(t), NEW k \in Wanted(t), j # k
    PROVE  Before(t, j, k) \/ Before(t, k, j)
<1>1. PICK l \in DOMAIN Calls[t] : j \in KeysAt(t, l)
  BY DEF Wanted
<1>2. PICK m \in DOMAIN Calls[t] : k \in KeysAt(t, m)
  BY DEF Wanted
<1>3. l \in Nat /\ m \in Nat /\ j \in Nat /\ k \in Nat
  BY LevelsAreNumbers, WantedAreKeys, CallsAssumption
<1>4. l < m \/ m < l \/ (l = m /\ j < k) \/ (l = m /\ k < j)
  BY <1>3
<1> QED
  BY <1>1, <1>2, <1>4 DEF Before

\* So the next key is unique.
LEMMA NeedsUnique ==
    ASSUME NEW t \in Task, NEW j \in Key, NEW k \in Key, Needs(t, j), Needs(t, k)
    PROVE  j = k
BY BeforeTotal DEF Needs

\* It only depends on what the call holds.
LEMMA NeedsStable ==
    ASSUME NEW t \in Task, NEW k \in Key, got'[t] = got[t]
    PROVE  Needs(t, k)' <=> Needs(t, k)
BY DEF Needs

\* Where a call goes after acquiring, and that it is a proper label.
LEMMA LoopLabelType ==
    ASSUME NEW t \in Task, NEW held
    PROVE  LoopLabel(t, held) \in {"operate", "mkdir"}
BY DEF LoopLabel

-----------------------------------------------------------------------------
(* Types *)

Dirs == [owner : Task \cup {NoOwner}, old : BOOLEAN, exists : BOOLEAN]

LEMMA DirTypes ==
    /\ NoDir \in Dirs
    /\ \A o \in Task \cup {NoOwner} : Dir(o) \in Dirs
BY DEF NoDir, Dir, Dirs

LEMMA TypeInit == Init => TypeOK
BY DirTypes DEF Init, TypeOK, Labels, Dirs

LEMMA TypeStep == TypeOK /\ [Next]_vars => TypeOK'
<1> SUFFICES ASSUME TypeOK, [Next]_vars PROVE TypeOK'
  OBVIOUS
<1>0. lock \in [Key -> Dirs] /\ pc \in [Task -> Labels] /\ got \in [Task -> SUBSET Key]
  BY DEF TypeOK, Dirs
<1>a. ASSUME NEW t \in Task, NEW label \in Labels, Goto(t, label), Unmoved PROVE TypeOK'
  BY <1>a, <1>0 DEF TypeOK, Goto, Unmoved
<1>b. ASSUME NEW t \in Task, NEW k \in Key, NEW label \in Labels, NEW d \in Dirs,
             Goto(t, label), lock' = [lock EXCEPT ![k] = d], FileSystemOnly
      PROVE  TypeOK'
  BY <1>b, <1>0 DEF TypeOK, Goto, FileSystemOnly, Dirs
<1>1. ASSUME NEW t \in Task, Start(t) PROVE TypeOK'
  BY <1>1, <1>a, LoopLabelType DEF Start, Labels
<1>2. ASSUME NEW t \in Task, NEW k \in Key, MakeDirectory(t, k) PROVE TypeOK'
  <2>1. CASE lock' = [lock EXCEPT ![k] = Dir(NoOwner)] /\ Goto(t, "write")
    BY <2>1, <1>2, <1>b, DirTypes DEF MakeDirectory, Labels
  <2>2. CASE UNCHANGED lock /\ Goto(t, "read")
    BY <2>2, <1>2, <1>a DEF MakeDirectory, Labels, FileSystemOnly, Unmoved
  <2> QED
    BY <1>2, <2>1, <2>2 DEF MakeDirectory
<1>3. ASSUME NEW t \in Task, NEW k \in Key, WriteOwner(t, k) PROVE TypeOK'
  <2>1. k \in Wanted(t)
    BY <1>3 DEF WriteOwner, Needs
  <2>2. lock' \in [Key -> Dirs]
    BY <1>3, <1>0, DirTypes DEF WriteOwner
  <2>3. pc' \in [Task -> Labels]
    BY <1>3, <1>0, LoopLabelType DEF WriteOwner, Goto, Labels
  <2>4. got' \in [Task -> SUBSET Key] /\ \A u \in Task : got'[u] \subseteq Wanted(u)
    BY <1>3, <1>0, <2>1 DEF WriteOwner, TypeOK
  <2> QED
    BY <1>3, <2>2, <2>3, <2>4 DEF WriteOwner, TypeOK, Dirs
<1>4. ASSUME NEW t \in Task, NEW k \in Key,
             \/ WriteFindsOwner(t, k) \/ WriteFindsNothing(t, k) \/ WriteFails(t, k)
             \/ MakeFails(t, k)
      PROVE  TypeOK'
  BY <1>4, <1>a DEF MakeFails, WriteFindsOwner, WriteFindsNothing, WriteFails, Labels
<1>5. ASSUME NEW t \in Task, NEW k \in Key, RemoveUnwritten(t, k) PROVE TypeOK'
  BY <1>5, <1>b, DirTypes DEF RemoveUnwritten, Labels
<1>6. ASSUME NEW t \in Task, NEW k \in Key, ReadOwner(t, k) PROVE TypeOK'
  BY <1>6, <1>a DEF ReadOwner, Labels
<1>7. ASSUME NEW t \in Task, NEW k \in Key, StatDirectory(t, k) PROVE TypeOK'
  BY <1>7, <1>a DEF StatDirectory, Labels
<1>8. ASSUME NEW t \in Task, NEW k \in Key, ClearAbandoned(t, k) PROVE TypeOK'
  BY <1>8, <1>b, DirTypes DEF ClearAbandoned, Labels
<1>9. ASSUME NEW t \in Task, PollAgain(t) \/ TimeOut(t) \/ OperationEnds(t) \/ Finish(t)
      PROVE  TypeOK'
  BY <1>9, <1>a DEF PollAgain, TimeOut, OperationEnds, Finish, Labels
<1>10. ASSUME NEW t \in Task, NEW k \in Key, ReadBack(t, k) PROVE TypeOK'
  BY <1>10, <1>0 DEF ReadBack, TypeOK, Goto, Labels
<1>11. ASSUME NEW t \in Task, NEW k \in Key, ReleaseLock(t, k) PROVE TypeOK'
  <2>1. lock' \in [Key -> Dirs]
    BY <1>11, <1>0, DirTypes DEF ReleaseLock
  <2> QED
    BY <1>11, <1>0, <2>1 DEF ReleaseLock, TypeOK, Goto, Labels, Dirs
<1>12. ASSUME NEW t \in Task, NEW k \in Key, RemovalFails(t, k) PROVE TypeOK'
  BY <1>12, <1>0 DEF RemovalFails, TypeOK, Goto, Labels, Fault
<1>13. ASSUME NEW k \in Key, Age(k) PROVE TypeOK'
  <2>1. lock' \in [Key -> Dirs]
    BY <1>13, <1>0 DEF Age, Dirs
  <2> QED
    BY <1>13, <2>1 DEF Age, TypeOK, Fault, Dirs
<1>14. ASSUME NEW p \in Proc, Crash(p) PROVE TypeOK'
  BY <1>14, <1>0 DEF Crash, TypeOK, Fault, Labels
<1>15. ASSUME NEW p \in Proc, ReusePid(p) PROVE TypeOK'
  BY <1>15 DEF ReusePid, TypeOK, Fault
<1>16. CASE UNCHANGED vars
  BY <1>16 DEF vars, TypeOK
<1> QED
  BY <1>1, <1>2, <1>3, <1>4, <1>5, <1>6, <1>7, <1>8, <1>9, <1>10, <1>11, <1>12, <1>13,
     <1>14, <1>15, <1>16 DEF Next, Acquire, Release

\* Lock directories, calls and fault history keep their types, and calls only
\* collect the locks they asked for, under every interleaving and fault.
THEOREM TypeCorrect == Spec => []TypeOK
BY TypeInit, TypeStep, PTL DEF Spec

-----------------------------------------------------------------------------
(* Mutual exclusion while no fault happens. *)

Creates(t, k) == pc[t] \in {"write", "abort"} /\ Needs(t, k)

\* A collected lock is the directory that names the call.
HeldIsOwned == \A t \in Task : \A k \in Key : k \in got[t] => lock[k].exists /\ lock[k].owner = t
\* A call between mkdir and owner.json finds its own young directory ...
CreatedIsYoung ==
    \A t \in Task : \A k \in Key :
        Creates(t, k) => lock[k].exists /\ lock[k].owner = NoOwner /\ ~lock[k].old
\* ... which no other call is creating.
OneCreator == \A t, u \in Task : \A k \in Key : Creates(t, k) /\ Creates(u, k) => t = u
\* A directory without an owner has a creator, and a missing one has no owner.
UnownedIsCreated ==
    \A k \in Key : lock[k].owner = NoOwner =>
        IF lock[k].exists THEN \E t \in Task : Creates(t, k) ELSE ~lock[k].old
MissingIsUnowned == \A k \in Key : ~lock[k].exists => lock[k].owner = NoOwner
\* Nothing is ever judged abandoned.
StatFindsYoung ==
    \A t \in Task : \A k \in Key :
        pc[t] = "stat" /\ Needs(t, k) /\ lock[k].exists => ~lock[k].old
NothingAbandoned == gone = {} /\ \A t \in Task : pc[t] \notin {"undo", "clear", "sweep", "dead"}

Faultless ==
    /\ HeldIsOwned /\ CreatedIsYoung /\ OneCreator /\ UnownedIsCreated /\ MissingIsUnowned
    /\ StatFindsYoung /\ NothingAbandoned

\* The inductive invariant.
IInv == TypeOK /\ (faults = {} => Faultless)

LEMMA FaultlessInit == Init => Faultless
BY DEF Init, Faultless, HeldIsOwned, CreatedIsYoung, OneCreator, UnownedIsCreated,
       MissingIsUnowned, StatFindsYoung, NothingAbandoned, Creates, NoDir

\* Steps that only move one call, to a place outside "write" and "abort".
LEMMA MovePreserves ==
    ASSUME TypeOK, Faultless, NEW t \in Task, NEW label, Goto(t, label), Unmoved,
           label \notin {"undo", "clear", "sweep", "dead", "write", "abort", "stat"},
           pc[t] \notin {"write", "abort"}
    PROVE  Faultless'
<1> DEFINE new == pc'
<1>1. /\ \A u \in Task : new[u] = IF u = t THEN label ELSE pc[u]
      /\ lock' = lock /\ got' = got /\ gone' = gone
  BY DEF Goto, Unmoved, TypeOK
<1>2. \A u \in Task, k \in Key : Needs(u, k)' <=> Needs(u, k)
  BY <1>1, NeedsStable
<1> HIDE DEF new
<1>3. \A u \in Task, k \in Key : Creates(u, k)' <=> Creates(u, k)
  BY <1>1, <1>2 DEF Creates, new
<1> QED
  BY <1>1, <1>2, <1>3 DEF Faultless, HeldIsOwned, CreatedIsYoung, OneCreator,
     UnownedIsCreated, MissingIsUnowned, StatFindsYoung, NothingAbandoned, new

LEMMA StartPreserves ==
    ASSUME TypeOK, Faultless, NEW t \in Task,
           \/ Start(t) \/ PollAgain(t) \/ TimeOut(t) \/ OperationEnds(t) \/ Finish(t)
           \/ \E k \in Key : MakeFails(t, k)
    PROVE  Faultless'
BY MovePreserves, LoopLabelType DEF MakeFails, Start, PollAgain, TimeOut, OperationEnds, Finish

LEMMA MakeDirectoryPreserves ==
    ASSUME TypeOK, Faultless, NEW t \in Task, NEW k \in Key, MakeDirectory(t, k)
    PROVE  Faultless'
<1>1. CASE lock[k].exists /\ UNCHANGED lock /\ Goto(t, "read")
  BY <1>1, MovePreserves DEF MakeDirectory, FileSystemOnly, Unmoved
<1>2. CASE ~lock[k].exists /\ lock' = [lock EXCEPT ![k] = Dir(NoOwner)] /\ Goto(t, "write")
  <2> DEFINE new == pc'
             dirs == lock'
  <2>1. /\ \A u \in Task : new[u] = IF u = t THEN "write" ELSE pc[u]
        /\ \A j \in Key : dirs[j] = IF j = k THEN Dir(NoOwner) ELSE lock[j]
        /\ got' = got /\ gone' = gone
        /\ pc[t] = "mkdir" /\ Needs(t, k)
    BY <1>2 DEF MakeDirectory, Goto, FileSystemOnly, TypeOK
  <2>2. \A u \in Task, j \in Key : Needs(u, j)' <=> Needs(u, j)
    BY <2>1, NeedsStable
  <2> HIDE DEF new, dirs
  <2>3. \A u \in Task, j \in Key : Creates(u, j)' <=> (Creates(u, j) \/ (u = t /\ j = k))
    BY <2>1, <2>2, NeedsUnique DEF Creates, new
  <2>4. Dir(NoOwner).owner = NoOwner /\ ~Dir(NoOwner).old /\ Dir(NoOwner).exists
    BY DEF Dir
  <2>5. \A u \in Task : ~Creates(u, k) /\ k \notin got[u]
    BY <1>2 DEF Faultless, CreatedIsYoung, HeldIsOwned
  <2>6. HeldIsOwned' /\ CreatedIsYoung'
    BY <2>1, <2>3, <2>4, <2>5 DEF Faultless, HeldIsOwned, CreatedIsYoung, dirs
  <2>7. OneCreator'
    BY <2>3, <2>5 DEF Faultless, OneCreator
  <2>8. UnownedIsCreated' /\ MissingIsUnowned'
    BY <2>1, <2>3, <2>4 DEF Faultless, UnownedIsCreated, MissingIsUnowned, dirs
  <2>9. StatFindsYoung' /\ NothingAbandoned'
    BY <2>1, <2>2, <2>4 DEF Faultless, StatFindsYoung, NothingAbandoned, new, dirs
  <2> QED
    BY <2>6, <2>7, <2>8, <2>9 DEF Faultless
<1> QED
  BY <1>1, <1>2 DEF MakeDirectory

LEMMA WriteOwnerPreserves ==
    ASSUME TypeOK, Faultless, NEW t \in Task, NEW k \in Key, WriteOwner(t, k)
    PROVE  Faultless'
<1> DEFINE new == pc'
           dirs == lock'
           have == got'
<1>1. /\ \A u \in Task : u # t => new[u] = pc[u] /\ have[u] = got[u]
      /\ new[t] \in {"operate", "mkdir"}
      /\ have[t] = got[t] \cup {k}
      /\ \A j \in Key : dirs[j] = IF j = k THEN Dir(t) ELSE lock[j]
      /\ gone' = gone /\ Creates(t, k)
  BY LoopLabelType DEF WriteOwner, Goto, TypeOK, Creates
<1>2. \A u \in Task, j \in Key : u # t => (Needs(u, j)' <=> Needs(u, j))
  BY <1>1, NeedsStable
<1> HIDE DEF new, dirs, have
<1>3. \A u \in Task, j \in Key : Creates(u, j)' <=> (Creates(u, j) /\ u # t)
  BY <1>1, <1>2 DEF Creates, new
<1>4. Dir(t).owner = t /\ ~Dir(t).old /\ Dir(t).exists /\ t # NoOwner
  BY CallsAssumption DEF Dir
<1>5. \A u \in Task : u # t => ~Creates(u, k) /\ k \notin got[u]
  BY <1>1, CallsAssumption DEF Faultless, OneCreator, CreatedIsYoung, HeldIsOwned
<1>6. HeldIsOwned' /\ CreatedIsYoung' /\ OneCreator'
  BY <1>1, <1>3, <1>4, <1>5
     DEF Faultless, HeldIsOwned, CreatedIsYoung, OneCreator, dirs, have
<1>7. UnownedIsCreated'
  <2> SUFFICES ASSUME NEW j \in Key, dirs[j].owner = NoOwner
               PROVE  IF dirs[j].exists THEN \E u \in Task : Creates(u, j)' ELSE ~dirs[j].old
    BY DEF UnownedIsCreated, dirs
  <2>1. j # k /\ dirs[j] = lock[j]
    BY <1>1, <1>4
  <2>2. CASE lock[j].exists
    <3>1. PICK u \in Task : Creates(u, j)
      BY <2>1, <2>2 DEF Faultless, UnownedIsCreated
    <3>2. u # t
      BY <3>1, <2>1, <1>1, NeedsUnique DEF Creates
    <3> QED
      BY <3>1, <3>2, <1>3, <2>1, <2>2
  <2>3. CASE ~lock[j].exists
    BY <2>1, <2>3 DEF Faultless, UnownedIsCreated
  <2> QED
    BY <2>2, <2>3
<1>8. MissingIsUnowned' /\ NothingAbandoned'
  BY <1>1, <1>4 DEF Faultless, MissingIsUnowned, NothingAbandoned, dirs, new
<1>9. StatFindsYoung'
  BY <1>1, <1>2, <1>4 DEF Faultless, StatFindsYoung, new, dirs
<1> QED
  BY <1>6, <1>7, <1>8, <1>9 DEF Faultless

\* The directory of a creating call is intact, so only other errors remain.
LEMMA WriteErrorPreserves ==
    ASSUME TypeOK, Faultless, NEW t \in Task, NEW k \in Key,
           WriteFindsOwner(t, k) \/ WriteFindsNothing(t, k) \/ WriteFails(t, k)
    PROVE  Faultless'
<1> DEFINE new == pc'
<1>1. Creates(t, k)
  BY DEF WriteFindsOwner, WriteFindsNothing, WriteFails, Creates
<1>2. ~WriteFindsOwner(t, k) /\ ~WriteFindsNothing(t, k)
  BY <1>1 DEF Faultless, CreatedIsYoung, WriteFindsOwner, WriteFindsNothing
<1>3. /\ \A u \in Task : new[u] = IF u = t THEN "abort" ELSE pc[u]
      /\ lock' = lock /\ got' = got /\ gone' = gone /\ pc[t] = "write"
  BY <1>2 DEF WriteFails, Goto, Unmoved, TypeOK
<1>4. \A u \in Task, j \in Key : Needs(u, j)' <=> Needs(u, j)
  BY <1>3, NeedsStable
<1> HIDE DEF new
<1>5. \A u \in Task, j \in Key : Creates(u, j)' <=> Creates(u, j)
  BY <1>3, <1>4 DEF Creates, new
<1> QED
  BY <1>3, <1>4, <1>5 DEF Faultless, HeldIsOwned, CreatedIsYoung, OneCreator,
     UnownedIsCreated, MissingIsUnowned, StatFindsYoung, NothingAbandoned, new

LEMMA RemoveUnwrittenPreserves ==
    ASSUME TypeOK, Faultless, NEW t \in Task, NEW k \in Key, RemoveUnwritten(t, k)
    PROVE  Faultless'
<1> DEFINE new == pc'
           dirs == lock'
<1>1. pc[t] = "abort" /\ Creates(t, k)
  BY DEF RemoveUnwritten, Faultless, NothingAbandoned, Creates
<1>2. /\ \A u \in Task : new[u] = IF u = t THEN "readback" ELSE pc[u]
      /\ \A j \in Key : dirs[j] = IF j = k THEN NoDir ELSE lock[j]
      /\ got' = got /\ gone' = gone
  BY <1>1 DEF RemoveUnwritten, Goto, FileSystemOnly, TypeOK
<1>3. \A u \in Task, j \in Key : Needs(u, j)' <=> Needs(u, j)
  BY <1>2, NeedsStable
<1> HIDE DEF new, dirs
<1>4. \A u \in Task, j \in Key : Creates(u, j)' <=> (Creates(u, j) /\ u # t)
  BY <1>2, <1>3 DEF Creates, new
<1>5. NoDir.owner = NoOwner /\ ~NoDir.old /\ ~NoDir.exists /\ NoOwner \notin Task
  BY CallsAssumption DEF NoDir
<1>6. \A u \in Task : (u # t => ~Creates(u, k)) /\ k \notin got[u]
  BY <1>1, <1>5 DEF Faultless, OneCreator, CreatedIsYoung, HeldIsOwned
<1>7. \A j \in Key : Creates(t, j) => j = k
  BY <1>1, NeedsUnique DEF Creates
<1>8. HeldIsOwned' /\ CreatedIsYoung' /\ OneCreator'
  BY <1>2, <1>4, <1>6 DEF Faultless, HeldIsOwned, CreatedIsYoung, OneCreator, dirs
<1>9. UnownedIsCreated' /\ MissingIsUnowned'
  BY <1>2, <1>4, <1>5, <1>7 DEF Faultless, UnownedIsCreated, MissingIsUnowned, dirs
<1>10. StatFindsYoung' /\ NothingAbandoned'
  BY <1>2, <1>3, <1>5 DEF Faultless, StatFindsYoung, NothingAbandoned, new, dirs
<1> QED
  BY <1>8, <1>9, <1>10 DEF Faultless

\* Owners are alive, and a directory without one is young.
LEMMA ReadOwnerPreserves ==
    ASSUME TypeOK, Faultless, NEW t \in Task, NEW k \in Key, ReadOwner(t, k)
    PROVE  Faultless'
<1>1. lock[k].owner \in Task \cup {NoOwner}
  BY DEF TypeOK
<1>2. CASE lock[k].owner # NoOwner
  <2>1. LooksAlive(t, lock[k].owner)
    BY DEF LooksAlive, RespondsToSignal, Faultless, NothingAbandoned
  <2>2. Goto(t, "poll") /\ Unmoved /\ pc[t] = "read"
    BY <1>2, <2>1 DEF ReadOwner
  <2> QED
    BY <2>2, MovePreserves
<1>3. CASE lock[k].owner = NoOwner
  <2> DEFINE new == pc'
  <2>1. Goto(t, "stat") /\ Unmoved /\ pc[t] = "read" /\ Needs(t, k)
    BY <1>3 DEF ReadOwner
  <2>2. /\ \A u \in Task : new[u] = IF u = t THEN "stat" ELSE pc[u]
        /\ lock' = lock /\ got' = got /\ gone' = gone
    BY <2>1 DEF Goto, Unmoved, TypeOK
  <2>3. \A u \in Task, j \in Key : Needs(u, j)' <=> Needs(u, j)
    BY <2>2, NeedsStable
  <2> HIDE DEF new
  <2>4. \A u \in Task, j \in Key : Creates(u, j)' <=> Creates(u, j)
    BY <2>1, <2>2, <2>3 DEF Creates, new
  <2>5. lock[k].exists => ~lock[k].old
    BY <1>3 DEF Faultless, UnownedIsCreated, CreatedIsYoung
  <2>6. StatFindsYoung'
    BY <2>1, <2>2, <2>3, <2>5, NeedsUnique DEF Faultless, StatFindsYoung, new
  <2> QED
    BY <2>2, <2>4, <2>6 DEF Faultless, HeldIsOwned, CreatedIsYoung, OneCreator,
       UnownedIsCreated, MissingIsUnowned, NothingAbandoned, new
<1> QED
  BY <1>2, <1>3

LEMMA StatPreserves ==
    ASSUME TypeOK, Faultless, NEW t \in Task, NEW k \in Key, StatDirectory(t, k)
    PROVE  Faultless'
<1>1. pc[t] = "stat" /\ Unmoved /\ (lock[k].exists => ~lock[k].old)
  BY DEF StatDirectory, Faultless, StatFindsYoung
<1>2. CASE lock[k].exists
  <2>1. Goto(t, "poll")
    BY <1>1, <1>2 DEF StatDirectory
  <2> QED
    BY <1>1, <2>1, MovePreserves
<1>3. CASE ~lock[k].exists
  <2>1. Goto(t, "mkdir")
    BY <1>3 DEF StatDirectory
  <2> QED
    BY <1>1, <2>1, MovePreserves
<1> QED
  BY <1>2, <1>3

LEMMA ReleasePreserves ==
    ASSUME TypeOK, Faultless, NEW t \in Task, NEW k \in Key, ReadBack(t, k) \/ ReleaseLock(t, k)
    PROVE  Faultless'
<1>1. k \in got[t] /\ lock[k].exists /\ lock[k].owner = t
  BY DEF ReadBack, ReleaseLock, LastGot, Faultless, HeldIsOwned
<1>2. CASE ReadBack(t, k)
  <2>1. Goto(t, "remove") /\ Unmoved /\ pc[t] = "readback"
    BY <1>1, <1>2 DEF ReadBack, Unmoved
  <2> QED
    BY <2>1, MovePreserves
<1>3. CASE ReleaseLock(t, k)
  <2> DEFINE new == pc'
             dirs == lock'
             have == got'
  <2>1. /\ \A u \in Task : u # t => new[u] = pc[u] /\ have[u] = got[u]
        /\ new[t] = "readback" /\ pc[t] = "remove" /\ have[t] = got[t] \ {k}
        /\ \A j \in Key : dirs[j] = IF j = k THEN NoDir ELSE lock[j]
        /\ gone' = gone
    BY <1>3 DEF ReleaseLock, Goto, TypeOK
  <2>2. \A u \in Task, j \in Key : u # t => (Needs(u, j)' <=> Needs(u, j))
    BY <2>1, NeedsStable
  <2> HIDE DEF new, dirs, have
  <2>3. \A u \in Task, j \in Key : Creates(u, j)' <=> Creates(u, j)
    BY <2>1, <2>2 DEF Creates, new
  <2>4. NoDir.owner = NoOwner /\ ~NoDir.old /\ ~NoDir.exists /\ NoOwner \notin Task
    BY CallsAssumption DEF NoDir
  <2>5. \A u \in Task : ~Creates(u, k) /\ (u # t => k \notin got[u])
    BY <1>1, <2>4 DEF Faultless, CreatedIsYoung, HeldIsOwned
  <2>6. HeldIsOwned' /\ CreatedIsYoung' /\ OneCreator'
    BY <2>1, <2>3, <2>5 DEF Faultless, HeldIsOwned, CreatedIsYoung, OneCreator, dirs, have
  <2>7. UnownedIsCreated' /\ MissingIsUnowned'
    BY <2>1, <2>3, <2>4 DEF Faultless, UnownedIsCreated, MissingIsUnowned, dirs
  <2>8. StatFindsYoung' /\ NothingAbandoned'
    BY <2>1, <2>2, <2>4 DEF Faultless, StatFindsYoung, NothingAbandoned, new, dirs
  <2> QED
    BY <2>6, <2>7, <2>8 DEF Faultless
<1> QED
  BY <1>2, <1>3

\* Without a stall, only directories with an owner grow old.
LEMMA AgePreserves ==
    ASSUME TypeOK, Faultless, NEW k \in Key, Age(k), faults' = {}
    PROVE  Faultless'
<1> DEFINE dirs == lock'
<1>1. \A t \in Task : ~Midway(t, k)
  BY DEF Age, Fault
<1>2. lock[k].exists /\ lock[k].owner # NoOwner
  BY <1>1 DEF Age, Faultless, UnownedIsCreated, Creates, Midway
<1>3. /\ \A j \in Key : dirs[j].owner = lock[j].owner /\ dirs[j].exists = lock[j].exists
      /\ \A j \in Key : j # k => dirs[j] = lock[j]
      /\ pc' = pc /\ got' = got /\ gone' = gone
  BY DEF Age, TypeOK
<1>4. \A u \in Task, j \in Key : Needs(u, j)' <=> Needs(u, j)
  BY <1>3, NeedsStable
<1> HIDE DEF dirs
<1>5. \A u \in Task, j \in Key : Creates(u, j)' <=> Creates(u, j)
  BY <1>3, <1>4 DEF Creates
<1>6. \A u \in Task : ~Creates(u, k) /\ ~(pc[u] = "stat" /\ Needs(u, k))
  BY <1>1, <1>2 DEF Creates, Midway
<1>7. HeldIsOwned' /\ CreatedIsYoung' /\ OneCreator'
  BY <1>3, <1>5, <1>6 DEF Faultless, HeldIsOwned, CreatedIsYoung, OneCreator, dirs
<1>8. UnownedIsCreated' /\ MissingIsUnowned'
  BY <1>2, <1>3, <1>5 DEF Faultless, UnownedIsCreated, MissingIsUnowned, dirs
<1>9. StatFindsYoung' /\ NothingAbandoned'
  BY <1>3, <1>4, <1>6 DEF Faultless, StatFindsYoung, NothingAbandoned, dirs
<1> QED
  BY <1>7, <1>8, <1>9 DEF Faultless

LEMMA FaultlessStep ==
    ASSUME TypeOK, Faultless, Next, faults' = {}
    PROVE  Faultless'
<1>1. \A t \in Task, k \in Key : ~ClearAbandoned(t, k) /\ ~RemovalFails(t, k)
  BY DEF ClearAbandoned, RemovalFails, Fault, Faultless, NothingAbandoned
<1>2. \A p \in Proc : ~Crash(p) /\ ~ReusePid(p)
  BY DEF Crash, ReusePid, Fault
<1> QED
  BY <1>1, <1>2, StartPreserves, MakeDirectoryPreserves, WriteOwnerPreserves, WriteErrorPreserves,
     RemoveUnwrittenPreserves, ReadOwnerPreserves, StatPreserves, ReleasePreserves, AgePreserves
     DEF Next, Acquire, Release

\* Faults are never forgotten.
LEMMA FaultsGrow == ASSUME TypeOK, Next PROVE faults \subseteq faults'
BY DEF Next, Acquire, Release, Start, PollAgain, TimeOut, OperationEnds, Finish, MakeDirectory,
       MakeFails,
       WriteOwner, WriteFindsOwner, WriteFindsNothing, WriteFails, RemoveUnwritten, ReadOwner,
       StatDirectory, ClearAbandoned, ReadBack, ReleaseLock, RemovalFails, Crash, ReusePid, Age,
       Fault, Unmoved, FileSystemOnly

LEMMA InductiveStep == IInv /\ [Next]_vars => IInv'
<1> SUFFICES ASSUME IInv, [Next]_vars PROVE IInv'
  OBVIOUS
<1>1. TypeOK'
  BY TypeStep DEF IInv
<1>2. CASE UNCHANGED vars
  BY <1>1, <1>2 DEF vars, IInv, Faultless, HeldIsOwned, CreatedIsYoung, OneCreator, Creates, Needs,
     UnownedIsCreated, MissingIsUnowned, StatFindsYoung, NothingAbandoned
<1>3. CASE Next
  BY <1>1, <1>3, FaultlessStep, FaultsGrow DEF IInv
<1> QED
  BY <1>2, <1>3

LEMMA IInvHolds == Spec => []IInv
<1>1. Init => IInv
  BY TypeInit, FaultlessInit DEF IInv
<1> QED
  BY <1>1, InductiveStep, PTL DEF Spec

\* As long as no process died, no call stalled midway and no removal failed,
\* two calls never hold one resource: for any number of calls, nested key sets,
\* processes and hosts, with timeouts and write errors.
THEOREM MutexCorrect == Spec => []FaultlessMutualExclusion
<1>1. IInv => FaultlessMutualExclusion
  BY DEF IInv, Faultless, HeldIsOwned, FaultlessMutualExclusion, MutualExclusion, Holds
<1> QED
  BY <1>1, IInvHolds, PTL

\* The error paths of the owner write leave no directory behind.
THEOREM UnownedCorrect == Spec => []UnownedIsTransient
<1>1. IInv => UnownedIsTransient
  BY DEF IInv, Faultless, UnownedIsCreated, Creates, UnownedIsTransient
<1> QED
  BY <1>1, IInvHolds, PTL

-----------------------------------------------------------------------------
(* Clean-up, whatever happens to other calls. *)

\* A step in which no owner appears and no live call loses a lock it owns.
LEMMA QuietStep ==
    ASSUME TypeOK, OwnersHold,
           \A k \in Key : lock'[k].owner \in {lock[k].owner, NoOwner},
           faults \subseteq faults',
           \A t \in Task : \/ got'[t] = got[t] /\ pc'[t] \in {pc[t], "dead"}
                           \/ got'[t] = got[t] /\ pc'[t] # "done" /\ pc[t] # "dead"
    PROVE  OwnersHold'
BY CallsAssumption DEF OwnersHold, Live, TypeOK

LEMMA LeftBehindStep == TypeOK /\ OwnersHold /\ [Next]_vars => OwnersHold'
<1> SUFFICES ASSUME TypeOK, OwnersHold, [Next]_vars PROVE OwnersHold'
  OBVIOUS
<1>0. /\ lock \in [Key -> Dirs] /\ pc \in [Task -> Labels] /\ got \in [Task -> SUBSET Key]
      /\ NoOwner \notin Task
  BY CallsAssumption DEF TypeOK, Dirs
<1>a. ASSUME NEW t \in Task, NEW label, Goto(t, label), Unmoved, label # "done", Live(t)
      PROVE  OwnersHold'
  BY <1>a, <1>0, QuietStep DEF Goto, Unmoved, Live
<1>b. ASSUME NEW t \in Task, NEW k \in Key, NEW label, NEW d,
             d.owner = NoOwner, Goto(t, label), lock' = [lock EXCEPT ![k] = d],
             FileSystemOnly, label # "done", Live(t)
      PROVE  OwnersHold'
  BY <1>b, <1>0, QuietStep DEF Goto, FileSystemOnly, Live
<1>c. NoDir.owner = NoOwner /\ Dir(NoOwner).owner = NoOwner
  BY DEF NoDir, Dir
<1>1. ASSUME NEW t \in Task, Start(t) \/ PollAgain(t) \/ TimeOut(t) \/ OperationEnds(t)
      PROVE  OwnersHold'
  BY <1>1, <1>a, LoopLabelType DEF Start, PollAgain, TimeOut, OperationEnds, Live
<1>2. ASSUME NEW t \in Task, NEW k \in Key, MakeDirectory(t, k) PROVE OwnersHold'
  <2>1. CASE UNCHANGED lock /\ Goto(t, "read")
    BY <1>2, <2>1, <1>a DEF MakeDirectory, Unmoved, FileSystemOnly, Live
  <2>2. CASE lock' = [lock EXCEPT ![k] = Dir(NoOwner)] /\ Goto(t, "write")
    BY <1>2, <2>2, <1>b, <1>c DEF MakeDirectory, Live
  <2> QED
    BY <1>2, <2>1, <2>2 DEF MakeDirectory
<1>3. ASSUME NEW t \in Task, NEW k \in Key, WriteOwner(t, k) PROVE OwnersHold'
  <2>1. /\ \A u \in Task : u # t => pc'[u] = pc[u] /\ got'[u] = got[u]
        /\ pc'[t] \in {"operate", "mkdir"} /\ got'[t] = got[t] \cup {k} /\ Live(t)
        /\ \A j \in Key : lock'[j].owner = IF j = k THEN t ELSE lock[j].owner
        /\ faults' = faults
    BY <1>3, <1>0, LoopLabelType DEF WriteOwner, Goto, Dir, Live
  <2> QED
    BY <2>1 DEF OwnersHold, Live
<1>4. ASSUME NEW t \in Task, NEW k \in Key,
             \/ WriteFindsOwner(t, k) \/ WriteFindsNothing(t, k) \/ WriteFails(t, k)
             \/ ReadOwner(t, k) \/ StatDirectory(t, k) \/ MakeFails(t, k)
      PROVE  OwnersHold'
  BY <1>4, <1>a DEF MakeFails, WriteFindsOwner, WriteFindsNothing, WriteFails, ReadOwner, StatDirectory, Live
<1>5. ASSUME NEW t \in Task, NEW k \in Key, RemoveUnwritten(t, k) \/ ClearAbandoned(t, k)
      PROVE  OwnersHold'
  BY <1>5, <1>b, <1>c DEF RemoveUnwritten, ClearAbandoned, Live
<1>6. ASSUME NEW t \in Task, Finish(t) PROVE OwnersHold'
  <2>1. \A k \in Key : "rm" \notin faults => lock[k].owner # t
    BY <1>6 DEF Finish, OwnersHold, Live
  <2>2. /\ \A u \in Task : u # t => pc'[u] = pc[u]
        /\ lock' = lock /\ got' = got /\ faults' = faults
    BY <1>6, <1>0 DEF Finish, Goto, Unmoved
  <2> QED
    BY <2>1, <2>2 DEF OwnersHold, Live
<1>7. ASSUME NEW t \in Task, NEW k \in Key, ReadBack(t, k) PROVE OwnersHold'
  <2>1. CASE Goto(t, "remove") /\ UNCHANGED got
    BY <1>7, <2>1, <1>a DEF ReadBack, Unmoved, Live
  <2>2. CASE lock[k].owner # t /\ got' = [got EXCEPT ![t] = @ \ {k}]
             /\ UNCHANGED pc
    <3>1. /\ \A u \in Task : u # t => got'[u] = got[u]
          /\ got'[t] = got[t] \ {k} /\ pc' = pc /\ lock' = lock /\ faults' = faults
      BY <1>7, <2>2, <1>0 DEF ReadBack
    <3> QED
      BY <2>2, <3>1 DEF OwnersHold, Live
  <2> QED
    BY <1>7, <2>1, <2>2 DEF ReadBack
<1>8. ASSUME NEW t \in Task, NEW k \in Key, ReleaseLock(t, k) PROVE OwnersHold'
  <2>1. /\ \A u \in Task : u # t => pc'[u] = pc[u] /\ got'[u] = got[u]
        /\ pc'[t] = "readback" /\ got'[t] = got[t] \ {k} /\ Live(t)
        /\ \A j \in Key : lock'[j].owner = IF j = k THEN NoOwner ELSE lock[j].owner
        /\ faults' = faults
    BY <1>8, <1>0, <1>c DEF ReleaseLock, Goto, Live
  <2> QED
    BY <2>1, <1>0 DEF OwnersHold, Live
<1>9. ASSUME NEW t \in Task, NEW k \in Key, RemovalFails(t, k) PROVE OwnersHold'
  BY <1>9 DEF RemovalFails, Fault, OwnersHold
<1>10. ASSUME NEW k \in Key, Age(k) PROVE OwnersHold'
  BY <1>10, <1>0, QuietStep DEF Age, Fault
<1>11. ASSUME NEW p \in Proc, Crash(p) \/ ReusePid(p) PROVE OwnersHold'
  BY <1>11, <1>0, QuietStep DEF Crash, ReusePid, Fault
<1>12. CASE UNCHANGED vars
  BY <1>12 DEF vars, OwnersHold, Live
<1> QED
  BY <1>1, <1>2, <1>3, <1>4, <1>5, <1>6, <1>7, <1>8, <1>9, <1>10, <1>11, <1>12
     DEF Next, Acquire, Release

\* A call that ended leaves no directory that names it unless a removal failed, also
\* when others crash, stall, or clear its directory under it; and without a fault
\* the error paths leave none that nobody owns.
THEOREM CleanUpCorrect == Spec => []NoLockLeftBehind
<1>1. Init => OwnersHold
  BY CallsAssumption DEF Init, OwnersHold, NoDir
<1>2. Spec => []OwnersHold
  BY <1>1, TypeCorrect, LeftBehindStep, PTL DEF Spec
<1>3. OwnersHold /\ UnownedIsTransient => NoLockLeftBehind
  BY DEF NoLockLeftBehind
<1> QED
  BY <1>2, <1>3, UnownedCorrect, PTL

-----------------------------------------------------------------------------
(* Implementation of ResourceMutex. *)

LEMMA Phases ==
    /\ PhaseOf("operate") = "operating"
    /\ PhaseOf("readback") = "releasing" /\ PhaseOf("remove") = "releasing"
    /\ PhaseOf("done") = "ended"
    /\ \A label \in Labels \ {"operate", "readback", "remove", "done"} : PhaseOf(label) = "acquiring"
BY DEF PhaseOf, Labels

\* Where the acquisition loop goes, in the terms of the promise.
LEMMA LoopPhase ==
    ASSUME NEW t \in Task, NEW held
    PROVE  PhaseOf(LoopLabel(t, held)) = IF Wanted(t) \subseteq held THEN "operating" ELSE "acquiring"
BY Phases DEF LoopLabel, Labels

LEMMA MutexInitRefines == Init => Mutex!MutexInit
BY Phases DEF Init, Mutex!MutexInit, Labels

\* A step that moves one call and touches no collected lock, seen through PhaseOf.
LEMMA MoveRefines ==
    ASSUME TypeOK, NEW t \in Task, NEW label, Goto(t, label), got' = got,
           \/ PhaseOf(label) = PhaseOf(pc[t])
           \/ PhaseOf(label) = "releasing" /\ PhaseOf(pc[t]) \in {"acquiring", "operating"}
           \/ PhaseOf(label) = "operating" /\ PhaseOf(pc[t]) = "acquiring" /\ Wanted(t) = {}
           \/ PhaseOf(label) = "ended" /\ PhaseOf(pc[t]) = "releasing" /\ got[t] = {}
    PROVE  [Mutex!MutexNext]_(Mutex!mutexVars)
<1> DEFINE phase == [u \in Task |-> PhaseOf(pc[u])]
<1>1. phase' = [phase EXCEPT ![t] = PhaseOf(label)]
  BY DEF Goto, TypeOK
<1>2. phase[t] = PhaseOf(pc[t])
  OBVIOUS
<1>3. CASE PhaseOf(label) = PhaseOf(pc[t])
  BY <1>1, <1>3 DEF Mutex!mutexVars
<1>4. CASE PhaseOf(label) = "releasing" /\ PhaseOf(pc[t]) \in {"acquiring", "operating"}
  <2>1. Mutex!Leave(t)
    BY <1>1, <1>2, <1>4 DEF Mutex!Leave
  <2> QED
    BY <2>1 DEF Mutex!MutexNext
<1>5. CASE PhaseOf(label) = "operating" /\ PhaseOf(pc[t]) = "acquiring" /\ Wanted(t) = {}
  <2>1. Mutex!RunUnlocked(t)
    BY <1>1, <1>2, <1>5 DEF Mutex!RunUnlocked
  <2> QED
    BY <2>1 DEF Mutex!MutexNext
<1>6. CASE PhaseOf(label) = "ended" /\ PhaseOf(pc[t]) = "releasing" /\ got[t] = {}
  <2>1. Mutex!End(t)
    BY <1>1, <1>2, <1>6 DEF Mutex!End
  <2> QED
    BY <2>1 DEF Mutex!MutexNext
<1> QED
  BY <1>3, <1>4, <1>5, <1>6

LEMMA TakeRefines ==
    ASSUME TypeOK, Faultless, NEW t \in Task, NEW k \in Key, WriteOwner(t, k)
    PROVE  Mutex!MutexNext
<1> DEFINE phase == [u \in Task |-> PhaseOf(pc[u])]
           held == got[t] \cup {k}
<1>1. pc[t] = "write" /\ k \in Wanted(t)
  BY DEF WriteOwner, Needs
<1>2. phase[t] = "acquiring"
  BY <1>1, Phases DEF Labels
<1>3. \A u \in Task : k \notin got[u]
  BY CallsAssumption DEF WriteOwner, Faultless, HeldIsOwned
<1>4. got' = [got EXCEPT ![t] = @ \cup {k}] /\ got'[t] = held
  BY DEF WriteOwner, TypeOK
<1>5. phase' = [phase EXCEPT ![t] = PhaseOf(LoopLabel(t, held))]
  BY DEF WriteOwner, Goto, TypeOK
<1>6. phase' = [phase EXCEPT ![t] = IF Wanted(t) \subseteq got'[t] THEN "operating" ELSE @]
  BY <1>2, <1>4, <1>5, LoopPhase
<1>7. Mutex!Take(t, k)
  BY <1>1, <1>2, <1>3, <1>4, <1>6 DEF Mutex!Take
<1> QED
  BY <1>7 DEF Mutex!MutexNext

LEMMA DropRefines ==
    ASSUME TypeOK, NEW t \in Task, NEW k \in Key, k \in got[t],
           got' = [got EXCEPT ![t] = @ \ {k}], pc[t] \in {"readback", "remove"},
           pc' \in {pc, [pc EXCEPT ![t] = "readback"]}
    PROVE  Mutex!MutexNext
<1> DEFINE phase == [u \in Task |-> PhaseOf(pc[u])]
<1>1. phase[t] = "releasing"
  BY Phases
<1>2. phase' = phase
  BY Phases DEF TypeOK
<1>3. Mutex!Drop(t, k)
  BY <1>1, <1>2 DEF Mutex!Drop
<1> QED
  BY <1>3 DEF Mutex!MutexNext

LEMMA StepRefines ==
    ASSUME TypeOK, TypeOK', Faultless, faults' = {}, [Next]_vars
    PROVE  [Mutex!MutexNext]_(Mutex!mutexVars)
<1>0. pc \in [Task -> Labels]
  BY DEF TypeOK
<1>1. CASE UNCHANGED vars
  BY <1>1 DEF vars, Mutex!mutexVars
<1>2. ASSUME NEW t \in Task, Start(t) PROVE [Mutex!MutexNext]_(Mutex!mutexVars)
  <2>1. PhaseOf(pc[t]) = "acquiring"
    BY <1>2, Phases DEF Start, Labels
  <2>2. CASE Wanted(t) = {}
    BY <1>2, <2>1, <2>2, LoopPhase, MoveRefines DEF Start, Unmoved
  <2>3. CASE Wanted(t) # {}
    BY <1>2, <2>1, <2>3, LoopPhase, MoveRefines DEF Start, Unmoved
  <2> QED
    BY <2>2, <2>3
<1>3. ASSUME NEW t \in Task, NEW k \in Key,
             \/ MakeDirectory(t, k) \/ WriteFindsOwner(t, k) \/ WriteFindsNothing(t, k)
             \/ WriteFails(t, k) \/ ReadOwner(t, k) \/ StatDirectory(t, k) \/ ClearAbandoned(t, k)
      PROVE  [Mutex!MutexNext]_(Mutex!mutexVars)
  <2> DEFINE Waiting == {"mkdir", "write", "undo", "abort", "read", "stat", "clear", "sweep", "poll"}
  <2>1. PICK label \in Waiting : Goto(t, label) /\ got' = got /\ pc[t] \in Waiting
    BY <1>3 DEF MakeDirectory, WriteFindsOwner, WriteFindsNothing, WriteFails, ReadOwner,
                StatDirectory, ClearAbandoned, Unmoved, FileSystemOnly
  <2>2. \A w \in Waiting : PhaseOf(w) = "acquiring"
    BY Phases DEF Labels
  <2> QED
    BY <2>1, <2>2, MoveRefines
<1>4. ASSUME NEW t \in Task, PollAgain(t) PROVE [Mutex!MutexNext]_(Mutex!mutexVars)
  BY <1>4, Phases, MoveRefines DEF PollAgain, Unmoved, Labels
<1>5. ASSUME NEW t \in Task, NEW k \in Key, WriteOwner(t, k)
      PROVE  [Mutex!MutexNext]_(Mutex!mutexVars)
  BY <1>5, TakeRefines
<1>6. ASSUME NEW t \in Task, NEW k \in Key, RemoveUnwritten(t, k)
      PROVE  [Mutex!MutexNext]_(Mutex!mutexVars)
  <2>1. Goto(t, "readback") /\ got' = got /\ pc[t] = "abort"
    BY <1>6 DEF RemoveUnwritten, FileSystemOnly, Faultless, NothingAbandoned
  <2> QED
    BY <2>1, Phases, MoveRefines DEF Labels
<1>7. ASSUME NEW t \in Task,
             TimeOut(t) \/ OperationEnds(t) \/ (\E k \in Key : MakeFails(t, k))
      PROVE  [Mutex!MutexNext]_(Mutex!mutexVars)
  BY <1>7, Phases, MoveRefines DEF MakeFails, TimeOut, OperationEnds, Unmoved, Labels
<1>8. ASSUME NEW t \in Task, Finish(t) PROVE [Mutex!MutexNext]_(Mutex!mutexVars)
  BY <1>8, Phases, MoveRefines DEF Finish, Unmoved
<1>9. ASSUME NEW t \in Task, NEW k \in Key, ReadBack(t, k)
      PROVE  [Mutex!MutexNext]_(Mutex!mutexVars)
  <2>1. Goto(t, "remove") /\ got' = got
    BY <1>9 DEF ReadBack, LastGot, Faultless, HeldIsOwned
  <2> QED
    BY <1>9, <2>1, Phases, MoveRefines DEF ReadBack
<1>10. ASSUME NEW t \in Task, NEW k \in Key, ReleaseLock(t, k)
      PROVE  [Mutex!MutexNext]_(Mutex!mutexVars)
  BY <1>10, DropRefines DEF ReleaseLock, LastGot, Goto
<1>11. ASSUME NEW k \in Key, Age(k) PROVE [Mutex!MutexNext]_(Mutex!mutexVars)
  BY <1>11 DEF Age, Mutex!mutexVars
<1>12. /\ \A t \in Task, k \in Key : ~RemovalFails(t, k)
       /\ \A p \in Proc : ~Crash(p) /\ ~ReusePid(p)
  BY DEF RemovalFails, Crash, ReusePid, Fault
<1> QED
  BY <1>1, <1>2, <1>3, <1>4, <1>5, <1>6, <1>7, <1>8, <1>9, <1>10, <1>11, <1>12
     DEF Next, Acquire, Release

\* Until a fault happens, the directory protocol implements ResourceMutex: every
\* step takes and drops resources as the promise allows, an operation runs only
\* with every resource held, and a call ends only with none.
THEOREM LockImplementsMutex == Spec => ImplementsMutex
<1> DEFINE Refines == faults' = {} => Mutex!MutexNext
<1>1. IInv /\ IInv' /\ [Next]_vars => [Refines]_(Mutex!mutexVars)
  <2> SUFFICES ASSUME IInv, IInv', [Next]_vars, faults' = {}
               PROVE  [Mutex!MutexNext]_(Mutex!mutexVars)
    OBVIOUS
  <2>1. faults = {}
    <3>1. CASE Next
      BY <3>1, FaultsGrow DEF IInv
    <3>2. CASE UNCHANGED vars
      BY <3>2 DEF vars
    <3> QED
      BY <3>1, <3>2
  <2> QED
    BY <2>1, StepRefines DEF IInv
<1>2. Spec => [][Refines]_(Mutex!mutexVars)
  BY <1>1, IInvHolds, PTL DEF Spec
<1> QED
  BY <1>2, MutexInitRefines DEF Spec, ImplementsMutex

------------------------------------------------------------------------------
-----------------------------------------------------------------------------
(* Calls never wait for one another in a circle. *)

\* While a call acquires, what it holds is what comes first in its order.
Acquiring == {"idle", "mkdir", "write", "abort", "undo", "read", "stat", "clear", "sweep", "poll"}
InOrder ==
    \A t \in Task : pc[t] \in Acquiring =>
        \A j, k \in Key : k \in got[t] /\ Before(t, j, k) => j \in got[t]

LEMMA InOrderStep == TypeOK /\ InOrder /\ [Next]_vars => InOrder'
<1> SUFFICES ASSUME TypeOK, InOrder, [Next]_vars PROVE InOrder'
  OBVIOUS
<1>0. pc \in [Task -> Labels] /\ got \in [Task -> SUBSET Key]
  BY DEF TypeOK
<1>a. ASSUME NEW t \in Task, NEW label, Goto(t, label), got' = got,
             pc[t] \in Acquiring \/ label \notin Acquiring
      PROVE  InOrder'
  BY <1>a, <1>0 DEF InOrder, Goto, Before
<1>b. ASSUME NEW t \in Task, NEW label, Goto(t, label), label \notin Acquiring,
             \A u \in Task : u # t => got'[u] = got[u]
      PROVE  InOrder'
  BY <1>b, <1>0 DEF InOrder, Goto, Before
<1>1. ASSUME NEW t \in Task,
             \/ Start(t) \/ PollAgain(t) \/ TimeOut(t) \/ OperationEnds(t) \/ Finish(t)
             \/ \E k \in Key : \/ MakeDirectory(t, k) \/ WriteFindsOwner(t, k)
                               \/ WriteFindsNothing(t, k) \/ WriteFails(t, k)
                               \/ MakeFails(t, k) \/ RemoveUnwritten(t, k) \/ ReadOwner(t, k)
                               \/ StatDirectory(t, k) \/ ClearAbandoned(t, k)
      PROVE  InOrder'
  <2>1. got' = got
    BY <1>1 DEF Start, PollAgain, TimeOut, OperationEnds, Finish, MakeDirectory, WriteFindsOwner,
      WriteFindsNothing, WriteFails, MakeFails, RemoveUnwritten, ReadOwner, StatDirectory, ClearAbandoned,
      Unmoved, FileSystemOnly
  <2>2. \E label : Goto(t, label) /\ (pc[t] \in Acquiring \/ label \notin Acquiring)
    <3>1. CASE Start(t) \/ PollAgain(t) \/ TimeOut(t)
      BY <3>1 DEF Start, PollAgain, TimeOut, Acquiring
    <3>2. CASE OperationEnds(t) \/ Finish(t)
      BY <3>2 DEF OperationEnds, Finish, Acquiring
    <3>3. ASSUME NEW k \in Key,
                 \/ MakeDirectory(t, k) \/ WriteFindsOwner(t, k)
                 \/ WriteFindsNothing(t, k) \/ WriteFails(t, k)
                 \/ MakeFails(t, k) \/ RemoveUnwritten(t, k) \/ ReadOwner(t, k)
                 \/ StatDirectory(t, k) \/ ClearAbandoned(t, k)
          PROVE  \E label : Goto(t, label) /\ pc[t] \in Acquiring
      BY <3>3 DEF MakeDirectory, WriteFindsOwner, WriteFindsNothing, WriteFails, MakeFails, RemoveUnwritten,
        ReadOwner, StatDirectory, ClearAbandoned, Acquiring
    <3> QED
      BY <1>1, <3>1, <3>2, <3>3
  <2> QED
    BY <2>1, <2>2, <1>a
<1>2. ASSUME NEW t \in Task, NEW k \in Key, WriteOwner(t, k) PROVE InOrder'
  <2>1. /\ got'[t] = got[t] \cup {k} /\ pc[t] \in Acquiring
        /\ \A u \in Task : u # t => got'[u] = got[u] /\ pc'[u] = pc[u]
        /\ \A j \in Key : Before(t, j, k) => j \in got[t]
    BY <1>2, <1>0 DEF WriteOwner, Goto, Acquiring, Needs
  <2> QED
    BY <2>1 DEF InOrder, Before
<1>3. ASSUME NEW t \in Task, NEW k \in Key,
             ReadBack(t, k) \/ ReleaseLock(t, k) \/ RemovalFails(t, k)
      PROVE  InOrder'
  <2>1. \A u \in Task : u # t => got'[u] = got[u] /\ pc'[u] = pc[u]
    BY <1>3, <1>0 DEF ReadBack, ReleaseLock, RemovalFails, Goto
  <2>2. pc'[t] \in {"readback", "remove"} \/ (got'[t] = got[t] /\ pc[t] \in Acquiring)
    BY <1>3, <1>0 DEF ReadBack, ReleaseLock, RemovalFails, Goto, Acquiring
  <2> QED
    BY <2>1, <2>2 DEF InOrder, Before, Acquiring
<1>4. ASSUME NEW k \in Key, Age(k) PROVE InOrder'
  BY <1>4 DEF Age, InOrder, Before
<1>5. ASSUME NEW p \in Proc, Crash(p) PROVE InOrder'
  <2>1. got' = got /\ \A t \in Task : pc'[t] \in {pc[t], "dead"}
    BY <1>5 DEF Crash
  <2> QED
    BY <2>1 DEF InOrder, Before, Acquiring
<1>6. ASSUME NEW p \in Proc, ReusePid(p) PROVE InOrder'
  BY <1>6 DEF ReusePid, InOrder, Before
<1>7. CASE UNCHANGED vars
  BY <1>7 DEF vars, InOrder, Before
<1> QED
  BY <1>1, <1>2, <1>3, <1>4, <1>5, <1>6, <1>7 DEF Next, Acquire, Release

\* The calls agree on one order of the resources: what a call acquires first has the
\* lower rank.  Sorted keys do if no calls are nested.
Ranked(Rank) ==
    /\ Rank \in [Key -> Nat]
    /\ \A t \in Task : \A j, k \in Key : Before(t, j, k) => Rank[j] < Rank[k]

\* A call that is waited for, and waits itself, waits for a resource of higher rank.
LEMMA WaitsClimb ==
    ASSUME TypeOK, InOrder, NEW Rank, Ranked(Rank), NEW t \in Task, NEW u \in Task,
           NEW v \in Task, WaitsFor(t, u), WaitsFor(u, v)
    PROVE  \A j, k \in Key : Needs(t, j) /\ Needs(u, k) => Rank[j] < Rank[k]
<1>1. PICK j \in Key : Needs(t, j) /\ j \in got[u]
  BY DEF WaitsFor
<1>2. PICK k \in Key : Needs(u, k)
  BY DEF WaitsFor
<1>3. pc[u] \in Acquiring
  BY DEF WaitsFor, Acquiring
<1>4. j \in Wanted(u) /\ k \in Wanted(u) /\ j # k
  BY <1>1, <1>2 DEF TypeOK, Needs
<1>5. ~Before(u, k, j)
  BY <1>1, <1>2, <1>3 DEF InOrder, Needs
<1>6. Before(u, j, k)
  BY <1>4, <1>5, BeforeTotal
<1>7. Rank[j] < Rank[k]
  BY <1>6 DEF Ranked
<1> QED
  BY <1>1, <1>2, <1>7, NeedsUnique

\* So a finite circle would climb for ever.
LEMMA NoCircle ==
    ASSUME TypeOK, InOrder, NEW Rank, Ranked(Rank), IsFiniteSet(Task)
    PROVE  NoCircularWait
<1> SUFFICES ASSUME NEW S \in SUBSET Task, S # {},
                    \A t \in S : \E u \in S : WaitsFor(t, u)
             PROVE  FALSE
  BY DEF NoCircularWait
<1> DEFINE Above(t) == {u \in S : \E j, k \in Key : Needs(t, j) /\ Needs(u, k) /\ Rank[j] < Rank[k]}
           T == {Above(t) : t \in S}
<1>1. T \subseteq FiniteSubsetsOf(Task) /\ T # {}
  <2>1. ASSUME NEW t \in S PROVE Above(t) \in SUBSET Task /\ IsFiniteSet(Above(t))
    BY FS_Subset
  <2>2. PICK t \in S : TRUE
    OBVIOUS
  <2> HIDE DEF Above
  <2>3. T # {}
    BY <2>2
  <2>4. \A x \in T : x \in SUBSET Task /\ IsFiniteSet(x)
    BY <2>1
  <2> HIDE DEF T
  <2> QED
    BY <2>3, <2>4 DEF FiniteSubsetsOf
<1>2. PICK x \in T : \A y \in T : <<y, x>> \notin StrictSubsetOrdering(Task)
  <2> HIDE DEF T
  <2> QED
    BY <1>1, FS_StrictSubsetOrderingWellFounded, WFMin
<1>3. PICK t \in S : x = Above(t)
  OBVIOUS
<1>4. PICK u \in S : WaitsFor(t, u)
  OBVIOUS
<1>5. PICK v \in S : WaitsFor(u, v)
  OBVIOUS
<1>6. PICK j \in Key : Needs(t, j)
  BY <1>4 DEF WaitsFor
<1>7. PICK k \in Key : Needs(u, k)
  BY <1>5 DEF WaitsFor
<1>8. Rank[j] < Rank[k] /\ Rank[j] \in Nat /\ Rank[k] \in Nat
  <2>1. t \in Task /\ u \in Task /\ v \in Task
    OBVIOUS
  <2> QED
    BY <2>1, <1>4, <1>5, <1>6, <1>7, WaitsClimb DEF Ranked
<1>9. u \in Above(t) /\ u \notin Above(u)
  BY <1>6, <1>7, <1>8, NeedsUnique
<1>10. Above(u) \subseteq Above(t)
  <2>1. ASSUME NEW w \in S, NEW i \in Key, NEW l \in Key, Needs(u, i), Needs(w, l),
               Rank[i] < Rank[l]
        PROVE  Rank[j] < Rank[l]
    <3>1. i = k
      BY <1>7, <2>1, NeedsUnique
    <3>2. Rank[l] \in Nat
      BY DEF Ranked
    <3> QED
      BY <1>8, <2>1, <3>1, <3>2
  <2> QED
    BY <1>6, <2>1
<1>11. <<Above(u), Above(t)>> \in StrictSubsetOrdering(Task)
  BY <1>9, <1>10 DEF StrictSubsetOrdering
<1> QED
  BY <1>2, <1>3, <1>11

\* Finitely many calls that agree on an order of the resources never wait in a circle,
\* whatever crashes, stalls and fails: no timeout is needed to get out of one.
THEOREM NoDeadlock ==
    ASSUME NEW CONSTANT Rank, Ranked(Rank), IsFiniteSet(Task)
    PROVE  Spec => []NoCircularWait
<1>1. Init => InOrder
  BY DEF Init, InOrder
<1>2. TypeOK /\ InOrder => NoCircularWait
  BY NoCircle
<1> QED
  BY <1>1, <1>2, InOrderStep, TypeCorrect, PTL DEF Spec

=============================================================================
