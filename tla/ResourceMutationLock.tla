------------------------ MODULE ResourceMutationLock ------------------------
(***************************************************************************)
(* src/services/resource-mutation-lock.ts: a lock per workspace resource   *)
(* that is a directory.  `mkdir` decides who has it, `owner.json` inside   *)
(* says who that is, and contenders clear directories they judge to be     *)
(* abandoned.  Tasks are calls of withResourceMutationLock; several live   *)
(* in one process and several processes share the file system.             *)
(*                                                                         *)
(* Each await of the code ends a step.  `rm -rf` and `writeFile` are one   *)
(* step each: both are observed as done or not done.                       *)
(***************************************************************************)
EXTENDS Naturals, Sequences

CONSTANTS
    Task,        \* the calls of withResourceMutationLock, nested calls included
    Proc,        \* operating-system processes
    ProcOf,      \* the process a call runs in
    HostOf,      \* the host a process runs on
    Key,         \* resources of one user, numbered in the order .sort() gives
    Calls,       \* per task, the key arrays of its nested calls, outermost first
    NoOwner,     \* a directory without a readable owner.json
    FaultKinds   \* which faults may happen: a subset of AllFaults

AllFaults == {"crash", "pid", "stall", "rm"}
Labels == {"idle", "mkdir", "write", "abort", "undo", "read", "stat", "clear",
           "sweep", "poll", "operate", "readback", "remove", "done", "dead"}

ASSUME CallsAssumption ==
    /\ Key \subseteq Nat
    /\ ProcOf \in [Task -> Proc]
    /\ Calls \in [Task -> Seq(Seq(Key))]
    /\ NoOwner \notin Task
    /\ FaultKinds \subseteq AllFaults

VARIABLES
    lock,     \* Key -> the lock directory: NoDir, or its owner and whether it is 5 s old
    pc,       \* Task -> where the call is
    got,      \* Task -> the locks whose release functions it collected
    gone,     \* processes that died
    reused,   \* dead processes whose pid belongs to another process by now
    faults    \* history: the kinds of fault that happened

vars == <<lock, pc, got, gone, reused, faults>>

NoDir == [owner |-> NoOwner, old |-> FALSE, exists |-> FALSE]
Dir(o) == [owner |-> o, old |-> FALSE, exists |-> TRUE]

\* [...new Set(keys)].sort(): the keys of one call, once each.
KeysAt(t, l) == {Calls[t][l][i] : i \in DOMAIN Calls[t][l]}
Wanted(t) == UNION {KeysAt(t, l) : l \in DOMAIN Calls[t]}

\* Slip: The keys are acquired in the order of the caller's array.
BeforeAsListed(t, j, k) ==
    \E l, m \in DOMAIN Calls[t] : \E x \in DOMAIN Calls[t][l], y \in DOMAIN Calls[t][m] :
        /\ j = Calls[t][l][x] /\ k = Calls[t][m][y]
        /\ l < m \/ (l = m /\ x < y)

\* The order of acquisition: by call, outermost first, and sorted within one.
Before(t, j, k) ==
    \E l, m \in DOMAIN Calls[t] :
        /\ j \in KeysAt(t, l) /\ k \in KeysAt(t, m)
        /\ l < m \/ (l = m /\ j < k)

\* The key the for loop acquires next, and the one the finally block releases next.
Needs(t, k) == k \in Wanted(t) \ got[t] /\ \A j \in Key : Before(t, j, k) => j \in got[t]
LastGot(t, k) == k \in got[t] /\ \A j \in got[t] : ~Before(t, k, j)

Live(t) == pc[t] # "dead"
Holds(t, k) == k \in got[t] /\ Live(t)

\* Slip: Directories of live owners are cleared too.
RespondsToNothing(p) == p \in reused

\* isProcessAlive, asked on the host of the asker.
RespondsToSignal(p) == p \notin gone \/ p \in reused
LooksAlive(t, u) ==
    HostOf[ProcOf[u]] # HostOf[ProcOf[t]] \/ RespondsToSignal(ProcOf[u])

Goto(t, label) == pc' = [pc EXCEPT ![t] = label]
FileSystemOnly == UNCHANGED <<got, gone, reused, faults>>
Unmoved == UNCHANGED <<lock, got, gone, reused, faults>>

Init ==
    /\ lock = [k \in Key |-> NoDir]
    /\ pc = [t \in Task |-> "idle"]
    /\ got = [t \in Task |-> {}]
    /\ gone = {} /\ reused = {} /\ faults = {}

-----------------------------------------------------------------------------
(* Acquisition: withResourceMutationLock's loop and acquireResourceLock. *)

\* The next round of the for loop, or the operation once every key is held.
LoopLabel(t, held) == IF Wanted(t) \subseteq held THEN "operate" ELSE "mkdir"

Start(t) ==
    /\ pc[t] = "idle"
    /\ Goto(t, LoopLabel(t, {}))
    /\ Unmoved

\* The directory is made, or EEXIST sends the call to clearAbandonedLock.
MakeDirectory(t, k) ==
    /\ pc[t] = "mkdir" /\ Needs(t, k)
    /\ \/ ~lock[k].exists /\ lock' = [lock EXCEPT ![k] = Dir(NoOwner)] /\ Goto(t, "write")
       \/ lock[k].exists /\ UNCHANGED lock /\ Goto(t, "read")
    /\ FileSystemOnly

\* Any other error of mkdir leaves the function, and with it the loop.
MakeFails(t, k) ==
    /\ pc[t] = "mkdir" /\ Needs(t, k)
    /\ Goto(t, "readback") /\ Unmoved

\* owner.json is created exclusively: it fails when another call's file is there.
WriteOwner(t, k) ==
    /\ pc[t] = "write" /\ Needs(t, k)
    /\ lock[k].exists /\ lock[k].owner = NoOwner
    /\ lock' = [lock EXCEPT ![k] = Dir(t)]
    /\ got' = [got EXCEPT ![t] = @ \cup {k}]
    /\ Goto(t, LoopLabel(t, got[t] \cup {k}))
    /\ UNCHANGED <<gone, reused, faults>>

WriteFindsOwner(t, k) ==
    /\ pc[t] = "write" /\ Needs(t, k)
    /\ lock[k].exists /\ lock[k].owner # NoOwner
    /\ Goto(t, "undo") /\ Unmoved

\* ENOENT: another call removed the directory.
WriteFindsNothing(t, k) ==
    /\ pc[t] = "write" /\ Needs(t, k)
    /\ ~lock[k].exists
    /\ Goto(t, "abort") /\ Unmoved

\* Slip: The error of the write is thrown before the directory is removed.
WriteFailsAndLeaves(t, k) ==
    /\ pc[t] = "write" /\ Needs(t, k)
    /\ Goto(t, "readback") /\ Unmoved

\* Any other error of the file system.
WriteFails(t, k) ==
    /\ pc[t] = "write" /\ Needs(t, k)
    /\ Goto(t, "abort") /\ Unmoved

\* The catch block removes the directory, whosever it is by now.  EEXIST then
\* counts as contention; every other error leaves the function.
RemoveUnwritten(t, k) ==
    /\ pc[t] \in {"undo", "abort"} /\ Needs(t, k)
    /\ lock' = [lock EXCEPT ![k] = NoDir]
    /\ Goto(t, IF pc[t] = "undo" THEN "read" ELSE "readback")
    /\ FileSystemOnly

\* clearAbandonedLock reads owner.json; a missing directory reads as no owner.
ReadOwner(t, k) ==
    /\ pc[t] = "read" /\ Needs(t, k)
    /\ Goto(t, IF lock[k].owner = NoOwner THEN "stat"
               ELSE IF LooksAlive(t, lock[k].owner) THEN "poll" ELSE "clear")
    /\ Unmoved

\* Slip: An abandoned directory without an owner is waited for, never cleared.
StatOnlyWaits(t, k) ==
    /\ pc[t] = "stat" /\ Needs(t, k)
    /\ Goto(t, IF ~lock[k].exists THEN "mkdir" ELSE "poll")
    /\ Unmoved

\* Without an owner the directory's age decides; ENOENT means try again, any
\* other error of stat that it is not abandoned.
StatDirectory(t, k) ==
    /\ pc[t] = "stat" /\ Needs(t, k)
    /\ Goto(t, IF ~lock[k].exists THEN "mkdir" ELSE IF lock[k].old THEN "sweep" ELSE "poll")
    /\ Unmoved

\* rm -rf by path, of the branch for a dead owner or of the one for the age:
\* whatever directory is there now goes.
ClearAbandoned(t, k) ==
    /\ pc[t] \in {"clear", "sweep"} /\ Needs(t, k)
    /\ lock' = [lock EXCEPT ![k] = NoDir]
    /\ Goto(t, "mkdir")
    /\ FileSystemOnly

PollAgain(t) == pc[t] = "poll" /\ Goto(t, "mkdir") /\ Unmoved

\* ResourceMutationLockTimeoutError: 30 s passed since this key was first tried.
TimeOut(t) == pc[t] = "poll" /\ Goto(t, "readback") /\ Unmoved

-----------------------------------------------------------------------------
(* The operation, and the release of every lock in reverse order. *)

\* It returns or throws; the finally block runs either way.
OperationEnds(t) == pc[t] = "operate" /\ Goto(t, "readback") /\ Unmoved

\* A release function reads the owner and removes the directory if it is its own.
ReadBack(t, k) ==
    /\ pc[t] = "readback" /\ LastGot(t, k)
    /\ \/ /\ lock[k].owner = t
          /\ Goto(t, "remove") /\ UNCHANGED got
       \/ /\ lock[k].owner # t
          /\ got' = [got EXCEPT ![t] = @ \ {k}] /\ UNCHANGED pc
    /\ UNCHANGED <<lock, gone, reused, faults>>

ReleaseLock(t, k) ==
    /\ pc[t] = "remove" /\ LastGot(t, k)
    /\ lock' = [lock EXCEPT ![k] = NoDir]
    /\ got' = [got EXCEPT ![t] = @ \ {k}]
    /\ Goto(t, "readback")
    /\ UNCHANGED <<gone, reused, faults>>

Finish(t) ==
    /\ pc[t] = "readback" /\ got[t] = {}
    /\ Goto(t, "done") /\ Unmoved

-----------------------------------------------------------------------------
(* Faults and time. *)

Fault(kind) == kind \in FaultKinds /\ faults' = faults \cup {kind}

\* A process dies with the calls it runs.  Their directories stay.
Crash(p) ==
    /\ p \notin gone
    /\ Fault("crash")
    /\ gone' = gone \cup {p}
    /\ pc' = [t \in Task |-> IF ProcOf[t] = p /\ pc[t] # "done" THEN "dead" ELSE pc[t]]
    /\ UNCHANGED <<lock, got, reused>>

\* The operating system, or a restarted container, gives the pid out again.
ReusePid(p) ==
    /\ p \in gone \ reused
    /\ Fault("pid")
    /\ reused' = reused \cup {p}
    /\ UNCHANGED <<lock, pc, got, gone>>

\* `rm` fails.  A release logs it and goes on with the next lock; the catch block
\* of the owner write and the branch for a dead owner let the error leave
\* acquireResourceLock; the branch for the age swallows it and polls.
RemovalFails(t, k) ==
    /\ \/ pc[t] = "remove" /\ LastGot(t, k) /\ Goto(t, "readback")
          /\ got' = [got EXCEPT ![t] = @ \ {k}]
       \/ pc[t] \in {"undo", "abort", "clear"} /\ Needs(t, k) /\ Goto(t, "readback")
          /\ UNCHANGED got
       \/ pc[t] = "sweep" /\ Needs(t, k) /\ Goto(t, "poll") /\ UNCHANGED got
    /\ Fault("rm")
    /\ UNCHANGED <<lock, gone, reused>>

\* A call is between mkdir and its owner.json, or it found no owner.json and has
\* not looked at the age yet although the owner wrote it by now.
Midway(t, k) ==
    /\ Needs(t, k)
    /\ pc[t] \in {"write", "abort"} \/ (pc[t] = "stat" /\ lock[k].owner # NoOwner)

\* Five seconds pass since the directory changed.  Steps take milliseconds, so
\* this is a fault, a stall, while a call is midway.
Age(k) ==
    /\ lock[k].exists /\ ~lock[k].old
    /\ IF \E t \in Task : Midway(t, k) THEN Fault("stall") ELSE UNCHANGED faults
    /\ lock' = [lock EXCEPT ![k].old = TRUE]
    /\ UNCHANGED <<pc, got, gone, reused>>

-----------------------------------------------------------------------------

Acquire(t) ==
    \/ Start(t) \/ PollAgain(t)
    \/ \E k \in Key : \/ MakeDirectory(t, k) \/ WriteOwner(t, k) \/ WriteFindsOwner(t, k)
                      \/ WriteFindsNothing(t, k)
                      \/ RemoveUnwritten(t, k) \/ ReadOwner(t, k) \/ StatDirectory(t, k)
                      \/ ClearAbandoned(t, k)
Release(t) ==
    OperationEnds(t) \/ Finish(t) \/ \E k \in Key : ReadBack(t, k) \/ ReleaseLock(t, k)

Next ==
    \/ \E t \in Task : \/ Acquire(t) \/ Release(t) \/ TimeOut(t)
                       \/ \E k \in Key : MakeFails(t, k) \/ WriteFails(t, k) \/ RemovalFails(t, k)
    \/ \E k \in Key : Age(k)
    \/ \E p \in Proc : Crash(p) \/ ReusePid(p)

Spec == Init /\ [][Next]_vars

\* Calls keep running and operations end; timeouts and errors are never assumed
\* to happen.  Five seconds pass even though a contender is between its two reads
\* again and again in the meantime, hence strong fairness of Age.
FairSpec ==
    /\ Spec
    /\ \A t \in Task : WF_vars(Acquire(t)) /\ WF_vars(Release(t))
    /\ \A k \in Key : SF_vars(Age(k))

-----------------------------------------------------------------------------
(* Properties *)

\* The lock directories, the calls and the fault history keep their types, and
\* a call only collects locks it asked for.
TypeOK ==
    /\ lock \in [Key -> [owner : Task \cup {NoOwner}, old : BOOLEAN, exists : BOOLEAN]]
    /\ pc \in [Task -> Labels]
    /\ got \in [Task -> SUBSET Key]
    /\ \A t \in Task : got[t] \subseteq Wanted(t)
    /\ gone \subseteq Proc /\ reused \subseteq gone
    /\ faults \subseteq FaultKinds

MutualExclusion ==
    \A t, u \in Task : \A k \in Key : Holds(t, k) /\ Holds(u, k) => t = u

\* As long as no process died, no call stalled between two of its steps and no
\* removal failed, two calls never hold the same resource: whatever the
\* timeouts, the write errors and the clean-up of directories without an owner.
FaultlessMutualExclusion == faults = {} => MutualExclusion

\* Calls never wait for one another in a circle, so that no timeout is needed to
\* get out of one: keys are sorted within a call (lines 144-149) and nested
\* calls lock in layers.
WaitsFor(t, u) ==
    /\ pc[t] \in {"mkdir", "read", "stat", "poll"} /\ Live(u) /\ t # u
    /\ \E k \in Key : Needs(t, k) /\ lock[k].exists /\ k \in got[u]
NoCircularWait ==
    \A S \in (SUBSET Task) \ {{}} : \E t \in S : \A u \in S : ~WaitsFor(t, u)

\* Whatever happened to the other calls, the live owner a directory names still
\* holds it: a call that ended, by success, timeout or error, leaves no lock
\* behind unless a removal failed (the finally block of lines 151-161).
OwnersHold ==
    \A k \in Key, t \in Task :
        "rm" \notin faults /\ lock[k].owner = t /\ Live(t) => k \in got[t] /\ pc[t] # "done"

\* A directory without an owner is being worked on, unless a fault explains it:
\* error paths of the owner write clean up after themselves (line 114).
UnownedIsTransient ==
    \A k \in Key : faults = {} /\ lock[k].exists /\ lock[k].owner = NoOwner =>
        \E t \in Task : pc[t] \in {"write", "abort"} /\ Needs(t, k)

\* No call leaves a directory behind, neither one that names it nor one that
\* nobody owns.
NoLockLeftBehind == OwnersHold /\ UnownedIsTransient

\* How the state of the protocol shows in the promise.
PhaseOf(label) ==
    CASE label \in {"operate"} -> "operating"
      [] label \in {"readback", "remove"} -> "releasing"
      [] label = "done" -> "ended"
      [] OTHER -> "acquiring"
Mutex == INSTANCE ResourceMutex WITH
    Wants <- [t \in Task |-> Wanted(t)],
    holding <- got,
    phase <- [t \in Task |-> PhaseOf(pc[t])]

\* Until a fault happens, every step of the directory protocol takes, gives up or
\* drops one resource the way the promise allows, or changes nothing the promise
\* speaks of.
ImplementsMutex ==
    Mutex!MutexInit /\ [][faults' = {} => Mutex!MutexNext]_(Mutex!mutexVars)

\* Liveness: every call that starts ends, unless its process dies, also when the
\* directory it needs was abandoned by a process that died or its creator was
\* stalled, and without relying on the timeout, as long as no pid is reused and no
\* release fails.  A call starts once, so it is enough that none is left.
CallsEnd ==
    <>[](faults \subseteq {"crash", "stall"} =>
             \A t \in Task : pc[t] \in {"idle", "done", "dead"})

-----------------------------------------------------------------------------
(* What the documentation says, and the code does not keep *)

\* "Serializes a complete mutation transaction across runtime and MCP
\* processes": also when one of those processes died before.
SerializedAfterCrash == faults \subseteq {"crash"} => MutualExclusion
=============================================================================
