--------------------------- MODULE ConfirmedWrites ---------------------------
(***************************************************************************)
(* The durable writes of an agent that need the user's confirmation        *)
(* (service-tools-core.ts over sandbox-confirmation.ts): the agent         *)
(* registers a draft, a later message of the user confirms it, and a tool  *)
(* call checks the confirmation, writes and consumes it, under the         *)
(* resource lock of what it writes.  Calls run concurrently and may fail,  *)
(* or lose their process, at every await.                                  *)
(*                                                                         *)
(* One user and one conversation.  Time is the millisecond clock the rows  *)
(* are stamped with: several steps may share an instant.                   *)
(***************************************************************************)
EXTENDS Integers, FiniteSets

CONSTANTS
    Conf,           \* the confirmations that may be registered
    Call,           \* the tool calls
    Target,         \* [Call -> Conf]: the confirmationId a call passes
    Code,           \* stock codes
    Batch, Items,   \* the drafted batches and, [Batch -> SUBSET Code], their items
    Candidate,      \* method change candidates
    Operation,      \* the kinds of write of this instance
    FirstRevision,  \* the revision of the portfolio at the start, 0 without a row
    TTL,            \* DEFAULT_CONFIRMATION_TTL_MS
    MaxTime,        \* bound of the clock
    None

ASSUME Instance ==
    /\ Target \in [Call -> Conf] /\ Items \in [Batch -> SUBSET Code]
    /\ Operation \subseteq {"portfolio", "watchlist", "rule", "preferences", "method"}
    /\ FirstRevision \in {0, 1} /\ TTL \in Nat /\ MaxTime \in Nat \ {0} /\ None \notin Conf

VARIABLES
    now,         \* the clock
    said,        \* the latest message of the user
    conf,        \* pending_sandbox_confirmations
    portfolio,   \* mastra_portfolio_states: revision, watchlist, last_confirmation_id
    prefs,       \* mastra_runtime_preferences: whose schedules and notification
    strategy,    \* mastra_project_profiles: the patches in it and the last writer
    decided,     \* the method candidates with status confirmed
    holding,     \* the resources a call has locked
    phase,       \* where a call is with its locks
    step,        \* where the operation of a call is
    seen,        \* what the operation of a call has read and will build on
    approved,    \* history: confirmed by an explicit message after registration
    written,     \* history: how often a confirmation's durable write completed
    consumed,    \* history: how often a call consumed it
    interrupted, \* history: how often a call that wrote did not consume it
    torn,        \* history: left between the two documents of its write
    tied         \* history: a plan read the portfolio in the instant of its revision

rows == <<portfolio, prefs, strategy, decided>>
history == <<approved, written, consumed, interrupted, torn, tied>>
locks == <<holding, phase>>
vars == <<now, said, conf, rows, locks, step, seen, history>>
-----------------------------------------------------------------------------
(* Confirmations *)

Unbound == -1

\* Slip: another kind of write is missing in the list of resources.
KeysWithoutRules(op) ==
    CASE op = "portfolio" -> {"portfolio"}
      [] op = "preferences" -> {"schedules", "notification"}
      [] op = "method" -> {"method-changes", "strategy"}
      [] OTHER -> {}

KeysWithoutMethods(op) ==
    CASE op = "portfolio" -> {"portfolio"}
      [] op = "rule" -> {"watch-rules"}
      [] op = "preferences" -> {"schedules", "notification"}
      [] OTHER -> {}

\* mutationResourceKeysForOperation: watchlist.add_many is not in its list.
KeysOf(op) ==
    CASE op = "portfolio" -> {"portfolio"}
      [] op = "rule" -> {"watch-rules"}
      [] op = "preferences" -> {"schedules", "notification"}
      [] op = "method" -> {"method-changes", "strategy"}
      [] OTHER -> {}

Key == UNION {KeysOf(op) : op \in Operation}

Locked(op) == op # "watchlist"

Mutex == INSTANCE ResourceMutex WITH
    Task <- Call,
    Wants <- [k \in Call |-> KeysOf(conf[Target[k]].op)]

NoConf == [status |-> "none", op |-> "none", body |-> None, at |-> 0, rev |-> Unbound]

\* The revision a draft is bound to: always the portfolio's, elsewhere if the
\* agent passed one.
Bindings(op) ==
    CASE op = "portfolio" -> {portfolio.rev}
      [] op = "preferences" -> {Unbound, prefs.rev}
      [] op = "method" -> {Unbound, strategy.rev}
      [] OTHER -> {Unbound}

\* What a draft is about: the items of a batch, the candidate of a method.
Bodies(op) ==
    CASE op = "watchlist" -> Batch
      [] op = "method" -> Candidate
      [] OTHER -> {None}

\* validateConfirmationDraft
Registrable(op, b) ==
    /\ op = "watchlist" => ~(Items[b] \subseteq portfolio.watch)
    /\ op = "method" => b \notin decided

Expired(c) == conf[c].at + TTL <= now

\* findExecutablePendingConfirmation
Executable(op) ==
    {c \in Conf : /\ conf[c].status = "pending" /\ conf[c].op = op
                  /\ ~Expired(c) /\ conf[c].at < said.at}

\* pruneConfirmationPayload drops a null revision from what is compared.
Pruned(rev) == IF rev = 0 THEN Unbound ELSE rev

\* requestConfirmation answers with a draft the user has confirmed already.
Reused(op, b, rev) ==
    /\ said.explicit
    /\ \E e \in Executable(op) : /\ \A f \in Executable(op) : conf[f].at <= conf[e].at
                                 /\ conf[e].body = b /\ Pruned(conf[e].rev) = Pruned(rev)

\* requestConfirmation and registerConfirmationDraft
Register(c, op, b, rev) ==
    /\ conf[c].status = "none"
    /\ b \in Bodies(op) /\ rev \in Bindings(op)
    /\ Registrable(op, b)
    /\ ~Reused(op, b, rev)
    /\ conf' = [conf EXCEPT ![c] = [status |-> "pending", op |-> op, body |-> b,
                                    at |-> now, rev |-> rev]]
    /\ UNCHANGED <<now, said, rows, locks, step, seen, history>>

\* A message of the user; one an instant.
UserSays(explicit) ==
    /\ said.at < now
    /\ said' = [at |-> now, explicit |-> explicit]
    /\ approved' = IF explicit
                   THEN approved \cup {c \in Conf : conf[c].status = "pending" /\ conf[c].at < now}
                   ELSE approved
    /\ UNCHANGED <<now, conf, rows, locks, step, seen, written, consumed, interrupted, torn, tied>>

Tick ==
    /\ now < MaxTime
    /\ now' = now + 1
    /\ UNCHANGED <<said, conf, rows, locks, step, seen, history>>
-----------------------------------------------------------------------------
(* A tool call: its locks, and the check of its confirmation *)

Running(k, s) == phase[k] = "operating" /\ step[k] = s

\* The call continues with the next step of its operation.
Continue(k, s) ==
    /\ step' = [step EXCEPT ![k] = s]
    /\ UNCHANGED locks

\* The call returns or throws, and withResourceMutationLock releases.
Return(k) ==
    /\ Mutex!Leave(k)
    /\ step' = [step EXCEPT ![k] = "left"]
    /\ seen' = [seen EXCEPT ![k] = None]

\* The agent calls with the id of a draft it has registered.
Acquire(k) ==
    /\ conf[Target[k]].status # "none"
    /\ Mutex!RunUnlocked(k) \/ \E key \in Key : Mutex!Take(k, key)
    /\ UNCHANGED <<now, said, conf, rows, step, seen, history>>

Release(k) ==
    /\ Mutex!End(k) \/ \E key \in Key : Mutex!Drop(k, key)
    /\ UNCHANGED <<now, said, conf, rows, step, seen, history>>

\* Slip: a message of the instant of the registration counts as later.
ConfirmedAtOnce(c) ==
    conf[c].status = "pending" /\ said.explicit /\ conf[c].at <= said.at

\* requireRecentUserConfirmation
RecentlyConfirmed(c) ==
    conf[c].status = "pending" /\ said.explicit /\ conf[c].at < said.at

CheckMessage(k) ==
    /\ Running(k, "check")
    /\ IF RecentlyConfirmed(Target[k])
       THEN Continue(k, "validate") /\ UNCHANGED seen
       ELSE Return(k)
    /\ UNCHANGED <<now, said, conf, rows, history>>

\* The digest of a portfolio draft contains the revision it was planned on.
SameDigest(c) == conf[c].op = "portfolio" => portfolio.rev = conf[c].rev

FirstStep(op) ==
    CASE op = "portfolio" -> "plan"
      [] op = "watchlist" -> "list"
      [] op = "rule" -> "insert"
      [] op = "preferences" -> "read"
      [] op = "method" -> "load"

\* validateSandboxConfirmation in prepareBoundConfirmation
Validate(k) ==
    LET c == Target[k]
    IN /\ Running(k, "validate")
       /\ \/ /\ conf[c].status = "pending" /\ SameDigest(c) /\ ~Expired(c)
             /\ Continue(k, FirstStep(conf[c].op))
             /\ UNCHANGED <<conf, seen>>
          \/ /\ conf[c].status = "pending" /\ SameDigest(c) /\ Expired(c)
             /\ conf' = [conf EXCEPT ![c].status = "expired"]
             /\ Return(k)
          \/ /\ conf[c].status # "pending" \/ ~SameDigest(c)
             /\ Return(k)
             /\ UNCHANGED conf
       /\ UNCHANGED <<now, said, rows, history>>

\* The validation of consumeSandboxConfirmation; what was written stays.
Consume(k) ==
    LET c == Target[k]
    IN /\ Running(k, "consume")
       /\ \/ /\ conf[c].status = "pending" /\ ~Expired(c)
             /\ Continue(k, "mark")
             /\ UNCHANGED <<conf, seen, interrupted>>
          \/ /\ conf[c].status # "pending" \/ Expired(c)
             /\ conf' = IF conf[c].status = "pending"
                        THEN [conf EXCEPT ![c].status = "expired"] ELSE conf
             /\ interrupted' = [interrupted EXCEPT ![c] = @ + 1]
             /\ Return(k)
       /\ UNCHANGED <<now, said, rows, approved, written, consumed, torn, tied>>

\* Slip: the update meets no row.
MarkNothing(k) ==
    /\ Running(k, "mark")
    /\ consumed' = [consumed EXCEPT ![Target[k]] = @ + 1]
    /\ Return(k)
    /\ UNCHANGED <<now, said, conf, rows, approved, written, interrupted, torn, tied>>

\* markConfirmation: an update by id, whatever the row says now.
Mark(k) ==
    LET c == Target[k]
    IN /\ Running(k, "mark")
       /\ conf' = [conf EXCEPT ![c].status = "confirmed"]
       /\ consumed' = [consumed EXCEPT ![c] = @ + 1]
       /\ Return(k)
       /\ UNCHANGED <<now, said, rows, approved, written, interrupted, torn, tied>>

\* The steps between the two documents of a write.
Between == {"notification", "decide"}

\* An await throws, or the process dies: nothing is restored.
Stop(k) ==
    /\ phase[k] = "operating"
    /\ interrupted' = IF step[k] \in {"consume", "mark"}
                      THEN [interrupted EXCEPT ![Target[k]] = @ + 1] ELSE interrupted
    /\ torn' = IF step[k] \in Between THEN torn \cup {Target[k]} ELSE torn
    /\ Return(k)
    /\ UNCHANGED <<now, said, conf, rows, approved, written, consumed, tied>>

\* A payload may pass the comparison with the revision a document has now, or fail
\* it.  A null revision was pruned from the registered draft: it is compared only
\* when the agent repeats the fields of the draft.
Fits(c, rev) == conf[c].rev \in {Unbound, 0, rev}
Conflicts(c, rev) == conf[c].rev \notin {Unbound, rev}

\* The write of a call's operation completed.
Complete(k) ==
    /\ written' = [written EXCEPT ![Target[k]] = @ + 1]
    /\ Continue(k, "consume")
    /\ seen' = [seen EXCEPT ![k] = None]
    /\ UNCHANGED <<approved, consumed, interrupted, torn, tied>>
-----------------------------------------------------------------------------
(* portfolio.apply_changes *)

\* applyPortfolioChanges up to planPortfolioChanges.  A payload that carries the
\* revision of its draft (restored from the row, or repeated with it) is refused when
\* the portfolio has another one; one without a revision takes the one it finds.
PlanPortfolio(k) ==
    LET c == Target[k]
    IN /\ Running(k, "plan")
       /\ \/ portfolio.by = c /\ Continue(k, "consume") /\ UNCHANGED <<seen, tied>>
          \/ /\ portfolio.by # c
             /\ seen' = [seen EXCEPT ![k] = portfolio]
             /\ tied' = (tied \/ portfolio.rev = now)
             /\ Continue(k, "replace")
          \/ portfolio.by # c /\ Conflicts(c, portfolio.rev) /\ Return(k) /\ UNCHANGED tied
       /\ UNCHANGED <<now, said, conf, rows, approved, written, consumed, interrupted, torn>>

\* Slip: the revision is not compared again in the transaction.
AnyRevision(k) == TRUE

SameRevision(k) == seen[k].rev = portfolio.rev

\* replaceMastraPortfolioProjection: the whole document, over the revision planned on.
ReplacePortfolio(k) ==
    /\ Running(k, "replace")
    /\ \/ /\ SameRevision(k)
          /\ portfolio' = [seen[k] EXCEPT !.rev = now, !.by = Target[k]]
          /\ Complete(k)
       \/ ~SameRevision(k) /\ Return(k) /\ UNCHANGED <<portfolio, history>>
    /\ UNCHANGED <<now, said, conf, prefs, strategy, decided>>

-----------------------------------------------------------------------------
(* watchlist.add_many: an item at a time, those that are there are skipped *)

AddItem(k) ==
    /\ Running(k, "list")
    /\ \E i \in Items[conf[Target[k]].body] \ portfolio.watch :
          portfolio' = [portfolio EXCEPT !.rev = now, !.watch = @ \cup {i}]
    /\ UNCHANGED <<now, said, conf, prefs, strategy, decided, locks, step, seen, history>>

FinishItems(k) ==
    /\ Running(k, "list") /\ Items[conf[Target[k]].body] \subseteq portfolio.watch
    /\ Complete(k)
    /\ UNCHANGED <<now, said, conf, rows>>

-----------------------------------------------------------------------------
(* watch_rules.create: every write is another rule *)

InsertRule(k) ==
    /\ Running(k, "insert")
    /\ Complete(k)
    /\ UNCHANGED <<now, said, conf, rows>>

-----------------------------------------------------------------------------
(* preferences.apply: two documents, both restored when the second one fails *)

\* planUserPreferenceChange.  The payload lost its confirmationId, so that no
\* earlier write of the same confirmation is recognised.
ReadPreferences(k) ==
    LET c == Target[k]
    IN /\ Running(k, "read")
       /\ \/ /\ Fits(c, prefs.rev)
             /\ seen' = [seen EXCEPT ![k] = prefs]
             /\ Continue(k, "schedules")
          \/ Conflicts(c, prefs.rev) /\ Return(k)
       /\ UNCHANGED <<now, said, conf, rows, history>>

WriteSchedules(k) ==
    /\ Running(k, "schedules")
    /\ prefs' = [prefs EXCEPT !.schedules = Target[k], !.rev = now]
    /\ Continue(k, "notification")
    /\ UNCHANGED <<now, said, conf, portfolio, strategy, decided, seen, history>>

WriteNotification(k) ==
    /\ Running(k, "notification")
    /\ prefs' = [prefs EXCEPT !.notification = Target[k]]
    /\ Complete(k)
    /\ UNCHANGED <<now, said, conf, portfolio, strategy, decided>>

RestorePreferences(k) ==
    /\ Running(k, "notification")
    /\ prefs' = seen[k]
    /\ Return(k)
    /\ UNCHANGED <<now, said, conf, portfolio, strategy, decided, history>>

-----------------------------------------------------------------------------
(* method_changes.apply: the patch into the strategy, then the candidate *)

\* planMethodChangeApplication.  Its marker of an application by the same
\* confirmation compares with the confirmationId the payload lost: it never holds.
LoadStrategy(k) ==
    LET c == Target[k]
    IN /\ Running(k, "load")
       /\ \/ /\ conf[c].body \notin decided /\ Fits(c, strategy.rev)
             /\ seen' = [seen EXCEPT ![k] = strategy]
             /\ Continue(k, "patch")
          \/ /\ conf[c].body \in decided \/ Conflicts(c, strategy.rev)
             /\ Return(k)
       /\ UNCHANGED <<now, said, conf, rows, history>>

\* mergeStrategyPatch on what was loaded, and writeMastraStrategyProjection.
PatchStrategy(k) ==
    /\ Running(k, "patch")
    /\ strategy' = [patches |-> seen[k].patches \cup {conf[Target[k]].body},
                    by |-> Target[k], rev |-> now]
    /\ Continue(k, "decide")
    /\ UNCHANGED <<now, said, conf, portfolio, prefs, decided, seen, history>>

DecideCandidate(k) ==
    /\ Running(k, "decide")
    /\ decided' = decided \cup {conf[Target[k]].body}
    /\ Complete(k)
    /\ UNCHANGED <<now, said, conf, portfolio, prefs, strategy>>

RestoreStrategy(k) ==
    /\ Running(k, "decide")
    /\ strategy' = seen[k]
    /\ Return(k)
    /\ UNCHANGED <<now, said, conf, portfolio, prefs, decided, history>>

-----------------------------------------------------------------------------
Init ==
    /\ now = 1
    /\ said = [at |-> 0, explicit |-> FALSE]
    /\ conf = [c \in Conf |-> NoConf]
    /\ portfolio = [rev |-> FirstRevision, watch |-> {}, by |-> None]
    /\ prefs = [schedules |-> None, notification |-> None, rev |-> 0]
    /\ strategy = [patches |-> {}, by |-> None, rev |-> 0]
    /\ decided = {}
    /\ Mutex!MutexInit
    /\ step = [k \in Call |-> "check"]
    /\ seen = [k \in Call |-> None]
    /\ approved = {} /\ torn = {} /\ tied = FALSE
    /\ written = [c \in Conf |-> 0] /\ consumed = [c \in Conf |-> 0]
    /\ interrupted = [c \in Conf |-> 0]

Operate(k) ==
    \/ CheckMessage(k) \/ Validate(k) \/ Consume(k) \/ Mark(k) \/ Stop(k)
    \/ PlanPortfolio(k) \/ ReplacePortfolio(k)
    \/ AddItem(k) \/ FinishItems(k) \/ InsertRule(k)
    \/ ReadPreferences(k) \/ WriteSchedules(k) \/ WriteNotification(k) \/ RestorePreferences(k)
    \/ LoadStrategy(k) \/ PatchStrategy(k) \/ DecideCandidate(k) \/ RestoreStrategy(k)

Next ==
    \/ Tick
    \/ \E explicit \in BOOLEAN : UserSays(explicit)
    \/ \E c \in Conf, op \in Operation :
          \E b \in Bodies(op), rev \in Bindings(op) : Register(c, op, b, rev)
    \/ \E k \in Call : Acquire(k) \/ Release(k) \/ Operate(k)

Spec == Init /\ [][Next]_vars
-----------------------------------------------------------------------------
(* Properties *)

Time == 0 .. MaxTime
Draft == [status : {"none", "pending", "confirmed", "expired"}, op : Operation \cup {"none"},
          body : Batch \cup Candidate \cup {None}, at : Time, rev : Time \cup {Unbound}]
Portfolio == [rev : Time, watch : SUBSET Code, by : Conf \cup {None}]
Prefs == [schedules : Conf \cup {None}, notification : Conf \cup {None}, rev : Time]
Strategy == [patches : SUBSET Candidate, by : Conf \cup {None}, rev : Time]
Steps == {"check", "validate", "plan", "replace", "list", "insert", "read", "schedules",
          "notification", "load", "patch", "decide", "consume", "mark", "left"}

\* The values of the variables are of their types.
TypeOK ==
    /\ now \in Time
    /\ said \in [at : Time, explicit : BOOLEAN]
    /\ conf \in [Conf -> Draft]
    /\ portfolio \in Portfolio /\ prefs \in Prefs /\ strategy \in Strategy
    /\ decided \subseteq Candidate
    /\ holding \in [Call -> SUBSET Key]
    /\ phase \in [Call -> {"acquiring", "operating", "releasing", "ended"}]
    /\ step \in [Call -> Steps]
    /\ seen \in [Call -> Portfolio \cup Prefs \cup Strategy \cup {None}]
    /\ approved \subseteq Conf /\ torn \subseteq Conf /\ tied \in BOOLEAN
    /\ written \in [Conf -> Nat] /\ consumed \in [Conf -> Nat] /\ interrupted \in [Conf -> Nat]

Wrote(c) ==
    \/ written[c] > 0
    \/ c \in {portfolio.by, prefs.schedules, prefs.notification, strategy.by}

\* Nothing is written for a draft before the user, after it was registered, sent a
\* message that is an explicit confirmation.
ApprovedBeforeWritten ==
    /\ \A c \in Conf : Wrote(c) => c \in approved
    /\ \A i \in portfolio.watch :
          \E c \in approved : conf[c].op = "watchlist" /\ i \in Items[conf[c].body]

\* A confirmation is consumed only after its durable write succeeded; that of a write
\* that runs under a resource lock is consumed once.
ConsumedOnce ==
    \A c \in Conf : consumed[c] > 0 =>
        written[c] > 0 /\ (Locked(conf[c].op) => consumed[c] = 1)

\* A confirmed write is repeated no more often than a call that made it could not
\* consume the confirmation; a portfolio change or a method patch not even then.
WrittenOnce ==
    \A c \in Conf :
        /\ Locked(conf[c].op) => written[c] <= 1 + interrupted[c]
        /\ conf[c].op \in {"portfolio", "method"} => written[c] <= 1

\* The confirmations whose write has reached one of its documents only, for now or for
\* good: a call is between them, or was stopped there.
Halfway ==
    torn \cup {Target[k] : k \in {l \in Call : phase[l] = "operating" /\ step[l] \in Between}}

\* The two documents of a write agree: a method candidate is confirmed only with its
\* patch in the strategy, and a patch without that, or schedules without their
\* notification, are of a write that is halfway.  A failure in between is undone.
WrittenTogether ==
    /\ decided \subseteq strategy.patches
    /\ \A m \in strategy.patches \ decided :
          \E c \in Halfway : conf[c].op = "method" /\ conf[c].body = m
    /\ prefs.schedules # prefs.notification => prefs.schedules \in Halfway

Book == INSTANCE PortfolioBook WITH
    Change <- Conf,
    Item <- Code,
    watch <- portfolio.watch,
    times <- [c \in Conf |-> IF conf[c].op = "portfolio" THEN written[c] ELSE 0]

\* Calls build on the portfolio they have read as if they changed it in one step, as
\* long as no plan is made in the very millisecond in which the portfolio was written.
ImplementsBook == Book!BookInit /\ [][Book!BookNext \/ tied']_(Book!bookVars)
=============================================================================
