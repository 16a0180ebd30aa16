-------------------------- MODULE ConversationTurns --------------------------
(***************************************************************************)
(* The turns of one conversation (conversation-log.ts).  The Portal writes *)
(* a provisional row for a message and sends the request to the runtime    *)
(* through the relay; the runtime queues the calls of a conversation, runs *)
(* one agent turn at a time, marks it in conversation_turn_active, and     *)
(* appends the answer.  The agent's tools run in a process of their own    *)
(* and learn from that marker which turn an artifact belongs to.  Portal   *)
(* and runtime write the same SQLite file, without knowing of each other.  *)
(*                                                                         *)
(* A turn is named by its call.  What follows an await up to the next one  *)
(* is one step.  Attachments, the conversations of automation tasks, the   *)
(* conversation list and the background synchronisation of the Portal are  *)
(* left out; Portal and runtime run on one host and share its clock.       *)
(***************************************************************************)
EXTENDS Naturals, FiniteSets, Sequences

CONSTANTS
    Call,        \* requests; their ids serve as message ids and idempotency keys
    TaskLimit,   \* PORTAL_MAX_CONCURRENT_TASKS_PER_ASSISTANT
    MaxFaults,   \* bound: deaths of the runtime, lost connections, requests that time out
    MaxPublished,  \* bound: the agents that publish an artifact
    None

ASSUME TurnsAssumption ==
    /\ TaskLimit \in Nat \ {0} /\ MaxFaults \in Nat /\ MaxPublished \in Nat
    /\ None \notin Call

VARIABLES
    user,       \* the row of the user message of a call: status, request_id, idempotency_key, place
    answer,     \* the status of the assistant message of a turn
    answeredAt, \* the place of that message in the order of created_at
    now,        \* the last place taken
    active,     \* conversation_turn_active
    artifact,   \* what the agent of a call has published
    req,        \* what a call asks for
    step,       \* where a call is
    tries,      \* the attempts of the turn that went wrong
    chats,      \* conversationChatTails: the calls in the order they run
    cancelled,  \* the calls whose control has cancelRequested
    agent,      \* activeConversations of run-turn.ts: whose agent works
    loose,      \* agents nobody waits for any more, a tool call of theirs may still run
    up,         \* the runtime is alive
    relay,      \* the requests on their way to the runtime
    http,       \* the handler of the Portal that waits for a call
    reply,      \* what the relay has for it
    faults      \* counts towards MaxFaults

log == <<answeredAt, now>>
rows == <<user, answer, log, active, artifact>>
runtime == <<req, step, tries, chats, cancelled, agent, loose, up>>
portal == <<relay, http, reply, faults>>
vars == <<rows, runtime, portal>>
-----------------------------------------------------------------------------
NoMessage == [status |-> "none", turn |-> None, key |-> None, at |-> 0]
NoArtifact == [by |-> "nobody", turn |-> None, message |-> None]
NoRequest == [kind |-> "none", key |-> None, target |-> None, question |-> None]
NoReply == [turn |-> None, status |-> "none"]
Error == [turn |-> None, status |-> "error"]

\* The calls the runtime knows of.
Present == {c \in Call : step[c] \notin {"new", "sent", "done"}}
Chatting(c) == chats # <<>> /\ Head(chats) = c

\* The user message a turn answers: its own, or the one that is asked again.
QuestionOf(t) == IF req[t].kind = "regenerate" THEN req[t].question ELSE t

Goes(c, s) == step' = [step EXCEPT ![c] = s]
-----------------------------------------------------------------------------
(* Requests *)

\* The key of a request that brings none is its id; a retry brings an older key.
KeyFor(c) == {c} \cup {req[d].key : d \in {d \in Call : req[d].kind \in {"post", "direct"}}}

\* sendConnectorRequest: CONNECTOR_OFFLINE if nobody is there
Sends(c) ==
    IF up THEN Goes(c, "sent") /\ relay' = Append(relay, c) /\ UNCHANGED reply
    ELSE Goes(c, "done") /\ reply' = [reply EXCEPT ![c] = Error] /\ UNCHANGED relay

\* POST of the Portal: the provisional row has no idempotency key, and the key of the
\* browser that it keeps in request_id is no turn's id
Post(c, k) ==
    /\ step[c] = "new"
    /\ req' = [req EXCEPT ![c] = [NoRequest EXCEPT !.kind = "post", !.key = k]]
    /\ user' = [user EXCEPT ![c].status = "pending", ![c].at = now + 1]
    /\ now' = now + 1
    /\ http' = [http EXCEPT ![c] = "waiting"]
    /\ Sends(c)
    /\ UNCHANGED <<answer, answeredAt, active, artifact, tries, chats, cancelled, agent, loose,
                   up, faults>>

\* Asks for another answer in place of the one of turn t.
AskRegenerate(c, t) ==
    /\ step[c] = "new" /\ answer[t] = "sent"
    /\ req' = [req EXCEPT ![c] = [NoRequest EXCEPT !.kind = "regenerate", !.target = t]]
    /\ http' = [http EXCEPT ![c] = "waiting"]
    /\ Sends(c)
    /\ UNCHANGED <<rows, tries, chats, cancelled, agent, loose, up, faults>>

\* A call that is pending under the same idempotency key.
Leader(k) == {d \in Present : k # None /\ req[d].key = k}

\* chatViaConversationLog up to the lock
Enters(c, k) ==
    IF Leader(k) # {}
    THEN Goes(c, "joined") /\ UNCHANGED chats
    ELSE Goes(c, "queued") /\ chats' = Append(chats, c)

\* POST of the runtime's own HTTP interface
PostDirect(c, k) ==
    /\ up /\ step[c] = "new"
    /\ req' = [req EXCEPT ![c] = [NoRequest EXCEPT !.kind = "direct", !.key = k]]
    /\ Enters(c, k)
    /\ UNCHANGED <<rows, tries, cancelled, agent, loose, up, portal>>

\* The handlers that still wait for what the relay brings.
Waiting == {c \in Call : http[c] = "waiting" /\ reply[c] = NoReply}

Replies(S, r) == reply' = [c \in Call |-> IF c \in S \cap Waiting THEN r ELSE reply[c]]

\* ConcurrentTaskLimiter counts what comes through the relay.
Admitted == Cardinality({c \in Present : req[c].kind # "direct"}) < TaskLimit

Receive(c) ==
    /\ up /\ relay # <<>> /\ c = Head(relay)
    /\ relay' = Tail(relay)
    /\ IF Admitted THEN Enters(c, req[c].key) /\ UNCHANGED reply
       ELSE Goes(c, "done") /\ Replies({c}, Error) /\ UNCHANGED chats
    /\ UNCHANGED <<rows, req, tries, cancelled, agent, loose, up, http, faults>>
-----------------------------------------------------------------------------
(* The lock of the conversation, replay, setup *)

\* Slip: The pending call is forgotten, and who joined it with it.
JoinedNobody(c) == {}

\* Who waits for the same result.
Joined(c) == {d \in Present : step[d] = "joined" /\ req[d].key = req[c].key}

\* The call is over: the lock goes to the next one, whoever joined gets the same reply.
Ends(c, r) ==
    /\ chats' = Tail(chats)
    /\ step' = [d \in Call |-> IF d = c \/ d \in Joined(c) THEN "done" ELSE step[d]]
    /\ cancelled' = cancelled \ {c}
    /\ Replies(Joined(c) \cup {c}, r)
    /\ UNCHANGED <<req, tries, agent, loose, up, relay, http, faults>>

\* Slip: A call does not wait for the one before it.
CrowdsIn(c) == step[c] = "queued"

HasLock(c) == step[c] = "queued" /\ Chatting(c)

\* The turns that were asked for with the key of the call, where the key was stored.
Keyed(c) == {t \in Call : req[c].key # None /\ user[t].key = req[c].key}

\* Slip: Only an answer that was a success is replayed.
ReplayableSent(c) == {t \in Keyed(c) : answer[t] = "sent"}

Replayable(c) == {t \in Keyed(c) : answer[t] # "none"}

Begin(c) ==
    /\ HasLock(c) /\ Replayable(c) = {}
    /\ Goes(c, "setup")
    /\ UNCHANGED <<rows, req, tries, chats, cancelled, agent, loose, up, portal>>

\* An earlier request of the same key has been answered.
Replay(c) ==
    /\ HasLock(c)
    /\ \E t \in Replayable(c) : Ends(c, [turn |-> t, status |-> answer[t]])
    /\ UNCHANGED rows

\* ensureConversationRuntime, resolveProjectStorageRoot or storing an attachment throws
SetupFails(c) ==
    /\ step[c] \in {"setup", "storage"}
    /\ Ends(c, Error)
    /\ UNCHANGED rows

\* The user message before the answer of turn t, if that is the last row.
LastBefore(t) ==
    {q \in Call : /\ user[q].at > 0
                  /\ \A d \in Call : /\ user[d].at <= user[q].at
                                     /\ user[d].at <= answeredAt[t]
                                     /\ answeredAt[d] <= answeredAt[t]}

\* Slip: The status of the user message is not asked for.
AnyQuestion(t) == IF answer[t] = "sent" THEN LastBefore(t) ELSE {}

\* REGENERATE_TARGET_INVALID, REGENERATE_ONLY_LAST_REPLY, REGENERATE_USER_MESSAGE_MISSING
Regenerable(t) ==
    IF answer[t] = "sent" THEN {q \in LastBefore(t) : user[q].status = "sent"} ELSE {}

InRegenerate(c) == step[c] = "setup" /\ req[c].kind = "regenerate"

Supersede(c) ==
    LET t == req[c].target
    IN /\ InRegenerate(c)
       /\ \E q \in Regenerable(t) : req' = [req EXCEPT ![c].question = q]
       /\ answer' = [answer EXCEPT ![t] = "superseded"]
       /\ Goes(c, "storage")
       /\ UNCHANGED <<user, log, active, artifact, tries, chats, cancelled, agent, loose, up,
                      portal>>

RefuseRegenerate(c) ==
    /\ InRegenerate(c) /\ Regenerable(req[c].target) = {}
    /\ Ends(c, Error)
    /\ UNCHANGED rows
-----------------------------------------------------------------------------
(* The turn *)

\* Slip: Every artifact without a message is taken.
BoundAny(c) ==
    [a \in Call |-> IF artifact[a].by # "nobody" /\ artifact[a].message = None
                    THEN [artifact[a] EXCEPT !.message = c] ELSE artifact[a]]

\* attachArtifactsToAssistantMessage
Bound(c) ==
    [a \in Call |-> IF artifact[a].turn = c THEN [artifact[a] EXCEPT !.message = c]
                    ELSE artifact[a]]

\* persistResponse: the answer, and the artifacts of the turn unless it was cancelled
Persists(c, s, bind) ==
    /\ answer' = [answer EXCEPT ![c] = s]
    /\ answeredAt' = [answeredAt EXCEPT ![c] = now + 1] /\ now' = now + 1
    /\ artifact' = IF bind THEN Bound(c) ELSE artifact
    /\ tries' = 0
    /\ Goes(c, "tail")

\* The user message of a call is stored.  A provisional row of the Portal is updated
\* and keeps its place and what it has in idempotency_key.  That the key is looked up
\* once more finds nothing Begin has not found.
Stored(c) ==
    CASE req[c].kind = "post" ->
           [user EXCEPT ![c].status = "sent", ![c].turn = c]
      [] req[c].kind = "direct" ->
           [user EXCEPT ![c] = [status |-> "sent", turn |-> c, key |-> req[c].key, at |-> now + 1]]
      [] OTHER -> user

Startable(c) ==
    \/ step[c] = "setup" /\ req[c].kind # "regenerate"
    \/ step[c] = "storage"

\* The message is stored and the turn marked (markTurnStart).
Marks(c) ==
    /\ Startable(c)
    /\ user' = Stored(c)
    /\ active' = c

Start(c) ==
    /\ Marks(c) /\ c \notin cancelled
    /\ now' = IF req[c].kind = "direct" THEN now + 1 ELSE now
    /\ Goes(c, "call")
    /\ UNCHANGED <<answer, answeredAt, artifact, req, tries, chats, cancelled, agent, loose, up,
                   portal>>

StartCancelled(c) ==
    /\ Marks(c) /\ c \in cancelled
    /\ answer' = [answer EXCEPT ![c] = "failed"]
    /\ answeredAt' = [answeredAt EXCEPT ![c] = now + 2] /\ now' = now + 2
    /\ Goes(c, "tail")
    /\ UNCHANGED <<artifact, req, tries, chats, cancelled, agent, loose, up, portal>>

\* runMastraTurn
AgentStarts(c) ==
    /\ step[c] = "call" /\ agent = None
    /\ agent' = c
    /\ Goes(c, "agent")
    /\ UNCHANGED <<rows, req, tries, chats, cancelled, loose, up, portal>>

\* Slip: The answer stands although the turn was cancelled meanwhile.
AnswerStands(c, s) == s

\* What becomes of the outcome of an attempt: a cancelled turn has failed.
Outcome(c, s) == IF c \in cancelled THEN "failed" ELSE s

\* MASTRA_TURN_BUSY: one more attempt later, then a notice in place of an answer
AgentBusy(c) ==
    /\ step[c] = "call" /\ agent # None
    /\ IF tries = 0 THEN tries' = 1 /\ UNCHANGED <<answer, log, artifact, step>>
       ELSE Persists(c, Outcome(c, "sent"), c \notin cancelled)
    /\ UNCHANGED <<user, active, req, chats, cancelled, agent, loose, up, portal>>

AgentAnswers(c) ==
    /\ step[c] = "agent"
    /\ agent' = None
    /\ Persists(c, Outcome(c, "sent"), c \notin cancelled)
    /\ UNCHANGED <<user, active, req, chats, cancelled, loose, up, portal>>

\* A failed attempt may leave a tool call that goes on in its own process.  One that
\* returns its error finds a cancellation; one that throws another error is answered as
\* that error, and the artifacts are bound although the turn was cancelled.
AgentFails(c) ==
    /\ step[c] = "agent"
    /\ agent' = None
    /\ loose' = loose \cup {c}
    /\ \/ tries = 0 /\ tries' = 1 /\ Goes(c, "call") /\ UNCHANGED <<answer, log, artifact>>
       \/ \E bind \in {TRUE, c \notin cancelled} : Persists(c, "failed", bind)
    /\ UNCHANGED <<user, active, req, chats, cancelled, up, portal>>

\* awaitWithExecutionDeadline gives up; the agent is not stopped and stays busy
Deadline(c) ==
    /\ step[c] \in {"call", "agent"}
    /\ Persists(c, "failed", TRUE)
    /\ loose' = IF agent = c THEN loose \cup {c} ELSE loose
    /\ UNCHANGED <<user, active, req, chats, cancelled, agent, up, portal>>

AgentComesBack ==
    /\ agent # None /\ step[agent] # "agent"
    /\ agent' = None
    /\ UNCHANGED <<rows, req, step, tries, chats, cancelled, loose, up, portal>>

\* publishConversationArtifact reads the marker when it stores the artifact
Publish(a) ==
    /\ artifact[a] = NoArtifact
    /\ Cardinality({b \in Call : artifact[b] # NoArtifact}) < MaxPublished
    /\ agent = a \/ a \in loose
    /\ artifact' = [artifact EXCEPT ![a] =
           [by |-> IF a \in loose THEN "loose" ELSE "agent", turn |-> active, message |-> None]]
    /\ loose' = loose \ {a}
    /\ UNCHANGED <<user, answer, log, active, req, step, tries, chats, cancelled, agent, up,
                   portal>>

\* markTurnEnd
Unmarked(c) == IF active = c THEN None ELSE active

Finish(c) ==
    /\ step[c] = "tail"
    /\ active' = Unmarked(c)
    /\ Ends(c, [turn |-> c, status |-> answer[c]])
    /\ UNCHANGED <<user, answer, log, artifact>>

\* cancelConversationChat finds the control of the call that has the lock; once the
\* answer is there nothing asks for the flag any more
Cancel(c) ==
    /\ up /\ Chatting(c) /\ answer[c] = "none"
    /\ cancelled' = cancelled \cup {c}
    /\ UNCHANGED <<rows, req, step, tries, chats, agent, loose, up, portal>>
-----------------------------------------------------------------------------
(* The Portal's handlers, and restarts *)

\* A reply with an answer: the row of the request goes if it is not the one that
\* was answered, and the rows of the reply are written as they were when it was sent.
Accept(c) ==
    LET t == reply[c].turn  q == QuestionOf(t)
    IN /\ http[c] = "waiting" /\ t # None
       /\ http' = [http EXCEPT ![c] = "done"]
       /\ reply' = [reply EXCEPT ![c] = NoReply]
       /\ answer' = [answer EXCEPT ![t] = reply[c].status]
       /\ IF req[c].kind = "post"
          THEN user' = [d \in Call |-> IF d = q THEN [user[d] EXCEPT !.status = "sent"]
                                       ELSE IF d = c THEN NoMessage ELSE user[d]]
          ELSE UNCHANGED user
       /\ UNCHANGED <<log, active, artifact, runtime, relay, faults>>

\* markMessageFailed; nothing is written for a regeneration
GivesUp(c) ==
    /\ http[c] = "waiting"
    /\ http' = [http EXCEPT ![c] = "done"]
    /\ reply' = [reply EXCEPT ![c] = NoReply]
    /\ user' = IF req[c].kind = "post" THEN [user EXCEPT ![c].status = "failed"] ELSE user
    /\ UNCHANGED <<answer, log, active, artifact, runtime, relay>>

TakesError(c) ==
    /\ reply[c] = Error
    /\ GivesUp(c)
    /\ UNCHANGED faults

Faulty == faults < MaxFaults /\ faults' = faults + 1

\* TIMEOUT: without a reply, or while one is on its way
TimesOut(c) == Faulty /\ reply[c] # Error /\ GivesUp(c)

\* The connection closes: CONNECTOR_OFFLINE for everyone who waits.
Closed ==
    /\ relay' = <<>>
    /\ Replies(Waiting, Error)
    /\ UNCHANGED http

Disconnect ==
    /\ up /\ Faulty /\ Closed
    /\ Waiting # {} \/ relay # <<>>
    /\ step' = [c \in Call |-> IF step[c] = "sent" THEN "done" ELSE step[c]]
    /\ UNCHANGED <<rows, req, tries, chats, cancelled, agent, loose, up>>

Crash ==
    /\ up /\ Faulty /\ Closed
    /\ up' = FALSE
    /\ step' = [c \in Call |-> IF c \in Present \/ step[c] = "sent" THEN "done" ELSE step[c]]
    /\ chats' = <<>> /\ agent' = None /\ loose' = {} /\ tries' = 0 /\ cancelled' = {}
    /\ UNCHANGED <<rows, req>>

\* Slip: The marker is removed, the turn left without an answer.
OnlyUnmarked(t) == UNCHANGED <<answer, log>>

\* finalizeInterruptedConversationTurn
Finalized(t) ==
    IF answer[t] = "none"
    THEN /\ answer' = [answer EXCEPT ![t] = "failed"]
         /\ answeredAt' = [answeredAt EXCEPT ![t] = now + 1] /\ now' = now + 1
    ELSE UNCHANGED <<answer, log>>

\* reconcileInterruptedConversationTurnsOnStartup, before any request is served
Restart ==
    /\ ~up /\ up' = TRUE
    /\ IF active = None THEN UNCHANGED <<answer, log>> ELSE Finalized(active)
    /\ active' = None
    /\ UNCHANGED <<user, artifact, req, step, tries, chats, cancelled, agent, loose, portal>>
-----------------------------------------------------------------------------
Init ==
    /\ user = [c \in Call |-> NoMessage]
    /\ answer = [c \in Call |-> "none"]
    /\ answeredAt = [c \in Call |-> 0] /\ now = 0
    /\ active = None
    /\ artifact = [c \in Call |-> NoArtifact]
    /\ req = [c \in Call |-> NoRequest]
    /\ step = [c \in Call |-> "new"]
    /\ tries = 0 /\ chats = <<>> /\ cancelled = {} /\ agent = None /\ loose = {}
    /\ up = TRUE /\ relay = <<>> /\ faults = 0
    /\ http = [c \in Call |-> "none"]
    /\ reply = [c \in Call |-> NoReply]

Request(c) ==
    \/ \E k \in KeyFor(c) : Post(c, k) \/ PostDirect(c, k)
    \/ \E t \in Call : AskRegenerate(c, t)

\* The steps of the call that has the lock; each of them is followed by the next.
Turn(c) ==
    \/ Begin(c) \/ Replay(c) \/ SetupFails(c) \/ Supersede(c) \/ RefuseRegenerate(c)
    \/ Start(c) \/ StartCancelled(c)
    \/ AgentStarts(c) \/ AgentBusy(c) \/ AgentAnswers(c) \/ AgentFails(c) \/ Deadline(c)
    \/ Finish(c)

Next ==
    \/ \E c \in Call : \/ Request(c) \/ Receive(c) \/ Turn(c) \/ Cancel(c) \/ Publish(c)
                       \/ Accept(c) \/ TakesError(c) \/ TimesOut(c)
    \/ AgentComesBack \/ Disconnect \/ Crash \/ Restart

\* A started turn goes on: what it awaits returns or runs into the deadline.  PM2
\* starts the runtime again.
Fairness == (\A c \in Call : WF_vars(Turn(c))) /\ WF_vars(Restart)

Spec == Init /\ [][Next]_vars /\ Fairness
-----------------------------------------------------------------------------
(* Properties *)

MaybeCall == Call \cup {None}
Status == {"none", "sent", "failed", "superseded"}
Steps == {"new", "sent", "queued", "joined", "setup", "storage", "call", "agent", "tail", "done"}

\* Type of the state of rows, runtime and Portal.
TypeOK ==
    /\ user \in [Call -> [status : {"none", "pending", "sent", "failed"}, turn : MaybeCall,
                          key : MaybeCall, at : Nat]]
    /\ answer \in [Call -> Status]
    /\ answeredAt \in [Call -> Nat] /\ now \in Nat
    /\ active \in MaybeCall
    /\ artifact \in [Call -> [by : {"nobody", "agent", "loose"}, turn : MaybeCall,
                              message : MaybeCall]]
    /\ req \in [Call -> [kind : {"none", "post", "direct", "regenerate"}, key : MaybeCall,
                         target : MaybeCall, question : MaybeCall]]
    /\ step \in [Call -> Steps]
    /\ tries \in {0, 1}
    /\ chats \in Seq(Call)
    /\ cancelled \in SUBSET Call
    /\ agent \in MaybeCall
    /\ loose \in SUBSET Call
    /\ up \in BOOLEAN /\ faults \in 0..MaxFaults
    /\ relay \in Seq(Call)
    /\ http \in [Call -> {"none", "waiting", "done"}]
    /\ reply \in [Call -> [turn : MaybeCall, status : Status \cup {"error"}]]

\* While the runtime is alive the marker names the turn that is running and
\* nothing else: no second request overwrites it, and no turn leaves it behind
\* ("the persisted active turn marker cannot be overwritten", withConversationChatLock).
MarkerIsTheTurn ==
    up => \A c \in Call :
        active = c <=> Chatting(c) /\ step[c] \in {"call", "agent", "tail"}

\* A turn that was stopped before it had an answer gets no answer but a failed
\* one, from whichever of queue, setup, agent, retry or deadline it is in (cancelConversationChat).
CancelSuppresses ==
    [][\A c \in Call : c \in cancelled /\ answer[c] = "none"
                       => answer'[c] \in {"none", "failed"}]_vars

\* No turn is started for an idempotency key that a row of a started turn holds,
\* whatever died or was cancelled in between (chatViaConversationLogOnce).
StoredKeysRunOnce ==
    [][\A c \in Call : active' = c /\ active # c
                       => \A t \in Call : user[t].key = None \/ user[t].key # req[c].key]_vars

\* An artifact shows up under the answer of the turn whose agent made it, and
\* under no other, unless nobody waited for that agent any more ("only the artifacts
\* that were truly produced during THIS specific Mastra turn", attachArtifactsToAssistantMessage).
ArtifactsOfTheirTurn ==
    \A a \in Call : artifact[a].by = "agent" =>
        /\ artifact[a].message \in {None, a}
        /\ answer[a] = "sent" => artifact[a].message = a

\* A regeneration asks the very question again that the superseded answer was given
\* to, although other messages are written between question and answer: only a direct
\* request that overtook a message in the relay can be taken for the question.
RegeneratesItsQuestion ==
    \A c \in Call : req[c].question # None =>
        \/ req[c].question = QuestionOf(req[c].target)
        \/ req[req[c].question].kind = "direct" /\ req[QuestionOf(req[c].target)].kind = "post"

\* A turn that was marked gets an answer and loses the mark, through failing agents,
\* agents that never return and deaths of the runtime.
TurnsAreAnswered ==
    \A c \in Call : active = c ~> answer[c] # "none" /\ active # c

\* Who waits for the lock or for another call of the same key gets a reply or dies
\* with the runtime.
QueueDrains ==
    \A c \in Call : step[c] \in {"queued", "joined"} ~> step[c] = "done"
=============================================================================
