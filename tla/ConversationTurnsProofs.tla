----------------------- MODULE ConversationTurnsProofs -----------------------
(***************************************************************************)
(* Theorems about ConversationTurns, for any set of calls, any limit and   *)
(* any number of faults.  The invariant is built in layers: types, the     *)
(* line of the calls before the lock, the marker and the answers, the      *)
(* idempotency keys that rows hold, the artifacts, the order in which      *)
(* messages are written and turns answered, and who waits for whom.        *)
(***************************************************************************)
EXTENDS ConversationTurns, TLAPS

-----------------------------------------------------------------------------
(* Types and the line *)

\* Steps of a call that has the lock and has begun.
Running == {"setup", "storage", "call", "agent", "tail"}

\* The calls in line are those that wait or run, once each; only the first runs.
Line ==
    /\ \A i, j \in 1..Len(chats) : chats[i] = chats[j] => i = j
    /\ \A i \in 1..Len(chats) : step[chats[i]] = "queued" \/ (i = 1 /\ step[chats[i]] \in Running)
    /\ \A c \in Call : step[c] \in Running \cup {"queued"}
                       => \E i \in 1..Len(chats) : chats[i] = c
    /\ \A i, j \in 1..Len(relay) : relay[i] = relay[j] => i = j
    /\ \A i \in 1..Len(relay) : step[relay[i]] = "sent"
    /\ ~up => chats = <<>> /\ relay = <<>> /\ \A c \in Call : step[c] \in {"new", "done"}

UserRow == [status : {"none", "pending", "sent", "failed"}, turn : MaybeCall, key : MaybeCall, at : Nat]

Reply == [turn : MaybeCall, status : Status \cup {"error"}]

\* A reply the runtime may send now.
Backed(r) == r.turn # None => answer[r.turn] # "none" /\ r.status \in Status \ {"none"}

\* Whoever is about to release the lock has its answer; a reply names a turn that has one.
Answered ==
    \A c \in Call :
        /\ step[c] = "tail" => answer[c] # "none"
        /\ Backed(reply[c])

Typed == TypeOK /\ Line /\ Answered

LEMMA TypedInit == Init => Typed
<1> SUFFICES ASSUME Init PROVE Typed
    OBVIOUS
<1>1. TypeOK
    BY TurnsAssumption DEF TurnsAssumption, Init, TypeOK, MaybeCall, Status, Steps, NoMessage, NoArtifact,
       NoRequest, NoReply
<1>2. Line /\ Answered
    BY DEF Init, Line, Running, Answered, Backed, NoReply
<1> QED
    BY <1>1, <1>2 DEF Typed

\* Whoever runs is the first in line.
LEMMA RunnerIsFirst ==
    ASSUME Typed, NEW c \in Call, step[c] \in Running
    PROVE  chats # <<>> /\ Head(chats) = c /\ Chatting(c)
<1>1. PICK i \in 1..Len(chats) : chats[i] = c
    BY DEF Typed, Line
<1>2. i = 1
    BY <1>1 DEF Typed, Line, Running
<1>3. chats \in Seq(Call)
    BY DEF Typed, TypeOK
<1> QED
    BY <1>1, <1>2, <1>3 DEF Chatting

\* The head of a line that is not empty.
LEMMA First ==
    ASSUME NEW s \in Seq(Call), s # <<>>
    PROVE  /\ Head(s) \in Call /\ Head(s) = s[1] /\ Len(s) \in Nat \ {0}
           /\ Tail(s) \in Seq(Call) /\ Len(Tail(s)) = Len(s) - 1
           /\ \A i \in 1..Len(s) : s[i] \in Call
           /\ \A i \in 1..Len(Tail(s)) : Tail(s)[i] = s[i + 1]
OBVIOUS

\* A sequence that grows at its end.
LEMMA Longer ==
    ASSUME NEW s \in Seq(Call), NEW c \in Call
    PROVE  /\ Append(s, c) \in Seq(Call) /\ Len(s) \in Nat /\ Len(Append(s, c)) = Len(s) + 1
           /\ \A i \in 1..Len(s) : s[i] \in Call /\ Append(s, c)[i] = s[i]
           /\ Append(s, c)[Len(s) + 1] = c
OBVIOUS

\* A call that leaves the line is the first of it.
LEMMA EndsLine ==
    ASSUME Typed, NEW c \in Call, NEW r, Ends(c, r), chats # <<>>, Head(chats) = c
    PROVE  Line'
<1>1. /\ chats \in Seq(Call) /\ step \in [Call -> Steps] /\ relay \in Seq(Call)
    BY DEF Typed, TypeOK
<1>2. /\ chats' = Tail(chats) /\ relay' = relay /\ up' = up
      /\ step' = [d \in Call |-> IF d = c \/ d \in Joined(c) THEN "done" ELSE step[d]]
    BY DEF Ends
<1>3. \A d \in Joined(c) : step[d] = "joined"
    BY DEF Joined
<1>4. step'[c] = "done" /\ \A d \in Call \ {c} : step'[d] = step[d] \/ (step[d] = "joined" /\ step'[d] = "done")
    BY <1>1, <1>2, <1>3
<1>5. /\ chats[1] = c /\ Len(chats) \in Nat \ {0} /\ Len(chats') = Len(chats) - 1
      /\ \A i \in 1..Len(chats) : chats[i] \in Call
      /\ \A i \in 1..Len(chats') : chats'[i] = chats[i + 1]
    BY <1>1, <1>2, First
<1>6. \A i, j \in 1..Len(chats') : chats'[i] = chats'[j] => i = j
    BY <1>5 DEF Typed, Line
<1>7. \A i \in 1..Len(chats') : chats'[i] # c /\ step[chats'[i]] = "queued"
    BY <1>5 DEF Typed, Line
<1>8. \A i \in 1..Len(chats') : step'[chats'[i]] = "queued"
    BY <1>4, <1>5, <1>7
<1>9. \A d \in Call : step'[d] \in Running \cup {"queued"} => \E i \in 1..Len(chats') : chats'[i] = d
    <2> SUFFICES ASSUME NEW d \in Call, step'[d] \in Running \cup {"queued"}
                 PROVE  \E i \in 1..Len(chats') : chats'[i] = d
        OBVIOUS
    <2>1. d # c /\ step[d] \in Running \cup {"queued"}
        BY <1>4 DEF Running
    <2>2. PICK i \in 1..Len(chats) : chats[i] = d
        BY <2>1 DEF Typed, Line
    <2>3. i - 1 \in 1..Len(chats')
        BY <2>1, <2>2, <1>5
    <2>4. (i - 1) + 1 = i /\ i - 1 \in Nat
        BY <2>3, <1>5
    <2>5. chats'[i - 1] = chats[i]
        BY <2>3, <2>4, <1>5
    <2> QED
        BY <2>2, <2>3, <2>5
<1>10. \A i \in 1..Len(relay) : step'[relay[i]] = "sent"
    <2> SUFFICES ASSUME NEW i \in 1..Len(relay) PROVE step'[relay[i]] = "sent"
        OBVIOUS
    <2>1. relay[i] \in Call /\ step[relay[i]] = "sent"
        BY <1>1 DEF Typed, Line
    <2>2. step[c] # "sent"
        BY <1>5 DEF Typed, Line, Running
    <2> QED
        BY <2>1, <2>2, <1>4
<1>11. up
    BY <1>5 DEF Typed, Line
<1> QED
    BY <1>2, <1>6, <1>8, <1>9, <1>10, <1>11 DEF Typed, Line

\* The first in line goes on.
LEMMA StepLine ==
    ASSUME Typed, NEW c \in Call, NEW s \in Running, chats # <<>>, Head(chats) = c,
           step' = [step EXCEPT ![c] = s], UNCHANGED <<chats, relay, up>>
    PROVE  Line'
<1>1. /\ chats \in Seq(Call) /\ step \in [Call -> Steps] /\ relay \in Seq(Call)
    BY DEF Typed, TypeOK
<1>2. /\ chats[1] = c /\ Len(chats) \in Nat \ {0} /\ \A i \in 1..Len(chats) : chats[i] \in Call
    BY <1>1, First
<1>3. /\ step'[c] = s /\ \A d \in Call \ {c} : step'[d] = step[d]
    BY <1>1
<1>4. step[c] \in Running \cup {"queued"}
    BY <1>2 DEF Typed, Line
<1>5. \A i \in 1..Len(chats) : step'[chats[i]] = "queued" \/ (i = 1 /\ step'[chats[i]] \in Running)
    BY <1>2, <1>3 DEF Typed, Line
<1>6. \A d \in Call : step'[d] \in Running \cup {"queued"} => \E i \in 1..Len(chats) : chats[i] = d
    BY <1>3, <1>4 DEF Typed, Line
<1>7. \A i \in 1..Len(relay) : step'[relay[i]] = "sent"
    <2> SUFFICES ASSUME NEW i \in 1..Len(relay) PROVE step'[relay[i]] = "sent"
        OBVIOUS
    <2>1. relay[i] \in Call /\ step[relay[i]] = "sent"
        BY <1>1 DEF Typed, Line
    <2> QED
        BY <2>1, <1>3, <1>4 DEF Running
<1>8. up
    BY <1>2 DEF Typed, Line
<1> QED
    BY <1>5, <1>6, <1>7, <1>8 DEF Typed, Line

\* What is on its way is in the relay, once each.
Relayed ==
    /\ \A i, j \in 1..Len(relay) : relay[i] = relay[j] => i = j
    /\ \A i \in 1..Len(relay) : step[relay[i]] = "sent"

\* A call comes from outside, or as the first out of the relay.
Comes(c) ==
    \/ step[c] = "new" /\ relay' = relay
    \/ relay # <<>> /\ c = Head(relay) /\ relay' = Tail(relay)

LEMMA LeavesRelay ==
    ASSUME Typed, NEW c \in Call, Comes(c), \A d \in Call \ {c} : step'[d] = step[d]
    PROVE  Relayed' /\ relay' \in Seq(Call) /\ step[c] \in {"new", "sent"}
<1>1. relay \in Seq(Call)
    BY DEF Typed, TypeOK
<1>2. CASE step[c] = "new" /\ relay' = relay
    <2>1. \A i \in 1..Len(relay) : relay[i] \in Call /\ relay[i] # c
        BY <1>1, <1>2 DEF Typed, Line
    <2> QED
        BY <1>1, <1>2, <2>1 DEF Typed, Line, Relayed
<1>3. CASE relay # <<>> /\ c = Head(relay) /\ relay' = Tail(relay)
    <2>1. /\ relay' \in Seq(Call) /\ c = relay[1] /\ Len(relay) \in Nat \ {0}
          /\ Len(relay') = Len(relay) - 1 /\ \A i \in 1..Len(relay) : relay[i] \in Call
          /\ \A i \in 1..Len(relay') : relay'[i] = relay[i + 1]
        BY <1>1, <1>3, First
    <2>2. \A i, j \in 1..Len(relay') : relay'[i] = relay'[j] => i = j
        BY <2>1 DEF Typed, Line
    <2>3. \A i \in 1..Len(relay') : relay'[i] # c /\ relay'[i] \in Call /\ step[relay'[i]] = "sent"
        BY <2>1 DEF Typed, Line
    <2>4. step[c] = "sent"
        BY <2>1 DEF Typed, Line
    <2> QED
        BY <2>1, <2>2, <2>3, <2>4 DEF Relayed
<1> QED
    BY <1>2, <1>3 DEF Comes

\* Nothing of the line of the lock changes but a call outside of it.
LEMMA AsideLine ==
    ASSUME Typed, NEW c \in Call, NEW s \in {"joined", "done"}, Comes(c),
           step' = [step EXCEPT ![c] = s], up, up', UNCHANGED chats
    PROVE  Line' /\ step' \in [Call -> Steps] /\ relay' \in Seq(Call)
<1>1. /\ chats \in Seq(Call) /\ step \in [Call -> Steps]
    BY DEF Typed, TypeOK
<1>2. step' \in [Call -> Steps] /\ step'[c] = s /\ \A d \in Call \ {c} : step'[d] = step[d]
    BY <1>1 DEF Steps
<1>3. Relayed' /\ relay' \in Seq(Call) /\ step[c] \in {"new", "sent"}
    BY <1>2, LeavesRelay
<1>4. \A i \in 1..Len(chats) : chats[i] \in Call \ {c}
    BY <1>1, <1>3 DEF Typed, Line, Running
<1>5. \A i \in 1..Len(chats) : step'[chats[i]] = "queued" \/ (i = 1 /\ step'[chats[i]] \in Running)
    BY <1>2, <1>4 DEF Typed, Line
<1>6. \A d \in Call : step'[d] \in Running \cup {"queued"} => \E i \in 1..Len(chats) : chats[i] = d
    BY <1>2 DEF Typed, Line, Running
<1> QED
    BY <1>2, <1>3, <1>5, <1>6 DEF Typed, Line, Relayed

\* A call joins the end of the line.
LEMMA LastLine ==
    ASSUME Typed, NEW c \in Call, Comes(c), chats' = Append(chats, c),
           step' = [step EXCEPT ![c] = "queued"], up, up'
    PROVE  Line' /\ step' \in [Call -> Steps] /\ relay' \in Seq(Call) /\ chats' \in Seq(Call)
<1>1. /\ chats \in Seq(Call) /\ step \in [Call -> Steps]
    BY DEF Typed, TypeOK
<1>2. step' \in [Call -> Steps] /\ step'[c] = "queued" /\ \A d \in Call \ {c} : step'[d] = step[d]
    BY <1>1 DEF Steps
<1>3. Relayed' /\ relay' \in Seq(Call) /\ step[c] \in {"new", "sent"}
    BY <1>2, LeavesRelay
<1>4. /\ chats' \in Seq(Call) /\ Len(chats) \in Nat /\ Len(chats') = Len(chats) + 1
      /\ \A i \in 1..Len(chats) : chats[i] \in Call /\ chats'[i] = chats[i]
      /\ chats'[Len(chats) + 1] = c
    BY <1>1, Longer
<1>5. \A i \in 1..Len(chats) : chats[i] # c
    BY <1>3 DEF Typed, Line, Running
<1>6. \A i, j \in 1..Len(chats') : chats'[i] = chats'[j] => i = j
    BY <1>4, <1>5 DEF Typed, Line
<1>7. \A i \in 1..Len(chats') : step'[chats'[i]] = "queued" \/ (i = 1 /\ step'[chats'[i]] \in Running)
    BY <1>2, <1>4, <1>5 DEF Typed, Line
<1>8. ASSUME NEW d \in Call, step'[d] \in Running \cup {"queued"}
      PROVE  \E i \in 1..Len(chats') : chats'[i] = d
    <2>1. CASE d = c
        <3>1. Len(chats) + 1 \in 1..Len(chats')
            BY <1>4
        <3> QED
            BY <2>1, <3>1, <1>4
    <2>2. CASE d # c
        <3>1. PICK i \in 1..Len(chats) : chats[i] = d
            BY <1>2, <1>8, <2>2 DEF Typed, Line
        <3>2. i \in 1..Len(chats')
            BY <1>4
        <3> QED
            BY <3>1, <3>2, <1>4
    <2> QED
        BY <2>1, <2>2
<1> QED
    BY <1>2, <1>3, <1>4, <1>6, <1>7, <1>8 DEF Typed, Line, Relayed

LEMMA EntersLine ==
    ASSUME Typed, NEW c \in Call, NEW k, Enters(c, k), Comes(c), up, up'
    PROVE  Line' /\ step' \in [Call -> Steps] /\ relay' \in Seq(Call) /\ chats' \in Seq(Call)
<1>1. chats \in Seq(Call)
    BY DEF Typed, TypeOK
<1>2. CASE Leader(k) # {}
    BY <1>1, <1>2, AsideLine DEF Enters, Goes
<1>3. CASE Leader(k) = {}
    BY <1>3, LastLine DEF Enters, Goes
<1> QED
    BY <1>2, <1>3

\* The Portal sends a request, or finds nobody there.
LEMMA SendsLine ==
    ASSUME Typed, NEW c \in Call, Sends(c), step[c] = "new", UNCHANGED <<chats, up>>
    PROVE  Line' /\ step' \in [Call -> Steps] /\ relay' \in Seq(Call)
<1>1. /\ chats \in Seq(Call) /\ relay \in Seq(Call) /\ step \in [Call -> Steps]
    BY DEF Typed, TypeOK
<1> DEFINE s == IF up THEN "sent" ELSE "done"
<1>2. step' = [step EXCEPT ![c] = s]
    BY DEF Sends, Goes
<1>3. step' \in [Call -> Steps] /\ step'[c] = s /\ \A d \in Call \ {c} : step'[d] = step[d]
    BY <1>1, <1>2 DEF Steps
<1>4. \A i \in 1..Len(chats) : chats[i] \in Call \ {c}
    BY <1>1 DEF Typed, Line, Running
<1>5. \A i \in 1..Len(relay) : relay[i] \in Call \ {c}
    BY <1>1 DEF Typed, Line
<1>6. \A i \in 1..Len(chats) : step'[chats[i]] = "queued" \/ (i = 1 /\ step'[chats[i]] \in Running)
    BY <1>3, <1>4 DEF Typed, Line
<1>7. \A d \in Call : step'[d] \in Running \cup {"queued"} => \E i \in 1..Len(chats) : chats[i] = d
    BY <1>3 DEF Typed, Line, Running
<1>8. CASE up
    <2>1. relay' = Append(relay, c) /\ step'[c] = "sent"
        BY <1>3, <1>8 DEF Sends
    <2>2. /\ relay' \in Seq(Call) /\ Len(relay) \in Nat /\ Len(relay') = Len(relay) + 1
          /\ \A i \in 1..Len(relay) : relay'[i] = relay[i]
          /\ relay'[Len(relay) + 1] = c
        BY <1>1, <2>1, Longer
    <2>3. \A i, j \in 1..Len(relay') : relay'[i] = relay'[j] => i = j
        BY <1>5, <2>2 DEF Typed, Line
    <2>4. \A i \in 1..Len(relay') : step'[relay'[i]] = "sent"
        BY <1>3, <1>5, <2>1, <2>2 DEF Typed, Line
    <2> QED
        BY <1>3, <1>6, <1>7, <1>8, <2>2, <2>3, <2>4 DEF Typed, Line
<1>9. CASE ~up
    <2>1. relay' = relay /\ step'[c] = "done"
        BY <1>3, <1>9 DEF Sends
    <2>2. \A i \in 1..Len(relay') : step'[relay'[i]] = "sent"
        BY <1>3, <1>5, <2>1 DEF Typed, Line
    <2> QED
        BY <1>1, <1>3, <1>6, <1>7, <1>9, <2>1, <2>2 DEF Typed, Line
<1> QED
    BY <1>8, <1>9

\* Answers do not vanish, and who comes to its tail or gets a reply has one.
LEMMA AnswersStay ==
    ASSUME Typed, reply' \in [Call -> Reply],
           \A t \in Call : answer[t] # "none" => answer'[t] # "none",
           \A d \in Call : step'[d] = "tail" => step[d] = "tail" \/ answer'[d] # "none",
           \A d \in Call : \/ reply'[d] = reply[d]
                           \/ reply'[d].turn # None => /\ answer'[reply'[d].turn] # "none"
                                                       /\ reply'[d].status \in Status \ {"none"}
    PROVE  Answered'
<1> SUFFICES ASSUME NEW d \in Call
             PROVE  /\ step'[d] = "tail" => answer'[d] # "none"
                    /\ reply'[d].turn # None => /\ answer'[reply'[d].turn] # "none"
                                                /\ reply'[d].status \in Status \ {"none"}
    BY DEF Answered, Backed
<1>1. reply \in [Call -> Reply]
    BY DEF Typed, TypeOK, Reply
<1>2. /\ step[d] = "tail" => answer[d] # "none"
      /\ reply[d].turn # None => /\ answer[reply[d].turn] # "none"
                                /\ reply[d].status \in Status \ {"none"}
    BY DEF Typed, Answered, Backed
<1>3. reply[d].turn # None => reply[d].turn \in Call
    BY <1>1 DEF Reply, MaybeCall
<1> QED
    BY <1>2, <1>3

\* The call that has the lock is over.
LEMMA EndsTyped ==
    ASSUME Typed, NEW c \in Call, NEW r \in Reply, Backed(r), Ends(c, r), Chatting(c),
           UNCHANGED <<user, answer, log, artifact>>, active' \in MaybeCall
    PROVE  Typed'
<1>1. Line'
    BY EndsLine DEF Chatting
<1>2. reply' = [d \in Call |-> IF d \in (Joined(c) \cup {c}) \cap Waiting THEN r ELSE reply[d]]
    BY DEF Ends, Replies
<1>3. reply' \in [Call -> Reply] /\ \A d \in Call : reply'[d] = reply[d] \/ reply'[d] = r
    BY <1>2 DEF Typed, TypeOK, Reply
<1>4. step' \in [Call -> Steps] /\ \A d \in Call : step'[d] = "tail" => step[d] = "tail"
    BY DEF Ends, Typed, TypeOK, Steps
<1>5. Answered'
    <2>1. \A d \in Call : reply'[d] = reply[d]
                          \/ (reply'[d].turn # None => /\ answer'[reply'[d].turn] # "none"
                                                       /\ reply'[d].status \in Status \ {"none"})
        BY <1>3 DEF Backed
    <2> QED
        BY <1>3, <1>4, <2>1, AnswersStay
<1>6. chats' \in Seq(Call)
    BY First DEF Ends, Chatting, Typed, TypeOK
<1>7. TypeOK'
    BY <1>3, <1>4, <1>6 DEF Ends, Typed, TypeOK, Reply, log
<1> QED
    BY <1>1, <1>5, <1>7 DEF Typed

\* The answer of the call that has the lock is stored.
LEMMA PersistsTyped ==
    ASSUME Typed, NEW c \in Call, NEW s \in {"sent", "failed"}, NEW bind \in BOOLEAN,
           Persists(c, s, bind), Chatting(c), agent' \in MaybeCall, loose' \in SUBSET Call,
           UNCHANGED <<user, active, req, chats, cancelled, up, portal>>
    PROVE  Typed'
<1>1. Line'
    BY StepLine DEF Chatting, Persists, Goes, portal, Running
<1>2. /\ step' \in [Call -> Steps] /\ \A d \in Call \ {c} : step'[d] = step[d]
      /\ answer' \in [Call -> Status] /\ answer'[c] = s /\ \A d \in Call \ {c} : answer'[d] = answer[d]
    BY DEF Typed, TypeOK, Persists, Goes, Steps, Status
<1>3. reply' = reply /\ reply' \in [Call -> Reply]
    BY DEF portal, Typed, TypeOK, Reply
<1>4. Answered'
    BY <1>2, <1>3, AnswersStay
<1>5. artifact' \in [Call -> [by : {"nobody", "agent", "loose"}, turn : MaybeCall, message : MaybeCall]]
    <2>1. Bound(c) \in [Call -> [by : {"nobody", "agent", "loose"}, turn : MaybeCall, message : MaybeCall]]
        <3> SUFFICES ASSUME NEW a \in Call
                     PROVE  Bound(c)[a] \in [by : {"nobody", "agent", "loose"}, turn : MaybeCall, message : MaybeCall]
            BY DEF Bound
        <3>1. artifact[a] \in [by : {"nobody", "agent", "loose"}, turn : MaybeCall, message : MaybeCall]
            BY DEF Typed, TypeOK
        <3> QED
            BY <3>1 DEF Bound, MaybeCall
    <2> QED
        BY <2>1 DEF Typed, TypeOK, Persists
<1>6. answeredAt' \in [Call -> Nat] /\ now' \in Nat /\ tries' \in {0, 1}
    BY DEF Typed, TypeOK, Persists
<1>7. TypeOK'
    BY <1>2, <1>5, <1>6 DEF Typed, TypeOK, portal
<1> QED
    BY <1>1, <1>4, <1>7 DEF Typed

\* Nothing of the replies changes and nobody comes to its tail.
LEMMA AnswersUntouched ==
    ASSUME Typed, reply' = reply, \A t \in Call : answer[t] # "none" => answer'[t] # "none",
           \A d \in Call : step'[d] = "tail" => step[d] = "tail" \/ answer'[d] # "none"
    PROVE  Answered'
<1>1. reply' \in [Call -> Reply]
    BY DEF Typed, TypeOK, Reply
<1> QED
    BY <1>1, AnswersStay

\* The steps of the Portal that bring a request, and of the runtime that takes one.
LEMMA RequestTyped ==
    ASSUME Typed, NEW c \in Call, Request(c)
    PROVE  Typed'
<1> USE DEF Typed
<1>1. /\ NoReply \in Reply /\ Error \in Reply /\ Error.turn = None
    BY TurnsAssumption DEF Reply, NoReply, Error, MaybeCall, Status
<1>2. ASSUME NEW d \in Call, Sends(d), UNCHANGED answer, step' \in [Call -> Steps]
      PROVE  Answered' /\ reply' \in [Call -> Reply]
    <2>1. reply' \in [Call -> Reply] /\ \A e \in Call : reply'[e] = reply[e] \/ reply'[e].turn = None
        <3>1. reply \in [Call -> Reply]
            BY DEF TypeOK, Reply
        <3>2. reply' = reply \/ reply' = [reply EXCEPT ![d] = Error]
            BY <1>2 DEF Sends
        <3> QED
            BY <1>1, <3>1, <3>2
    <2>2. \A e \in Call : step'[e] = "tail" => step[e] = "tail"
        BY <1>2 DEF Sends, Goes, TypeOK
    <2> QED
        BY <1>2, <2>1, <2>2, AnswersStay
<1>3. ASSUME NEW k \in KeyFor(c), Post(c, k)
      PROVE  Typed'
    <2>1. Line' /\ step' \in [Call -> Steps] /\ relay' \in Seq(Call)
        BY <1>3, SendsLine DEF Post
    <2>2. Answered' /\ reply' \in [Call -> Reply]
        BY <1>2, <1>3, <2>1 DEF Post
    <2>3. k \in MaybeCall
        <3>1. \A d \in Call : req[d].key \in MaybeCall
            BY DEF TypeOK
        <3> QED
            BY <3>1 DEF KeyFor, MaybeCall
    <2>4. user' \in [Call -> UserRow]
        <3>1. user \in [Call -> UserRow] /\ now + 1 \in Nat
            BY DEF TypeOK, UserRow
        <3>2. [user[c] EXCEPT !.status = "pending", !.at = now + 1] \in UserRow
            BY <3>1 DEF UserRow
        <3>3. user' = [user EXCEPT ![c] = [user[c] EXCEPT !.status = "pending", !.at = now + 1]]
            BY <1>3, <3>1 DEF Post, UserRow
        <3> QED
            BY <3>1, <3>2, <3>3
    <2>5. req' \in [Call -> [kind : {"none", "post", "direct", "regenerate"}, key : MaybeCall,
                            target : MaybeCall, question : MaybeCall]]
        BY <1>3, <2>3 DEF Post, TypeOK, NoRequest, MaybeCall
    <2> QED
        BY <1>3, <2>1, <2>2, <2>4, <2>5 DEF Post, TypeOK, Reply, UserRow
<1>4. ASSUME NEW t \in Call, AskRegenerate(c, t)
      PROVE  Typed'
    <2>1. Line' /\ step' \in [Call -> Steps] /\ relay' \in Seq(Call)
        BY <1>4, SendsLine DEF AskRegenerate
    <2>2. Answered' /\ reply' \in [Call -> Reply]
        BY <1>2, <1>4, <2>1 DEF AskRegenerate, rows
    <2>3. req' \in [Call -> [kind : {"none", "post", "direct", "regenerate"}, key : MaybeCall,
                            target : MaybeCall, question : MaybeCall]]
        BY <1>4 DEF AskRegenerate, TypeOK, NoRequest, MaybeCall
    <2> QED
        BY <1>4, <2>1, <2>2, <2>3 DEF AskRegenerate, TypeOK, Reply, rows, log
<1>5. ASSUME NEW k \in KeyFor(c), PostDirect(c, k)
      PROVE  Typed'
    <2>1. Line' /\ step' \in [Call -> Steps] /\ relay' \in Seq(Call) /\ chats' \in Seq(Call)
        BY <1>5, EntersLine DEF PostDirect, Comes, portal
    <2>2. \A e \in Call : step'[e] = "tail" => step[e] = "tail"
        BY <1>5 DEF PostDirect, Enters, Goes, TypeOK
    <2>3. Answered'
        BY <1>5, <2>2, AnswersUntouched DEF PostDirect, portal, rows
    <2>4. k \in MaybeCall
        <3>1. \A d \in Call : req[d].key \in MaybeCall
            BY DEF TypeOK
        <3> QED
            BY <3>1 DEF KeyFor, MaybeCall
    <2>5. req' \in [Call -> [kind : {"none", "post", "direct", "regenerate"}, key : MaybeCall,
                            target : MaybeCall, question : MaybeCall]]
        BY <1>5, <2>4 DEF PostDirect, TypeOK, NoRequest, MaybeCall
    <2> QED
        BY <1>5, <2>1, <2>3, <2>5 DEF PostDirect, TypeOK, rows, log, portal
<1> QED
    BY <1>3, <1>4, <1>5 DEF Request

LEMMA ReceiveTyped ==
    ASSUME Typed, NEW c \in Call, Receive(c)
    PROVE  Typed'
<1> USE DEF Typed
<1>1. Error \in Reply /\ Error.turn = None
    BY TurnsAssumption DEF Reply, Error, MaybeCall, Status
<1>2. Comes(c) /\ up /\ up'
    BY DEF Receive, Comes
<1>3. Line' /\ step' \in [Call -> Steps] /\ relay' \in Seq(Call) /\ chats' \in Seq(Call)
    <2>1. CASE Admitted
        BY <1>2, <2>1, EntersLine DEF Receive
    <2>2. CASE ~Admitted
        BY <1>2, <2>2, AsideLine DEF Receive, Goes, TypeOK
    <2> QED
        BY <2>1, <2>2
<1>4. reply' \in [Call -> Reply] /\ \A e \in Call : reply'[e] = reply[e] \/ reply'[e].turn = None
    <2>1. reply \in [Call -> Reply]
        BY DEF TypeOK, Reply
    <2>2. reply' = reply \/ reply' = [e \in Call |-> IF e \in {c} \cap Waiting THEN Error ELSE reply[e]]
        BY DEF Receive, Replies
    <2> QED
        BY <1>1, <2>1, <2>2
<1>5. \A e \in Call : step'[e] = "tail" => step[e] = "tail"
    BY DEF Receive, Enters, Goes, TypeOK
<1>6. Answered'
    BY <1>4, <1>5, AnswersStay DEF Receive, rows
<1> QED
    BY <1>3, <1>4, <1>6 DEF Receive, TypeOK, rows, log, Reply

\* The user message of a call as it is stored.
LEMMA StoredTyped ==
    ASSUME Typed, NEW c \in Call
    PROVE  Stored(c) \in [Call -> UserRow]
<1>1. user \in [Call -> UserRow] /\ now + 1 \in Nat /\ req[c].key \in MaybeCall
    BY DEF Typed, TypeOK, UserRow
<1>2. CASE req[c].kind = "post"
    <2>1. [user[c] EXCEPT !.status = "sent", !.turn = c] \in UserRow
        BY <1>1 DEF UserRow, MaybeCall
    <2>2. Stored(c) = [user EXCEPT ![c] = [user[c] EXCEPT !.status = "sent", !.turn = c]]
        BY <1>1, <1>2 DEF Stored, UserRow
    <2> QED
        BY <1>1, <2>1, <2>2
<1>3. CASE req[c].kind = "direct"
    <2>1. [status |-> "sent", turn |-> c, key |-> req[c].key, at |-> now + 1] \in UserRow
        BY <1>1 DEF UserRow, MaybeCall
    <2> QED
        BY <1>1, <1>3, <2>1 DEF Stored
<1>4. CASE req[c].kind \notin {"post", "direct"}
    BY <1>1, <1>4 DEF Stored
<1> QED
    BY <1>2, <1>3, <1>4

\* Who marks its turn.
LEMMA MarksTyped ==
    ASSUME Typed, NEW c \in Call, Marks(c)
    PROVE  user' \in [Call -> UserRow] /\ active' \in MaybeCall /\ step[c] \in Running /\ Chatting(c)
<1>1. step[c] \in Running
    BY DEF Marks, Startable, Running
<1> QED
    BY <1>1, StoredTyped, RunnerIsFirst DEF Marks, MaybeCall

\* The steps of the call that has the lock.
LEMMA TurnTyped ==
    ASSUME Typed, NEW c \in Call, Turn(c)
    PROVE  Typed'
<1> USE DEF Typed
<1>1. ASSUME step[c] \in Running PROVE Chatting(c)
    BY <1>1, RunnerIsFirst
<1>2. Error \in Reply /\ Backed(Error)
    BY TurnsAssumption DEF Reply, Error, MaybeCall, Status, Backed
<1>3. ASSUME NEW s \in Running \ {"tail"}, Goes(c, s), Chatting(c),
             UNCHANGED <<answer, reply, chats, relay, up>>
      PROVE  Line' /\ Answered' /\ step' \in [Call -> Steps]
    <2>1. Line'
        BY <1>3, StepLine DEF Goes, Chatting
    <2>2. step' \in [Call -> Steps] /\ \A e \in Call : step'[e] = "tail" => step[e] = "tail"
        BY <1>3 DEF Goes, TypeOK, Running, Steps
    <2> QED
        BY <1>3, <2>1, <2>2, AnswersUntouched
<1>4. CASE Begin(c)
    <2>1. Line' /\ Answered' /\ step' \in [Call -> Steps]
        BY <1>3, <1>4 DEF Begin, HasLock, Running, rows, portal
    <2> QED
        BY <1>4, <2>1 DEF Begin, TypeOK, rows, portal, log
<1>5. CASE Replay(c)
    <2>1. PICK t \in Replayable(c) : Ends(c, [turn |-> t, status |-> answer[t]])
        BY <1>5 DEF Replay
    <2>2. t \in Call /\ answer[t] \in Status \ {"none"}
        BY DEF Replayable, Keyed, TypeOK
    <2>3. [turn |-> t, status |-> answer[t]] \in Reply /\ Backed([turn |-> t, status |-> answer[t]])
        BY <2>2 DEF Reply, Backed, MaybeCall
    <2> QED
        BY <1>5, <2>1, <2>3, EndsTyped DEF Replay, HasLock, rows, log, TypeOK
<1>6. CASE SetupFails(c)
    BY <1>1, <1>2, <1>6, EndsTyped DEF SetupFails, Running, rows, log, TypeOK
<1>7. CASE RefuseRegenerate(c)
    BY <1>1, <1>2, <1>7, EndsTyped DEF RefuseRegenerate, InRegenerate, Running, rows, log, TypeOK
<1>8. CASE Supersede(c)
    <2>1. step[c] \in Running /\ Chatting(c)
        BY <1>1, <1>8 DEF Supersede, InRegenerate, Running
    <2>2. PICK q \in Regenerable(req[c].target) : req' = [req EXCEPT ![c].question = q]
        BY <1>8 DEF Supersede
    <2>3. q \in Call /\ answer[req[c].target] = "sent"
        BY DEF Regenerable, LastBefore
    <2>4. Line'
        BY <1>8, <2>1, StepLine DEF Supersede, Goes, Chatting, portal, Running
    <2>5. step' \in [Call -> Steps] /\ \A e \in Call : step'[e] = "tail" => step[e] = "tail"
        BY <1>8 DEF Supersede, Goes, TypeOK, Steps
    <2>6. answer' \in [Call -> Status] /\ \A t \in Call : answer[t] # "none" => answer'[t] # "none"
        <3>1. answer \in [Call -> Status] /\ "superseded" \in Status
            BY DEF TypeOK, Status
        <3>2. answer' = [answer EXCEPT ![req[c].target] = "superseded"]
            BY <1>8 DEF Supersede
        <3> QED
            BY <3>1, <3>2
    <2>7. Answered'
        BY <1>8, <2>5, <2>6, AnswersUntouched DEF Supersede, portal
    <2>8. req' \in [Call -> [kind : {"none", "post", "direct", "regenerate"}, key : MaybeCall,
                            target : MaybeCall, question : MaybeCall]]
        <3> DEFINE Asked == [kind : {"none", "post", "direct", "regenerate"}, key : MaybeCall,
                             target : MaybeCall, question : MaybeCall]
        <3>1. req \in [Call -> Asked] /\ q \in MaybeCall
            BY <2>3 DEF TypeOK, MaybeCall
        <3>2. [req[c] EXCEPT !.question = q] \in Asked
            BY <3>1
        <3>3. req' = [req EXCEPT ![c] = [req[c] EXCEPT !.question = q]]
            BY <2>2, <3>1
        <3> HIDE DEF Asked
        <3>4. req' \in [Call -> Asked]
            BY <3>1, <3>2, <3>3
        <3> QED
            BY <3>4 DEF Asked
    <2> QED
        BY <1>8, <2>4, <2>5, <2>6, <2>7, <2>8 DEF Supersede, TypeOK, portal, log
<1>9. CASE Start(c)
    <2>1. /\ user' \in [Call -> UserRow] /\ active' \in MaybeCall
          /\ step[c] \in Running /\ Chatting(c)
        BY <1>9, MarksTyped DEF Start
    <2>2. Line' /\ Answered' /\ step' \in [Call -> Steps]
        BY <1>3, <1>9, <2>1 DEF Start, Running, portal
    <2>3. now' \in Nat
        <3>1. now \in Nat /\ now + 1 \in Nat
            BY DEF TypeOK
        <3>2. now' = now \/ now' = now + 1
            BY <1>9 DEF Start
        <3> QED
            BY <3>1, <3>2
    <2> QED
        BY <1>9, <2>1, <2>2, <2>3 DEF Start, TypeOK, portal, UserRow
<1>10. CASE StartCancelled(c)
    <2>1. /\ user' \in [Call -> UserRow] /\ active' \in MaybeCall
          /\ step[c] \in Running /\ Chatting(c)
        BY <1>10, MarksTyped DEF StartCancelled
    <2>2. Line'
        BY <1>10, <2>1, StepLine DEF StartCancelled, Goes, Chatting, portal, Running
    <2>3. step' \in [Call -> Steps] /\ answer' \in [Call -> Status] /\ answeredAt' \in [Call -> Nat] /\ now' \in Nat
        <3>1. now + 2 \in Nat /\ "failed" \in Status /\ "tail" \in Steps
            BY DEF TypeOK, Status, Steps
        <3>2. /\ step \in [Call -> Steps] /\ answer \in [Call -> Status] /\ answeredAt \in [Call -> Nat]
            BY DEF TypeOK
        <3> QED
            BY <1>10, <3>1, <3>2 DEF StartCancelled, Goes
    <2>4. /\ \A t \in Call : answer[t] # "none" => answer'[t] # "none"
          /\ \A e \in Call : step'[e] = "tail" => step[e] = "tail" \/ answer'[e] # "none"
        BY <1>10 DEF StartCancelled, Goes, TypeOK
    <2>5. Answered'
        BY <1>10, <2>4, AnswersUntouched DEF StartCancelled, portal
    <2> QED
        BY <1>10, <2>1, <2>2, <2>3, <2>5 DEF StartCancelled, TypeOK, portal, UserRow
<1>11. CASE AgentStarts(c)
    <2>1. Line' /\ Answered' /\ step' \in [Call -> Steps]
        BY <1>1, <1>3, <1>11 DEF AgentStarts, Running, rows, portal
    <2> QED
        BY <1>11, <2>1 DEF AgentStarts, TypeOK, rows, portal, log, MaybeCall
<1>12. ASSUME NEW s \in {"sent", "failed"} PROVE Outcome(c, s) \in {"sent", "failed"}
    BY DEF Outcome
<1>13. CASE AgentBusy(c)
    <2>1. step[c] \in Running /\ Chatting(c) /\ agent' = agent /\ loose' = loose
        BY <1>1, <1>13 DEF AgentBusy, Running
    <2>2. CASE tries = 0
        <3>1. Line'
            BY <1>13, <2>2 DEF AgentBusy, Line, portal
        <3>2. Answered'
            BY <1>13, <2>2, AnswersUntouched DEF AgentBusy, portal
        <3> QED
            BY <1>13, <2>2, <3>1, <3>2 DEF AgentBusy, TypeOK, portal, log
    <2>3. CASE tries # 0
        BY <1>12, <1>13, <2>1, <2>3, PersistsTyped DEF AgentBusy, TypeOK
    <2> QED
        BY <2>2, <2>3
<1>14. CASE AgentAnswers(c)
    BY <1>1, <1>12, <1>14, PersistsTyped DEF AgentAnswers, TypeOK, Running, MaybeCall
<1>15. CASE AgentFails(c)
    <2>1. /\ step[c] \in Running /\ Chatting(c) /\ agent' \in MaybeCall /\ loose' \in SUBSET Call
        BY <1>1, <1>15 DEF AgentFails, Running, TypeOK, MaybeCall
    <2>2. CASE tries' = 1 /\ Goes(c, "call") /\ UNCHANGED <<answer, log, artifact>>
        <3>1. Line' /\ Answered' /\ step' \in [Call -> Steps]
            BY <1>3, <1>15, <2>1, <2>2 DEF AgentFails, Running, portal
        <3> QED
            BY <1>15, <2>1, <2>2, <3>1 DEF AgentFails, TypeOK, portal, log
    <2>3. ASSUME NEW bind \in {TRUE, c \notin cancelled}, Persists(c, "failed", bind)
          PROVE  Typed'
        BY <1>15, <2>1, <2>3, PersistsTyped DEF AgentFails
    <2> QED
        BY <1>15, <2>2, <2>3 DEF AgentFails
<1>16. CASE Deadline(c)
    <2>1. /\ step[c] \in Running /\ Chatting(c) /\ agent' \in MaybeCall /\ loose' \in SUBSET Call
        BY <1>1, <1>16 DEF Deadline, Running, TypeOK
    <2> QED
        BY <1>16, <2>1, PersistsTyped DEF Deadline
<1>17. CASE Finish(c)
    <2>1. Chatting(c) /\ active' \in MaybeCall /\ answer[c] \in Status \ {"none"}
        BY <1>1, <1>17 DEF Finish, Running, Unmarked, TypeOK, MaybeCall, Answered
    <2>2. [turn |-> c, status |-> answer[c]] \in Reply /\ Backed([turn |-> c, status |-> answer[c]])
        BY <2>1 DEF Reply, Backed, MaybeCall
    <2> QED
        BY <1>17, <2>1, <2>2, EndsTyped DEF Finish
<1> QED
    BY <1>4, <1>5, <1>6, <1>7, <1>8, <1>9, <1>10, <1>11, <1>13, <1>14, <1>15, <1>16, <1>17 DEF Turn

\* Handlers of the Portal that come to an end.
LEMMA PortalTyped ==
    ASSUME Typed, NEW c \in Call, Accept(c) \/ TakesError(c) \/ TimesOut(c)
    PROVE  Typed'
<1> USE DEF Typed
<1>1. NoReply \in Reply /\ NoReply.turn = None
    BY DEF Reply, NoReply, MaybeCall, Status
<1>2. reply \in [Call -> Reply] /\ user \in [Call -> UserRow]
    BY DEF TypeOK, Reply, UserRow
<1>3. CASE Accept(c)
    <2> DEFINE t == reply[c].turn
               q == QuestionOf(t)
    <2>1. t \in Call /\ reply[c].status \in Status \ {"none"}
        BY <1>2, <1>3 DEF Accept, Reply, MaybeCall, Answered, Backed
    <2>2. answer' \in [Call -> Status] /\ \A e \in Call : answer[e] # "none" => answer'[e] # "none"
        BY <1>3, <2>1 DEF Accept, TypeOK
    <2>3. reply' \in [Call -> Reply] /\ \A e \in Call : reply'[e] = reply[e] \/ reply'[e].turn = None
        BY <1>1, <1>2, <1>3 DEF Accept
    <2>4. UNCHANGED runtime
        BY <1>3 DEF Accept
    <2>5. \A e \in Call : step'[e] = "tail" => step[e] = "tail"
        BY <2>4 DEF runtime
    <2>6. Answered'
        BY <2>2, <2>3, <2>5, AnswersStay
    <2>7. user' \in [Call -> UserRow]
        <3>1. NoMessage \in UserRow
            BY DEF NoMessage, UserRow, MaybeCall
        <3>2. ASSUME NEW d \in Call PROVE [user[d] EXCEPT !.status = "sent"] \in UserRow
            BY <1>2 DEF UserRow
        <3>3. \/ UNCHANGED user
              \/ user' = [d \in Call |-> IF d = q THEN [user[d] EXCEPT !.status = "sent"]
                                       ELSE IF d = c THEN NoMessage ELSE user[d]]
            BY <1>3 DEF Accept
        <3> QED
            BY <1>2, <3>1, <3>2, <3>3
    <2>8. Line'
        BY <1>3, <2>4 DEF Accept, Line, runtime
    <2>9. http' \in [Call -> {"none", "waiting", "done"}]
        BY <1>3 DEF Accept, TypeOK
    <2> QED
        BY <1>3, <2>2, <2>3, <2>4, <2>6, <2>7, <2>8, <2>9 DEF Accept, TypeOK, runtime, Reply, UserRow, log
<1>4. ASSUME GivesUp(c), faults' \in 0..MaxFaults
      PROVE  Typed'
    <2>1. UNCHANGED runtime
        BY <1>4 DEF GivesUp
    <2>2. reply' \in [Call -> Reply] /\ \A e \in Call : reply'[e] = reply[e] \/ reply'[e].turn = None
        BY <1>1, <1>2, <1>4 DEF GivesUp
    <2>3. Answered'
        BY <1>4, <2>1, <2>2, AnswersStay DEF GivesUp, runtime
    <2>4. user' \in [Call -> UserRow]
        <3>1. [user[c] EXCEPT !.status = "failed"] \in UserRow
            BY <1>2 DEF UserRow
        <3>2. user' = user \/ user' = [user EXCEPT ![c] = [user[c] EXCEPT !.status = "failed"]]
            BY <1>2, <1>4 DEF GivesUp, UserRow
        <3> QED
            BY <1>2, <3>1, <3>2
    <2>5. Line'
        BY <1>4, <2>1 DEF GivesUp, Line, runtime
    <2>6. http' \in [Call -> {"none", "waiting", "done"}]
        BY <1>4 DEF GivesUp, TypeOK
    <2> QED
        BY <1>4, <2>1, <2>2, <2>3, <2>4, <2>5, <2>6 DEF GivesUp, TypeOK, runtime, Reply, UserRow, log
<1>5. CASE TakesError(c)
    BY <1>4, <1>5 DEF TakesError, TypeOK
<1>6. CASE TimesOut(c)
    BY <1>4, <1>6, TurnsAssumption DEF TimesOut, Faulty, TypeOK, TurnsAssumption
<1> QED
    BY <1>3, <1>5, <1>6

\* The connection is gone, or the runtime.
LEMMA ClosedTyped ==
    ASSUME Typed, Closed
    PROVE  /\ relay' = <<>> /\ http' = http /\ reply' \in [Call -> Reply]
           /\ \A e \in Call : reply'[e] = reply[e] \/ reply'[e].turn = None
<1>1. Error \in Reply /\ Error.turn = None
    BY TurnsAssumption DEF Reply, Error, MaybeCall, Status
<1>2. reply \in [Call -> Reply]
    BY DEF Typed, TypeOK, Reply
<1>3. reply' = [e \in Call |-> IF e \in Waiting \cap Waiting THEN Error ELSE reply[e]]
    BY DEF Closed, Replies
<1> QED
    BY <1>1, <1>2, <1>3 DEF Closed

LEMMA FaultTyped ==
    ASSUME Typed, Disconnect \/ Crash \/ Restart
    PROVE  Typed'
<1> USE DEF Typed
<1>1. faults \in 0..MaxFaults /\ MaxFaults \in Nat
    BY TurnsAssumption DEF TypeOK, TurnsAssumption
<1>2. CASE Disconnect
    <2>1. /\ relay' = <<>> /\ http' = http /\ reply' \in [Call -> Reply]
          /\ \A e \in Call : reply'[e] = reply[e] \/ reply'[e].turn = None
        BY <1>2, ClosedTyped DEF Disconnect
    <2>2. step' \in [Call -> Steps] /\ \A e \in Call : step'[e] = step[e] \/ (step[e] = "sent" /\ step'[e] = "done")
        BY <1>2 DEF Disconnect, TypeOK, Steps
    <2>3. Answered'
        BY <1>2, <2>1, <2>2, AnswersStay DEF Disconnect, rows
    <2>4. Line'
        <3>1. \A i \in 1..Len(chats) : chats[i] \in Call
            BY DEF TypeOK
        <3>2. \A i \in 1..Len(chats) : step'[chats[i]] = step[chats[i]]
            BY <2>2, <3>1 DEF Line, Running
        <3>3. \A e \in Call : step'[e] \in Running \cup {"queued"} => step'[e] = step[e]
            BY <2>2 DEF Running
        <3>4. chats' = chats /\ up /\ up'
            BY <1>2 DEF Disconnect
        <3> QED
            BY <2>1, <3>2, <3>3, <3>4 DEF Line
    <2>5. faults' \in 0..MaxFaults
        BY <1>1, <1>2 DEF Disconnect, Faulty
    <2>6. relay' \in Seq(Call)
        BY <2>1
    <2> QED
        BY <1>2, <2>1, <2>2, <2>3, <2>4, <2>5, <2>6 DEF Disconnect, TypeOK, rows, log, Reply
<1>3. CASE Crash
    <2>1. /\ relay' = <<>> /\ http' = http /\ reply' \in [Call -> Reply]
          /\ \A e \in Call : reply'[e] = reply[e] \/ reply'[e].turn = None
        BY <1>3, ClosedTyped DEF Crash
    <2>2. step' \in [Call -> Steps] /\ \A e \in Call : step'[e] \in {"new", "done"}
        BY <1>3 DEF Crash, TypeOK, Steps, Present
    <2>3. Answered'
        BY <1>3, <2>1, <2>2, AnswersStay DEF Crash, rows
    <2>4. Line'
        BY <1>3, <2>1, <2>2 DEF Crash, Line, Running
    <2>5. faults' \in 0..MaxFaults
        BY <1>1, <1>3 DEF Crash, Faulty
    <2>6. relay' \in Seq(Call) /\ chats' \in Seq(Call) /\ agent' \in MaybeCall
        BY <1>3, <2>1 DEF Crash, MaybeCall
    <2> QED
        BY <1>3, <2>1, <2>2, <2>3, <2>4, <2>5, <2>6 DEF Crash, TypeOK, rows, log, Reply
<1>4. CASE Restart
    <2>1. /\ answer' \in [Call -> Status] /\ answeredAt' \in [Call -> Nat] /\ now' \in Nat
          /\ \A t \in Call : answer[t] # "none" => answer'[t] # "none"
        <3>1. UNCHANGED <<answer, log>> \/ (active \in Call /\ Finalized(active))
            BY <1>4 DEF Restart, TypeOK, MaybeCall
        <3>2. "failed" \in Status /\ now + 1 \in Nat
            BY DEF Status, TypeOK
        <3>3. CASE UNCHANGED <<answer, log>>
            BY <3>3 DEF log, TypeOK
        <3>4. CASE active \in Call /\ Finalized(active)
            BY <3>2, <3>4 DEF Finalized, log, TypeOK
        <3> QED
            BY <3>1, <3>3, <3>4
    <2>2. Answered'
        BY <1>4, <2>1, AnswersUntouched DEF Restart, portal
    <2>3. Line'
        BY <1>4 DEF Restart, Line, portal, Running
    <2> QED
        BY <1>4, <2>1, <2>2, <2>3 DEF Restart, TypeOK, portal, MaybeCall
<1> QED
    BY <1>2, <1>3, <1>4

LEMMA TypedNext == Typed /\ [Next]_vars => Typed'
<1> SUFFICES ASSUME Typed, [Next]_vars
             PROVE  Typed'
    OBVIOUS
<1>1. CASE UNCHANGED vars
    BY <1>1 DEF vars, rows, runtime, portal, log, Typed, TypeOK, Line, Answered, Backed
<1>2. ASSUME NEW c \in Call, Cancel(c) PROVE Typed'
    <2>1. UNCHANGED <<rows, req, step, tries, chats, agent, loose, up, portal>> /\ cancelled' \in SUBSET Call
        BY <1>2 DEF Cancel, Typed, TypeOK
    <2>2. UNCHANGED <<user, answer, answeredAt, now, active, artifact, req, step, tries, chats, agent, loose, up,
                      relay, http, reply, faults>>
        BY <2>1 DEF rows, portal, log
    <2>3. TypeOK'
        BY <2>1, <2>2 DEF Typed, TypeOK
    <2>4. Line' /\ Answered'
        BY <2>2 DEF Typed, Line, Answered, Backed
    <2> QED
        BY <2>3, <2>4 DEF Typed
<1>3. ASSUME NEW c \in Call, Publish(c) PROVE Typed'
    <2>1. /\ UNCHANGED <<user, answer, log, active, req, step, tries, chats, cancelled, agent, up, portal>>
          /\ loose' \in SUBSET Call
          /\ artifact' \in [Call -> [by : {"nobody", "agent", "loose"}, turn : MaybeCall, message : MaybeCall]]
        <3>1. active \in MaybeCall /\ None \in MaybeCall
            BY DEF Typed, TypeOK, MaybeCall
        <3>2. ASSUME NEW b \in {"agent", "loose"}
              PROVE  [by |-> b, turn |-> active, message |-> None]
                     \in [by : {"nobody", "agent", "loose"}, turn : MaybeCall, message : MaybeCall]
            BY <3>1
        <3>3. artifact \in [Call -> [by : {"nobody", "agent", "loose"}, turn : MaybeCall, message : MaybeCall]]
            BY DEF Typed, TypeOK
        <3>4. \E b \in {"agent", "loose"} :
                  artifact' = [artifact EXCEPT ![c] = [by |-> b, turn |-> active, message |-> None]]
            BY <1>3 DEF Publish
        <3>5. artifact' \in [Call -> [by : {"nobody", "agent", "loose"}, turn : MaybeCall, message : MaybeCall]]
            BY <3>2, <3>3, <3>4
        <3> QED
            BY <1>3, <3>5 DEF Publish, Typed, TypeOK
    <2> QED
        BY <2>1 DEF portal, log, Typed, TypeOK, Line, Answered, Backed
<1>4. CASE AgentComesBack
    <2>1. UNCHANGED <<rows, req, step, tries, chats, cancelled, loose, up, portal>> /\ agent' \in MaybeCall
        BY <1>4 DEF AgentComesBack, MaybeCall
    <2> QED
        BY <2>1 DEF rows, portal, log, Typed, TypeOK, Line, Answered, Backed
<1> QED
    BY <1>1, <1>2, <1>3, <1>4, RequestTyped, ReceiveTyped, TurnTyped, PortalTyped, FaultTyped DEF Next

\* The invariant that all that follows rests on: calls wait in one line and only its
\* first runs, and replies are backed by answers (conversation-log.ts).
THEOREM TypedHolds == Spec => []Typed
<1> QED
    BY TypedInit, TypedNext, PTL DEF Spec

\* Every state of Portal, runtime and rows has its type, whatever the calls, limits
\* and faults (conversation-log.ts).
THEOREM TypeCorrect == Spec => []TypeOK
<1>1. Typed => TypeOK
    BY DEF Typed
<1> QED
    BY <1>1, TypedHolds, PTL

-----------------------------------------------------------------------------
(* Stopping, the marker, stored keys *)

\* A stopped turn that has no answer yet gets a failed one or none, in every step of
\* whoever it is (cancelConversationChat, suppressCancelledAttempt).
THEOREM StopCorrect == Spec => CancelSuppresses
<1> DEFINE Stop == \A c \in Call : c \in cancelled /\ answer[c] = "none" => answer'[c] \in {"none", "failed"}
<1>1. Typed /\ [Next]_vars => [Stop]_vars
    <2> SUFFICES ASSUME Typed, [Next]_vars, NEW c \in Call, c \in cancelled, answer[c] = "none"
                 PROVE  answer'[c] \in {"none", "failed"}
        OBVIOUS
    <2>1. answer \in [Call -> Status]
        BY DEF Typed, TypeOK
    <2>2. CASE UNCHANGED answer
        BY <2>2
    <2>3. ASSUME NEW d \in Call, NEW s, NEW bind \in BOOLEAN, Persists(d, s, bind),
                 s = "failed" \/ (d \in cancelled => s = "failed")
          PROVE  answer'[c] \in {"none", "failed"}
        BY <2>1, <2>3 DEF Persists
    <2>4. ASSUME NEW d \in Call, Turn(d)
          PROVE  answer'[c] \in {"none", "failed"}
        <3>1. CASE AgentBusy(d) \/ AgentAnswers(d) \/ AgentFails(d) \/ Deadline(d)
            BY <2>2, <2>3, <3>1 DEF AgentBusy, AgentAnswers, AgentFails, Deadline, Outcome
        <3>2. CASE Supersede(d)
            <4>1. answer[req[d].target] = "sent"
                BY <3>2 DEF Supersede, Regenerable
            <4> QED
                BY <2>1, <3>2, <4>1 DEF Supersede
        <3>3. CASE StartCancelled(d)
            BY <2>1, <3>3 DEF StartCancelled
        <3>4. CASE Begin(d) \/ Replay(d) \/ SetupFails(d) \/ RefuseRegenerate(d)
            BY <2>2, <3>4 DEF Begin, Replay, SetupFails, RefuseRegenerate, rows
        <3>5. CASE Start(d) \/ AgentStarts(d) \/ Finish(d)
            BY <2>2, <3>5 DEF Start, AgentStarts, Finish, rows
        <3> QED
            BY <2>4, <3>1, <3>2, <3>3, <3>4, <3>5 DEF Turn
    <2>5. ASSUME NEW d \in Call, Accept(d)
          PROVE  answer'[c] \in {"none", "failed"}
        <3>1. answer[reply[d].turn] # "none"
            BY <2>5 DEF Accept, Typed, Answered, Backed
        <3> QED
            BY <2>1, <2>5, <3>1 DEF Accept
    <2>6. CASE Restart
        BY <2>1, <2>6 DEF Restart, Finalized
    <2>7. ASSUME NEW d \in Call, Request(d) \/ Receive(d) \/ Cancel(d) \/ Publish(d) \/ TakesError(d) \/ TimesOut(d)
          PROVE  UNCHANGED answer
        BY <2>7 DEF Request, Post, PostDirect, AskRegenerate, Receive, Cancel, Publish, TakesError, TimesOut,
           GivesUp, rows
    <2>8. CASE AgentComesBack \/ Disconnect \/ Crash \/ UNCHANGED vars
        BY <2>2, <2>8 DEF AgentComesBack, Disconnect, Crash, vars, rows
    <2> QED
        BY <2>2, <2>4, <2>5, <2>6, <2>7, <2>8 DEF Next
<1> QED
    BY <1>1, TypedHolds, PTL DEF Spec, CancelSuppresses

\* Steps of a call whose turn is marked.
Marked == {"call", "agent", "tail"}

\* The marker names whoever is in such a step, and nobody else.
Marker == up => \A c \in Call : active = c <=> step[c] \in Marked

\* Two calls that run are one.
LEMMA OneRuns ==
    ASSUME Typed, NEW c \in Call, NEW d \in Call, Chatting(c), step[d] \in Running
    PROVE  c = d
BY RunnerIsFirst DEF Chatting

\* Nobody runs while the runtime is down.
LEMMA RunnerIsUp ==
    ASSUME Typed, NEW c \in Call, step[c] \in Running \cup {"queued"}
    PROVE  up
BY DEF Typed, Line, Running

\* The marker of whoever runs, when another call has the lock but has not started.
LEMMA NotMarked ==
    ASSUME Typed, Marker, NEW c \in Call, Chatting(c), step[c] \in {"queued", "setup", "storage"}
    PROVE  active = None /\ \A d \in Call : step[d] \notin Marked
<1>1. \A d \in Call : step[d] \notin Marked
    BY OneRuns DEF Marked, Running
<1>2. up
    BY RunnerIsUp DEF Running
<1> QED
    BY <1>1, <1>2 DEF Marker, Typed, TypeOK, MaybeCall

\* Where a call has been, as far as the marker is concerned.
LEMMA MarkerStays ==
    ASSUME Marker, up' => up, UNCHANGED active,
           \A d \in Call : step'[d] \in Marked <=> step[d] \in Marked
    PROVE  Marker'
BY DEF Marker

LEMMA TurnMarker ==
    ASSUME Typed, Marker, NEW c \in Call, Turn(c)
    PROVE  Marker'
<1> USE DEF Marked
<1>1. step \in [Call -> Steps] /\ active \in MaybeCall /\ None \notin Call
    BY TurnsAssumption DEF Typed, TypeOK, TurnsAssumption
<1>2. ASSUME NEW r, Ends(c, r), UNCHANGED active, Chatting(c), step[c] \in {"queued", "setup", "storage"}
      PROVE  Marker'
    <2>1. \A d \in Call : step'[d] = step[d] \/ step'[d] = "done"
        BY <1>1, <1>2 DEF Ends
    <2>2. active = None /\ \A d \in Call : step[d] \notin Marked
        BY <1>2, NotMarked
    <2> QED
        BY <1>1, <1>2, <2>1, <2>2 DEF Marker
<1>3. ASSUME step[c] \in Running PROVE Chatting(c) /\ up
    BY <1>3, RunnerIsFirst, RunnerIsUp
<1>4. ASSUME NEW s, Goes(c, s), UNCHANGED <<active, up>>, step[c] \in Marked <=> s \in Marked
      PROVE  Marker'
    BY <1>1, <1>4, MarkerStays DEF Goes
<1>5. CASE Begin(c)
    BY <1>4, <1>5 DEF Begin, HasLock, rows
<1>6. CASE Replay(c)
    BY <1>2, <1>6 DEF Replay, HasLock, rows
<1>7. CASE SetupFails(c)
    BY <1>2, <1>3, <1>7 DEF SetupFails, Running, rows
<1>8. CASE RefuseRegenerate(c)
    BY <1>2, <1>3, <1>8 DEF RefuseRegenerate, InRegenerate, Running, rows
<1>9. CASE Supersede(c)
    BY <1>4, <1>9 DEF Supersede, InRegenerate
<1>10. CASE Start(c) \/ StartCancelled(c)
    <2>1. Marks(c) /\ up' = up /\ (Goes(c, "call") \/ Goes(c, "tail"))
        BY <1>10 DEF Start, StartCancelled
    <2>2. step[c] \in {"setup", "storage"} /\ active' = c
        BY <2>1 DEF Marks, Startable
    <2>3. \A d \in Call : step[d] \notin Marked
        BY <1>3, <2>2, NotMarked DEF Running
    <2>4. step'[c] \in Marked /\ \A d \in Call \ {c} : step'[d] = step[d]
        BY <1>1, <2>1 DEF Goes
    <2> QED
        BY <2>2, <2>3, <2>4 DEF Marker
<1>11. CASE AgentStarts(c)
    BY <1>4, <1>11 DEF AgentStarts, rows
<1>12. CASE AgentBusy(c) \/ AgentAnswers(c) \/ AgentFails(c) \/ Deadline(c)
    <2>1. step[c] \in Marked /\ UNCHANGED <<active, up>>
        BY <1>12 DEF AgentBusy, AgentAnswers, AgentFails, Deadline
    <2>2. UNCHANGED step \/ Goes(c, "call") \/ Goes(c, "tail")
        BY <1>12 DEF AgentBusy, AgentAnswers, AgentFails, Deadline, Persists
    <2> QED
        BY <1>4, <2>1, <2>2, MarkerStays
<1>13. CASE Finish(c)
    <2>1. step[c] = "tail" /\ Chatting(c) /\ up
        BY <1>3, <1>13 DEF Finish, Running
    <2>2. active = c /\ active' = None
        BY <1>13, <2>1 DEF Marker, Finish, Unmarked
    <2>3. \A d \in Call \ {c} : step[d] \notin Marked
        BY <2>1, OneRuns DEF Running
    <2>4. step'[c] = "done" /\ \A d \in Call : step'[d] = step[d] \/ step'[d] = "done"
        BY <1>1, <1>13 DEF Finish, Ends
    <2> QED
        BY <1>1, <2>2, <2>3, <2>4 DEF Marker
<1> QED
    BY <1>5, <1>6, <1>7, <1>8, <1>9, <1>10, <1>11, <1>12, <1>13 DEF Turn

LEMMA MarkerNext == Typed /\ Marker /\ [Next]_vars => Marker'
<1> SUFFICES ASSUME Typed, Marker, [Next]_vars
             PROVE  Marker'
    OBVIOUS
<1> USE DEF Marked
<1>1. step \in [Call -> Steps]
    BY DEF Typed, TypeOK
<1>2. ASSUME NEW c \in Call, Request(c) PROVE Marker'
    <2>1. /\ UNCHANGED <<active, up>> /\ step[c] = "new"
          /\ \E s \in {"sent", "done", "joined", "queued"} : Goes(c, s)
        BY <1>2 DEF Request, Post, PostDirect, AskRegenerate, Sends, Enters, rows
    <2> QED
        BY <1>1, <2>1, MarkerStays DEF Goes
<1>3. ASSUME NEW c \in Call, Receive(c) PROVE Marker'
    <2>1. /\ UNCHANGED <<active, up>> /\ Comes(c)
          /\ \E s \in {"done", "joined", "queued"} : Goes(c, s)
        BY <1>3 DEF Receive, Comes, Enters, rows
    <2>2. PICK s \in {"done", "joined", "queued"} : step' = [step EXCEPT ![c] = s]
        BY <2>1 DEF Goes
    <2>3. \A d \in Call \ {c} : step'[d] = step[d]
        BY <1>1, <2>2
    <2>4. step[c] \in {"new", "sent"}
        BY <2>1, <2>3, LeavesRelay
    <2> QED
        BY <1>1, <2>1, <2>2, <2>4, MarkerStays
<1>4. ASSUME NEW c \in Call, Cancel(c) \/ Publish(c) \/ Accept(c) \/ TakesError(c) \/ TimesOut(c)
      PROVE  Marker'
    BY <1>4, MarkerStays DEF Cancel, Publish, Accept, TakesError, TimesOut, GivesUp, rows, runtime
<1>5. CASE AgentComesBack \/ UNCHANGED vars
    BY <1>5, MarkerStays DEF AgentComesBack, vars, rows, runtime
<1>6. CASE Disconnect
    <2>1. \A d \in Call : step'[d] \in Marked <=> step[d] \in Marked
        BY <1>1, <1>6 DEF Disconnect
    <2> QED
        BY <1>6, <2>1, MarkerStays DEF Disconnect, rows
<1>7. CASE Crash
    BY <1>7 DEF Crash, Marker
<1>8. CASE Restart
    BY <1>8, TurnsAssumption DEF Restart, Marker, Typed, Line, TurnsAssumption
<1> QED
    BY <1>2, <1>3, <1>4, <1>5, <1>6, <1>7, <1>8, TurnMarker DEF Next

LEMMA MarkerHolds == Spec => [](Typed /\ Marker)
<1>1. Init => Typed /\ Marker
    BY TypedInit, TurnsAssumption DEF Init, Marker, Marked, TurnsAssumption
<1>2. Typed /\ Marker /\ [Next]_vars => Typed' /\ Marker'
    BY TypedNext, MarkerNext
<1> QED
    BY <1>1, <1>2, PTL DEF Spec

\* While the runtime is alive the marker of the conversation names the turn that is
\* running and no other (markTurnStart, markTurnEnd, withConversationChatLock).
THEOREM MarkerCorrect == Spec => []MarkerIsTheTurn
<1>1. Typed /\ Marker => MarkerIsTheTurn
    BY RunnerIsFirst DEF Marker, Marked, Running, MarkerIsTheTurn
<1> QED
    BY <1>1, MarkerHolds, PTL

\* A row that holds a key is the question of a turn that is marked or has an answer,
\* and no row holds the key of a call that has passed the look-up.
Keys ==
    /\ \A t \in Call : user[t].key # None => answer[t] # "none" \/ active = t
    /\ \A c \in Call : step[c] \in {"setup", "storage"} => Keyed(c) = {}

LEMMA KeysNext == Typed /\ Marker /\ Keys /\ [Next]_vars => Keys'
<1> SUFFICES ASSUME Typed, Marker, Keys, [Next]_vars
             PROVE  Keys'
    OBVIOUS
<1>1. /\ step \in [Call -> Steps] /\ answer \in [Call -> Status] /\ user \in [Call -> UserRow]
      /\ active \in MaybeCall /\ None \notin Call
    BY TurnsAssumption DEF Typed, TypeOK, TurnsAssumption, UserRow
\* Nothing is stored, nothing answered is taken back, nobody passes the look-up.
<1>2. ASSUME \A t \in Call : user'[t].key = user[t].key \/ user'[t].key = None,
             \A t \in Call : answer[t] # "none" => answer'[t] # "none",
             \A t \in Call : active = t => active' = t \/ answer'[t] # "none",
             \A c \in Call : step'[c] \in {"setup", "storage"}
                            => step[c] \in {"setup", "storage"} /\ req'[c].key = req[c].key
      PROVE  Keys'
    BY <1>2 DEF Keys, Keyed
<1>3. CASE UNCHANGED vars
    BY <1>2, <1>3 DEF vars, rows, runtime
<1>4. ASSUME NEW c \in Call, Request(c) PROVE Keys'
    <2>1. /\ UNCHANGED <<answer, active>> /\ step[c] = "new"
          /\ \E s \in {"sent", "done", "joined", "queued"} : Goes(c, s)
          /\ \A d \in Call \ {c} : req'[d] = req[d]
        BY <1>4 DEF Request, Post, PostDirect, AskRegenerate, Sends, Enters, rows, Typed, TypeOK
    <2>2. \A t \in Call : user'[t].key = user[t].key
        <3>1. user' = user \/ user' = [user EXCEPT ![c] = [user[c] EXCEPT !.status = "pending", !.at = now + 1]]
            BY <1>1, <1>4 DEF Request, Post, PostDirect, AskRegenerate, rows, UserRow
        <3>2. [user[c] EXCEPT !.status = "pending", !.at = now + 1].key = user[c].key
            BY <1>1 DEF UserRow
        <3>3. \A t \in Call \ {c} : user'[t] = user[t]
            BY <1>1, <3>1
        <3>4. user'[c] = user[c] \/ user'[c] = [user[c] EXCEPT !.status = "pending", !.at = now + 1]
            BY <1>1, <3>1
        <3> QED
            BY <3>2, <3>3, <3>4
    <2>3. \A d \in Call : step'[d] \in {"setup", "storage"} => d # c /\ step'[d] = step[d]
        BY <1>1, <2>1 DEF Goes
    <2> QED
        BY <1>2, <2>1, <2>2, <2>3
<1>5. ASSUME NEW c \in Call, Receive(c) PROVE Keys'
    <2>1. UNCHANGED <<rows, req>> /\ \E s \in {"done", "joined", "queued"} : Goes(c, s)
        BY <1>5 DEF Receive, Enters
    <2>2. \A d \in Call : step'[d] \in {"setup", "storage"} => step'[d] = step[d]
        BY <1>1, <2>1 DEF Goes
    <2> QED
        BY <1>2, <2>1, <2>2 DEF rows
<1>6. ASSUME NEW c \in Call, Cancel(c) \/ Publish(c) PROVE Keys'
    BY <1>2, <1>6 DEF Cancel, Publish, rows
<1>7. ASSUME NEW c \in Call, Accept(c) PROVE Keys'
    <2>1. UNCHANGED runtime /\ UNCHANGED active
        BY <1>7 DEF Accept
    <2>2. \A t \in Call : answer[t] # "none" => answer'[t] # "none"
        <3>1. reply[c].status # "none"
            BY <1>7 DEF Accept, Typed, Answered, Backed
        <3> QED
            BY <1>1, <1>7, <3>1 DEF Accept
    <2>3. \A t \in Call : user'[t].key = user[t].key \/ user'[t].key = None
        <3>1. NoMessage.key = None
            BY DEF NoMessage
        <3>2. ASSUME NEW d \in Call PROVE [user[d] EXCEPT !.status = "sent"].key = user[d].key
            BY <1>1 DEF UserRow
        <3>3. \A d \in Call : user'[d] \in {user[d], NoMessage, [user[d] EXCEPT !.status = "sent"]}
            BY <1>1, <1>7 DEF Accept
        <3> QED
            BY <3>1, <3>2, <3>3
    <2> QED
        BY <1>2, <2>1, <2>2, <2>3 DEF runtime
<1>8. ASSUME NEW c \in Call, TakesError(c) \/ TimesOut(c) PROVE Keys'
    <2>1. GivesUp(c)
        BY <1>8 DEF TakesError, TimesOut
    <2>2. \A t \in Call : user'[t].key = user[t].key
        <3>1. user' = user \/ user' = [user EXCEPT ![c] = [user[c] EXCEPT !.status = "failed"]]
            BY <1>1, <2>1 DEF GivesUp, UserRow
        <3> QED
            BY <1>1, <3>1 DEF UserRow
    <2> QED
        BY <1>2, <2>1, <2>2 DEF GivesUp, runtime
<1>9. CASE AgentComesBack \/ Disconnect \/ Crash
    <2>1. UNCHANGED <<rows, req>> /\ \A d \in Call : step'[d] = step[d] \/ step'[d] = "done"
        BY <1>1, <1>9 DEF AgentComesBack, Disconnect, Crash
    <2> QED
        BY <1>1, <1>2, <2>1 DEF rows
<1>10. CASE Restart
    <2>1. UNCHANGED <<user, req, step>> /\ \A t \in Call : answer[t] # "none" => answer'[t] # "none"
        BY <1>1, <1>10 DEF Restart, Finalized
    <2>2. \A t \in Call : active = t => answer'[t] # "none"
        BY <1>1, <1>10 DEF Restart, Finalized
    <2> QED
        BY <1>2, <2>1, <2>2
<1>11. ASSUME NEW c \in Call, Turn(c) PROVE Keys'
    <2>1. CASE Begin(c)
        <3>1. Chatting(c) /\ step[c] = "queued" /\ Replayable(c) = {} /\ UNCHANGED <<rows, req>>
            BY <2>1 DEF Begin, HasLock
        <3>2. active = None
            BY <3>1, NotMarked
        <3>3. Keyed(c) = {}
            BY <1>1, <3>1, <3>2 DEF Keys, Keyed, Replayable
        <3>4. \A d \in Call \ {c} : step'[d] = step[d]
            BY <1>1, <2>1 DEF Begin, Goes
        <3> QED
            BY <3>1, <3>3, <3>4 DEF Keys, Keyed, rows
    <2>2. CASE Replay(c) \/ SetupFails(c) \/ RefuseRegenerate(c)
        <3>1. UNCHANGED <<rows, req>> /\ \A d \in Call : step'[d] = step[d] \/ step'[d] = "done"
            BY <1>1, <2>2 DEF Replay, SetupFails, RefuseRegenerate, Ends
        <3> QED
            BY <1>1, <1>2, <3>1 DEF rows
    <2>3. CASE Supersede(c)
        <3>1. /\ UNCHANGED <<user, active>> /\ \A t \in Call : answer[t] # "none" => answer'[t] # "none"
              /\ step[c] = "setup" /\ \A d \in Call \ {c} : step'[d] = step[d] /\ req'[d] = req[d]
            BY <1>1, <2>3 DEF Supersede, Goes, InRegenerate, Typed, TypeOK
        <3>2. req'[c].key = req[c].key
            BY <2>3 DEF Supersede, Typed, TypeOK
        <3> QED
            BY <1>2, <3>1, <3>2
    <2>4. CASE Start(c) \/ StartCancelled(c)
        <3>1. /\ Marks(c) /\ UNCHANGED req /\ (Goes(c, "call") \/ Goes(c, "tail"))
              /\ \A t \in Call : answer[t] # "none" => answer'[t] # "none"
            BY <1>1, <2>4 DEF Start, StartCancelled
        <3>2. active' = c /\ step[c] \in {"setup", "storage"} /\ Chatting(c)
            BY <3>1, RunnerIsFirst DEF Marks, Startable, Running
        <3>3. active = None
            BY <3>2, NotMarked
        <3>4. \A t \in Call \ {c} : user'[t] = user[t]
            BY <1>1, <3>1 DEF Marks, Stored
        <3>5. \A d \in Call : step'[d] \notin {"setup", "storage"}
            BY <1>1, <3>1, <3>2, OneRuns DEF Goes, Running
        <3> QED
            BY <1>1, <3>1, <3>2, <3>3, <3>4, <3>5 DEF Keys
    <2>5. CASE AgentStarts(c) \/ AgentBusy(c) \/ AgentAnswers(c) \/ AgentFails(c) \/ Deadline(c)
        <3>1. /\ UNCHANGED <<user, active, req>>
              /\ \A d \in Call : step'[d] = step[d] \/ step'[d] \in {"call", "agent", "tail"}
              /\ \A t \in Call : answer[t] # "none" => answer'[t] # "none"
            BY <1>1, <2>5 DEF AgentStarts, AgentBusy, AgentAnswers, AgentFails, Deadline, Persists, Goes, Outcome, rows
        <3> QED
            BY <1>1, <1>2, <3>1
    <2>6. CASE Finish(c)
        <3>1. /\ UNCHANGED <<user, answer, req>> /\ active' = Unmarked(c) /\ answer[c] # "none"
              /\ \A d \in Call : step'[d] = step[d] \/ step'[d] = "done"
            BY <1>1, <2>6 DEF Finish, Ends, Typed, Answered
        <3> QED
            BY <1>1, <1>2, <3>1 DEF Unmarked
    <2> QED
        BY <1>11, <2>1, <2>2, <2>3, <2>4, <2>5, <2>6 DEF Turn
<1> QED
    BY <1>3, <1>4, <1>5, <1>6, <1>7, <1>8, <1>9, <1>10, <1>11 DEF Next

\* No turn starts for a key that the row of a started turn holds, whatever dies, is
\* cancelled or given up in between (chatViaConversationLogOnce).
THEOREM KeysCorrect == Spec => StoredKeysRunOnce
<1> DEFINE Once == \A c \in Call : active' = c /\ active # c
                                 => \A t \in Call : user[t].key = None \/ user[t].key # req[c].key
<1>1. Init => Keys
    BY DEF Init, Keys, NoMessage
<1>2. Keys /\ Typed /\ [Next]_vars => [Once]_vars
    <2> SUFFICES ASSUME Keys, Typed, [Next]_vars, NEW c \in Call, active' = c, active # c, NEW t \in Call,
                        user[t].key # None
                 PROVE  user[t].key # req[c].key
        OBVIOUS
    <2>1. \E d \in Call : Marks(d)
        <3>1. ~UNCHANGED active /\ active' # None
            BY TurnsAssumption DEF TurnsAssumption
        <3>2. ASSUME NEW d \in Call, Turn(d) PROVE Marks(d)
            BY <3>1, <3>2 DEF Turn, Begin, Replay, SetupFails, Supersede, RefuseRegenerate, Start, StartCancelled,
               AgentStarts, AgentBusy, AgentAnswers, AgentFails, Deadline, Finish, Unmarked, rows
        <3>3. ASSUME NEW d \in Call, \/ Request(d) \/ Receive(d) \/ Cancel(d) \/ Publish(d)
                                    \/ Accept(d) \/ TakesError(d) \/ TimesOut(d)
              PROVE  FALSE
            BY <3>1, <3>3 DEF Request, Post, PostDirect, AskRegenerate, Receive, Cancel, Publish, Accept, TakesError,
               TimesOut, GivesUp, rows
        <3>4. CASE AgentComesBack \/ Disconnect \/ Crash \/ Restart \/ UNCHANGED vars
            BY <3>1, <3>4 DEF AgentComesBack, Disconnect, Crash, Restart, vars, rows
        <3> QED
            BY <3>2, <3>3, <3>4 DEF Next
    <2>2. Marks(c)
        BY <2>1 DEF Marks
    <2>3. Keyed(c) = {}
        BY <2>2 DEF Keys, Marks, Startable
    <2> QED
        BY <2>3 DEF Keyed
<1>3. Keys /\ Typed /\ Marker /\ [Next]_vars => Keys'
    BY KeysNext
<1> QED
    BY <1>1, <1>2, <1>3, MarkerHolds, PTL DEF Spec, StoredKeysRunOnce
-----------------------------------------------------------------------------
(* The artifacts of a turn *)

\* The steps of a call whose answer is still to come.
Early == {"new", "sent", "queued", "joined", "setup", "storage", "call", "agent"}

\* A call has no answer before its tail, and a call nobody asked for no mark.
Awaited ==
    \A c \in Call : /\ step[c] \in Early => answer[c] = "none"
                    /\ step[c] = "new" => active # c

LEMMA AwaitedNext == Typed /\ Marker /\ Awaited /\ [Next]_vars => Awaited'
<1> SUFFICES ASSUME Typed, Marker, Awaited, [Next]_vars
             PROVE  Awaited'
    OBVIOUS
<1>1. /\ step \in [Call -> Steps] /\ answer \in [Call -> Status] /\ active \in MaybeCall
      /\ None \notin Call
    BY TurnsAssumption DEF Typed, TypeOK, TurnsAssumption
\* Nobody is answered early, nobody goes back.
<1>2. ASSUME \A d \in Call : answer'[d] = answer[d] \/ answer[d] # "none" \/ step'[d] \notin Early,
             \A d \in Call : step'[d] \in Early => step[d] \in Early,
             \A d \in Call : step'[d] = "new" => step[d] = "new" /\ (active' = active \/ active' # d)
      PROVE  Awaited'
    BY <1>2 DEF Awaited
<1>3. ASSUME NEW c \in Call, NEW s \in Early \ {"new"}, Goes(c, s), step[c] \in Early,
             UNCHANGED <<answer, active>>
      PROVE  Awaited'
    BY <1>1, <1>2, <1>3 DEF Goes
<1>4. ASSUME NEW c \in Call, Request(c) \/ Receive(c) PROVE Awaited'
    <2>1. UNCHANGED <<answer, active>> /\ \E s \in {"sent", "done", "joined", "queued"} : Goes(c, s)
        BY <1>4 DEF Request, Post, PostDirect, AskRegenerate, Sends, Receive, Enters, rows
    <2>2. step[c] \in {"new", "sent"}
        <3>1. CASE Request(c)
            BY <3>1 DEF Request, Post, PostDirect, AskRegenerate
        <3>2. CASE Receive(c)
            BY <3>2, First DEF Receive, Typed, TypeOK, Line
        <3> QED
            BY <1>4, <3>1, <3>2
    <2> QED
        BY <1>1, <1>2, <2>1, <2>2 DEF Goes, Early
<1>5. ASSUME NEW c \in Call, Cancel(c) \/ Publish(c) \/ TakesError(c) \/ TimesOut(c) PROVE Awaited'
    BY <1>2, <1>5 DEF Cancel, Publish, TakesError, TimesOut, GivesUp, rows, runtime
<1>6. ASSUME NEW c \in Call, Accept(c) PROVE Awaited'
    BY <1>1, <1>2, <1>6 DEF Accept, runtime, Typed, Answered, Backed
<1>7. CASE AgentComesBack \/ UNCHANGED vars
    BY <1>2, <1>7 DEF AgentComesBack, vars, rows, runtime
<1>8. CASE Disconnect \/ Crash
    BY <1>1, <1>2, <1>8 DEF Disconnect, Crash, rows, Early
<1>9. CASE Restart
    <2>1. \A d \in Call : step[d] \in {"new", "done"} /\ (active = d => step[d] = "done")
        BY <1>9 DEF Restart, Typed, Line, Awaited
    <2> QED
        BY <1>1, <1>2, <1>9, <2>1 DEF Restart, Finalized, Early
<1>10. ASSUME NEW c \in Call, Turn(c) PROVE Awaited'
    <2>1. CASE Begin(c)
        BY <1>3, <2>1 DEF Begin, HasLock, rows, Early
    <2>2. CASE Replay(c) \/ SetupFails(c) \/ RefuseRegenerate(c) \/ Finish(c)
        <3>1. /\ UNCHANGED answer /\ \A d \in Call : step'[d] = step[d] \/ step'[d] = "done"
              /\ active' \in {active, None}
            BY <1>1, <2>2 DEF Replay, SetupFails, RefuseRegenerate, Finish, Unmarked, Ends, rows
        <3> QED
            BY <1>1, <1>2, <3>1 DEF Early
    <2>3. CASE Supersede(c)
        <3>1. answer[req[c].target] = "sent"
            BY <2>3 DEF Supersede, Regenerable
        <3>2. /\ \A d \in Call : answer'[d] = answer[d] \/ answer[d] = "sent"
              /\ UNCHANGED active
            BY <1>1, <2>3, <3>1 DEF Supersede
        <3> QED
            BY <1>1, <1>2, <2>3, <3>2 DEF Supersede, InRegenerate, Goes, Early
    <2>4. CASE Start(c)
        BY <1>1, <1>2, <2>4 DEF Start, Marks, Startable, Goes, Early
    <2>5. CASE StartCancelled(c)
        BY <1>1, <1>2, <2>5 DEF StartCancelled, Marks, Startable, Goes, Early
    <2>6. CASE AgentStarts(c)
        BY <1>3, <2>6 DEF AgentStarts, rows, Early
    <2>7. ASSUME NEW s, NEW bind, Persists(c, s, bind), UNCHANGED active PROVE Awaited'
        BY <1>1, <1>2, <2>7 DEF Persists, Goes, Early
    <2>8. CASE AgentBusy(c)
        BY <1>2, <2>7, <2>8 DEF AgentBusy
    <2>9. CASE AgentAnswers(c) \/ Deadline(c)
        BY <2>7, <2>9 DEF AgentAnswers, Deadline
    <2>10. CASE AgentFails(c)
        BY <1>3, <2>7, <2>10 DEF AgentFails, Early
    <2> QED
        BY <1>10, <2>1, <2>2, <2>3, <2>4, <2>5, <2>6, <2>8, <2>9, <2>10 DEF Turn
<1> QED
    BY <1>4, <1>5, <1>6, <1>7, <1>8, <1>9, <1>10 DEF Next

\* What the agent of a call has published is under its answer.
Settled(a) == artifact[a].by = "agent" => artifact[a].message = a

\* An agent that is waited for publishes under the mark of its own turn.  An answer of
\* success, stored or on its way to the Portal, has taken the artifact with it.
OwnArtifact(a) ==
    /\ artifact[a].by = "nobody" => artifact[a] = NoArtifact
    /\ artifact[a].by = "agent" => artifact[a].turn = a /\ artifact[a].message \in {None, a}
Artifacts ==
    /\ \A a \in Call : OwnArtifact(a) /\ (answer[a] = "sent" => Settled(a))
    /\ \A c \in Call : reply[c].turn # None /\ reply[c].status = "sent" => Settled(reply[c].turn)
    /\ agent # None => step[agent] = "agent" \/ agent \in loose \/ artifact[agent] # NoArtifact

\* Each answer of success, stored or sent, was one before or is settled now.
LEMMA ArtifactsKept ==
    ASSUME Typed, Artifacts, reply' \in [Call -> Reply],
           \A a \in Call : OwnArtifact(a)' /\ (Settled(a) => Settled(a)'),
           \A a \in Call : answer'[a] = "sent" => answer[a] = "sent" \/ Settled(a)',
           \A c \in Call : \/ reply'[c] = reply[c]
                           \/ reply'[c].turn = None
                           \/ /\ reply'[c].turn \in Call
                              /\ reply'[c].status = "sent" => answer[reply'[c].turn] = "sent",
           agent' # None => \/ step'[agent'] = "agent" \/ agent' \in loose'
                            \/ artifact'[agent'] # NoArtifact
    PROVE  Artifacts'
<1>1. reply \in [Call -> Reply]
    BY DEF Typed, TypeOK, Reply
<1>2. \A c \in Call : reply[c].turn \in Call \cup {None}
    BY <1>1 DEF Reply, MaybeCall
<1>3. ASSUME NEW c \in Call, reply'[c].turn # None, reply'[c].status = "sent"
      PROVE  artifact'[reply'[c].turn].by = "agent" => artifact'[reply'[c].turn].message = reply'[c].turn
    <2>1. CASE reply'[c] = reply[c]
        BY <1>2, <1>3, <2>1 DEF Artifacts, Settled
    <2>2. CASE reply'[c].turn \in Call /\ answer[reply'[c].turn] = "sent"
        BY <2>2 DEF Artifacts, Settled
    <2> QED
        BY <1>3, <2>1, <2>2
<1>4. \A a \in Call : answer'[a] = "sent" => Settled(a)'
    BY DEF Artifacts
<1>5. (\A c \in Call : reply[c].turn # None /\ reply[c].status = "sent" => Settled(reply[c].turn))'
    BY <1>3 DEF Settled
<1> QED
    BY <1>4, <1>5 DEF Artifacts

\* The answer of the call that has the lock takes the artifacts of its turn.
LEMMA PersistsArtifacts ==
    ASSUME Typed, Marker, Awaited, Artifacts, NEW c \in Call, NEW s \in {"sent", "failed"},
           NEW bind \in BOOLEAN, s = "sent" => bind, Persists(c, s, bind),
           UNCHANGED reply, agent' \in MaybeCall,
           agent' # None => \/ step'[agent'] = "agent" \/ agent' \in loose'
                            \/ artifact[agent'] # NoArtifact
    PROVE  Artifacts'
<1>1. /\ None \notin Call /\ answer \in [Call -> Status] /\ reply \in [Call -> Reply]
      /\ artifact \in [Call -> [by : {"nobody", "agent", "loose"}, turn : MaybeCall, message : MaybeCall]]
    BY TurnsAssumption DEF Typed, TypeOK, TurnsAssumption, Reply
<1>2. ASSUME NEW a \in Call
      PROVE  /\ artifact'[a].by = artifact[a].by /\ artifact'[a].turn = artifact[a].turn
             /\ \/ artifact'[a] = artifact[a]
                \/ artifact[a].turn = c /\ artifact'[a].message = c
             /\ bind /\ artifact[a].turn = c => artifact'[a].message = c
    BY <1>1 DEF Persists, Bound
<1>3. ASSUME NEW a \in Call PROVE OwnArtifact(a)' /\ (Settled(a) => Settled(a)')
    BY <1>1, <1>2 DEF OwnArtifact, Settled, Artifacts, NoArtifact
<1>4. ASSUME NEW a \in Call, answer'[a] = "sent" PROVE answer[a] = "sent" \/ Settled(a)'
    <2>1. CASE a = c
        BY <1>1, <1>2, <1>4, <2>1 DEF Persists, Artifacts, OwnArtifact, Settled
    <2>2. CASE a # c
        BY <1>1, <1>4, <2>2 DEF Persists
    <2> QED
        BY <2>1, <2>2
<1>5. agent' # None => \/ step'[agent'] = "agent" \/ agent' \in loose'
                       \/ artifact'[agent'] # NoArtifact
    BY <1>1, <1>2 DEF NoArtifact, Artifacts, OwnArtifact, MaybeCall
<1> QED
    BY <1>1, <1>3, <1>4, <1>5, ArtifactsKept

LEMMA ArtifactsNext == Typed /\ Marker /\ Awaited /\ Artifacts /\ [Next]_vars => Artifacts'
<1> SUFFICES ASSUME Typed, Marker, Awaited, Artifacts, [Next]_vars
             PROVE  Artifacts'
    OBVIOUS
<1>1. /\ step \in [Call -> Steps] /\ answer \in [Call -> Status] /\ active \in MaybeCall
      /\ None \notin Call /\ reply \in [Call -> Reply] /\ loose \in SUBSET Call
      /\ artifact \in [Call -> [by : {"nobody", "agent", "loose"}, turn : MaybeCall, message : MaybeCall]]
    BY TurnsAssumption DEF Typed, TypeOK, TurnsAssumption, Reply
<1>0. reply' \in [Call -> Reply]
    BY TypedNext DEF Typed, TypeOK, Reply
\* Nothing is published or answered, and an agent goes on or is given up.
<1>2. ASSUME UNCHANGED artifact,
             \A a \in Call : answer'[a] = "sent" => answer[a] = "sent" \/ Settled(a),
             \A c \in Call : \/ reply'[c] = reply[c]
                             \/ reply'[c].turn = None
                             \/ /\ reply'[c].turn \in Call
                                /\ reply'[c].status = "sent" => answer[reply'[c].turn] = "sent",
             agent' # None => \/ agent' = agent /\ loose' = loose
                                 /\ (step[agent] = "agent" => step'[agent] = "agent")
                              \/ step'[agent'] = "agent"
      PROVE  Artifacts'
    <2>1. \A a \in Call : OwnArtifact(a)' /\ (Settled(a) => Settled(a)')
        BY <1>2 DEF Artifacts, OwnArtifact, Settled
    <2>2. agent' # None => \/ step'[agent'] = "agent" \/ agent' \in loose'
                           \/ artifact'[agent'] # NoArtifact
        BY <1>2 DEF Artifacts
    <2>3. \A a \in Call : answer'[a] = "sent" => answer[a] = "sent" \/ Settled(a)'
        BY <1>2, <2>1
    <2> QED
        BY <1>0, <1>2, <2>1, <2>2, <2>3, ArtifactsKept
<1>3. Error.turn = None /\ NoReply.turn = None
    BY DEF Error, NoReply
<1>4. ASSUME NEW c \in Call, Request(c) \/ Receive(c) PROVE Artifacts'
    <2>1. /\ UNCHANGED <<answer, artifact, agent, loose>>
          /\ \E s \in {"sent", "done", "joined", "queued"} : Goes(c, s)
        BY <1>4 DEF Request, Post, PostDirect, AskRegenerate, Sends, Receive, Enters, rows
    <2>2. step[c] \in {"new", "sent"}
        <3>1. CASE Request(c)
            BY <3>1 DEF Request, Post, PostDirect, AskRegenerate
        <3>2. CASE Receive(c)
            BY <3>2, First DEF Receive, Typed, TypeOK, Line
        <3> QED
            BY <1>4, <3>1, <3>2
    <2>3. \A d \in Call : reply'[d] = reply[d] \/ reply'[d] = Error
        BY <1>1, <1>4 DEF Request, Post, PostDirect, AskRegenerate, Sends, Receive, Replies, portal
    <2>4. \A d \in Call : step[d] = "agent" => step'[d] = "agent"
        BY <1>1, <2>1, <2>2 DEF Goes
    <2>5. agent \in MaybeCall
        BY DEF Typed, TypeOK
    <2> QED
        BY <1>2, <1>3, <2>1, <2>3, <2>4, <2>5 DEF MaybeCall
<1>5. ASSUME NEW c \in Call, Cancel(c) \/ TakesError(c) \/ TimesOut(c) PROVE Artifacts'
    <2>1. UNCHANGED <<answer, artifact, agent, loose, step>>
        BY <1>5 DEF Cancel, TakesError, TimesOut, GivesUp, rows, runtime
    <2>2. \A d \in Call : reply'[d] = reply[d] \/ reply'[d] = NoReply
        <3>1. reply' = reply \/ reply' = [reply EXCEPT ![c] = NoReply]
            BY <1>5 DEF Cancel, TakesError, TimesOut, GivesUp, portal
        <3> QED
            BY <1>1, <3>1
    <2> QED
        BY <1>2, <1>3, <2>1, <2>2
<1>6. ASSUME NEW c \in Call, Accept(c) PROVE Artifacts'
    <2>1. UNCHANGED <<artifact, agent, loose, step>> /\ reply' = [reply EXCEPT ![c] = NoReply]
        BY <1>6 DEF Accept, runtime
    <2>2. \A a \in Call : answer'[a] = "sent" => answer[a] = "sent" \/ Settled(a)
        BY <1>1, <1>6 DEF Accept, Artifacts
    <2>3. \A d \in Call : reply'[d] = reply[d] \/ reply'[d] = NoReply
        BY <1>1, <2>1
    <2> QED
        BY <1>2, <1>3, <2>1, <2>2, <2>3
<1>7. CASE AgentComesBack \/ UNCHANGED vars
    BY <1>2, <1>7 DEF AgentComesBack, vars, rows, runtime, portal
<1>8. CASE Disconnect \/ Crash
    <2>1. UNCHANGED <<answer, artifact>> /\ \A d \in Call : reply'[d] = reply[d] \/ reply'[d] = Error
        BY <1>1, <1>8 DEF Disconnect, Crash, rows, Closed, Replies
    <2>2. CASE Disconnect
        <3>1. \A d \in Call : step[d] = "agent" => step'[d] = "agent"
            BY <1>1, <2>2 DEF Disconnect
        <3>2. UNCHANGED <<agent, loose>> /\ agent \in MaybeCall
            BY <2>2 DEF Disconnect, Typed, TypeOK
        <3> QED
            BY <1>2, <1>3, <2>1, <3>1, <3>2 DEF MaybeCall
    <2>3. CASE Crash
        <3>1. agent' = None
            BY <2>3 DEF Crash
        <3> QED
            BY <1>2, <1>3, <2>1, <3>1
    <2> QED
        BY <1>8, <2>2, <2>3
<1>9. CASE Restart
    <2>1. UNCHANGED <<artifact, agent, loose, step, reply>>
        BY <1>9 DEF Restart, portal
    <2>2. \A a \in Call : answer'[a] = "sent" => answer[a] = "sent"
        BY <1>1, <1>9 DEF Restart, Finalized
    <2> QED
        BY <1>2, <2>1, <2>2
<1>10. ASSUME NEW c \in Call, Publish(c) PROVE Artifacts'
    <2>1. /\ artifact[c] = NoArtifact /\ (agent = c \/ c \in loose) /\ UNCHANGED <<agent, step, answer, reply>>
          /\ artifact' = [artifact EXCEPT ![c] = [by |-> IF c \in loose THEN "loose" ELSE "agent",
                                                  turn |-> active, message |-> None]]
          /\ loose' = loose \ {c}
        BY <1>10 DEF Publish, portal
    <2>2. c \notin loose => step[c] = "agent" /\ active = c /\ answer[c] = "none"
        <3> SUFFICES ASSUME c \notin loose PROVE step[c] = "agent" /\ active = c /\ answer[c] = "none"
            OBVIOUS
        <3>1. step[c] = "agent"
            BY <1>1, <2>1 DEF Artifacts
        <3>2. up
            BY <3>1, RunnerIsUp DEF Running
        <3> QED
            BY <3>1, <3>2 DEF Marker, Marked, Awaited, Early
    <2>3. \A a \in Call \ {c} : artifact'[a] = artifact[a]
        BY <1>1, <2>1
    <2>4. artifact'[c] = [by |-> IF c \in loose THEN "loose" ELSE "agent", turn |-> active, message |-> None]
        BY <1>1, <2>1
    <2>5. ASSUME NEW a \in Call PROVE OwnArtifact(a)'
        BY <2>2, <2>3, <2>4 DEF OwnArtifact, Artifacts, NoArtifact
    <2>6. ASSUME NEW a \in Call, answer[a] = "sent" \/ \E d \in Call : reply[d].turn = a /\ reply[d].status = "sent",
                 Settled(a)
          PROVE  Settled(a)'
        <3>1. answer[a] # "none"
            BY <1>1, <2>6 DEF Typed, Answered, Backed
        <3> QED
            BY <2>2, <2>3, <2>4, <2>6, <3>1 DEF Settled
    <2>7. \A a \in Call : OwnArtifact(a)' /\ (answer'[a] = "sent" => Settled(a)')
        BY <2>1, <2>5, <2>6 DEF Artifacts
    <2>8. (\A d \in Call : reply[d].turn # None /\ reply[d].status = "sent" => Settled(reply[d].turn))'
        <3> SUFFICES ASSUME NEW d \in Call, reply[d].turn # None, reply[d].status = "sent"
                     PROVE  artifact'[reply[d].turn].by = "agent" => artifact'[reply[d].turn].message = reply[d].turn
            BY <2>1 DEF Settled
        <3>1. reply[d].turn \in Call /\ Settled(reply[d].turn)
            BY <1>1 DEF Reply, MaybeCall, Artifacts
        <3> QED
            BY <2>6, <3>1 DEF Settled
    <2>9. agent' # None => step'[agent'] = "agent" \/ agent' \in loose' \/ artifact'[agent'] # NoArtifact
        <3>1. agent \in MaybeCall
            BY DEF Typed, TypeOK
        <3> QED
            BY <1>1, <2>1, <2>3, <2>4, <3>1 DEF Artifacts, NoArtifact, MaybeCall
    <2> QED
        BY <2>7, <2>8, <2>9 DEF Artifacts
<1>11. ASSUME NEW c \in Call, Turn(c) PROVE Artifacts'
    <2>1. agent \in MaybeCall
        BY DEF Typed, TypeOK
    <2>2. CASE Replay(c) \/ SetupFails(c) \/ RefuseRegenerate(c) \/ Finish(c)
        <3>1. PICK r : /\ Ends(c, r) /\ step[c] # "agent" /\ UNCHANGED <<answer, artifact>>
                       /\ \/ r = Error
                          \/ r.turn \in Call /\ r.status = answer[r.turn]
            <4>1. CASE Replay(c)
                <5>1. PICK t \in Replayable(c) : Ends(c, [turn |-> t, status |-> answer[t]])
                    BY <4>1 DEF Replay
                <5>2. t \in Call
                    BY DEF Replayable, Keyed
                <5> QED
                    BY <4>1, <5>1, <5>2 DEF Replay, HasLock, rows
            <4>2. CASE SetupFails(c) \/ RefuseRegenerate(c)
                BY <4>2 DEF SetupFails, RefuseRegenerate, InRegenerate, rows
            <4>3. CASE Finish(c)
                <5>1. Ends(c, [turn |-> c, status |-> answer[c]]) /\ step[c] = "tail" /\ UNCHANGED <<answer, artifact>>
                    BY <4>3 DEF Finish
                <5> QED
                    BY <5>1
            <4> QED
                BY <2>2, <4>1, <4>2, <4>3
        <3>2. \A d \in Call : reply'[d] = reply[d] \/ reply'[d] = r
            BY <1>1, <3>1 DEF Ends, Replies
        <3>3. UNCHANGED <<agent, loose>> /\ \A d \in Call : step[d] = "agent" => step'[d] = "agent"
            BY <1>1, <3>1 DEF Ends, Joined
        <3> QED
            BY <1>2, <1>3, <2>1, <3>1, <3>2, <3>3 DEF MaybeCall
    <2>3. CASE Begin(c) \/ Supersede(c) \/ Start(c) \/ StartCancelled(c)
        <3>1. /\ UNCHANGED <<artifact, agent, loose, reply>> /\ step[c] # "agent"
              /\ \E s \in {"setup", "storage", "call", "tail"} : Goes(c, s)
            BY <2>3 DEF Begin, HasLock, Supersede, InRegenerate, Start, StartCancelled, Marks, Startable, rows, portal
        <3>2. \A d \in Call : answer'[d] = "sent" => answer[d] = "sent"
            BY <1>1, <2>3 DEF Begin, Supersede, Start, StartCancelled, rows
        <3>3. \A d \in Call : step[d] = "agent" => step'[d] = "agent"
            BY <1>1, <3>1 DEF Goes
        <3> QED
            BY <1>2, <2>1, <3>1, <3>2, <3>3 DEF MaybeCall
    <2>4. CASE AgentStarts(c)
        BY <1>1, <1>2, <2>4 DEF AgentStarts, Goes, rows, portal
    <2>5. CASE AgentBusy(c)
        <3>1. UNCHANGED <<agent, loose, reply>> /\ step[c] = "call"
            BY <2>5 DEF AgentBusy, portal
        <3>2. CASE UNCHANGED <<answer, artifact, step>>
            BY <1>2, <3>1, <3>2
        <3>3. CASE Persists(c, Outcome(c, "sent"), c \notin cancelled)
            <4>1. step' = [step EXCEPT ![c] = "tail"]
                BY <3>3 DEF Persists, Goes
            <4>2. agent # None => step'[agent] = "agent" \/ agent \in loose \/ artifact[agent] # NoArtifact
                BY <1>1, <2>1, <3>1, <4>1 DEF Artifacts, MaybeCall
            <4> QED
                BY <2>1, <3>1, <3>3, <4>2, PersistsArtifacts DEF Outcome
        <3> QED
            BY <2>5, <3>2, <3>3 DEF AgentBusy
    <2>6. CASE AgentAnswers(c)
        <3>1. agent' = None /\ UNCHANGED reply /\ Persists(c, Outcome(c, "sent"), c \notin cancelled)
            BY <2>6 DEF AgentAnswers, portal
        <3> QED
            BY <3>1, PersistsArtifacts DEF Outcome, MaybeCall
    <2>7. CASE AgentFails(c)
        <3>1. agent' = None /\ UNCHANGED reply
            BY <2>7 DEF AgentFails, portal
        <3>2. ASSUME NEW bind \in {TRUE, c \notin cancelled}, Persists(c, "failed", bind)
              PROVE  Artifacts'
            BY <3>1, <3>2, PersistsArtifacts DEF MaybeCall
        <3>3. CASE UNCHANGED <<answer, log, artifact>>
            BY <1>2, <3>1, <3>3
        <3> QED
            BY <2>7, <3>2, <3>3 DEF AgentFails
    <2>8. CASE Deadline(c)
        <3>1. /\ UNCHANGED <<agent, reply>> /\ Persists(c, "failed", TRUE)
              /\ loose' = IF agent = c THEN loose \cup {c} ELSE loose
            BY <2>8 DEF Deadline, portal
        <3>2. agent # None => step'[agent] = "agent" \/ agent \in loose' \/ artifact[agent] # NoArtifact
            BY <1>1, <2>1, <3>1 DEF Artifacts, MaybeCall, Persists, Goes
        <3> QED
            BY <2>1, <3>1, <3>2, PersistsArtifacts
    <2> QED
        BY <1>11, <2>2, <2>3, <2>4, <2>5, <2>6, <2>7, <2>8 DEF Turn
<1> QED
    BY <1>4, <1>5, <1>6, <1>7, <1>8, <1>9, <1>10, <1>11 DEF Next

LEMMA ArtifactsHold == Spec => [](Typed /\ Marker /\ Awaited /\ Artifacts)
<1>1. Init => Awaited /\ Artifacts
    BY TurnsAssumption DEF Init, Awaited, Artifacts, OwnArtifact, Settled, NoArtifact, NoReply, TurnsAssumption
<1> QED
    BY <1>1, AwaitedNext, ArtifactsNext, MarkerHolds, PTL DEF Spec

\* An artifact is shown under the answer of the turn whose agent made it and under no other,
\* through retries, deadlines, agents nobody waits for any more, deaths of the runtime and
\* replies that bring an older answer back (publishConversationArtifact,
\* attachArtifactsToAssistantMessage).
THEOREM ArtifactsStayWithTheirTurn == Spec => []ArtifactsOfTheirTurn
<1>1. Artifacts => ArtifactsOfTheirTurn
    BY DEF Artifacts, OwnArtifact, Settled, ArtifactsOfTheirTurn
<1> QED
    BY <1>1, ArtifactsHold, PTL
-----------------------------------------------------------------------------
(* The question of a regeneration *)

\* A turn has started when its message is stored for it.
Started(c) == user[c].turn # None
Answers(c) == answer[c] # "none"
Waits == {"sent", "queued", "setup"}

\* A turn that is marked or answered has its question in the table.
Asked(t) ==
    /\ req[t].kind \in {"post", "direct", "regenerate"}
    /\ req[t].kind = "regenerate" => req[t].question # None
    /\ req[t].kind # "regenerate" => Started(t)

\* The row of a call by the step it is at; a started turn keeps its row.
Row(c) ==
    /\ step[c] = "new" => user[c] = NoMessage /\ req[c] = NoRequest /\ http[c] = "none"
    /\ req[c].kind = "none" => step[c] = "new"
    /\ user[c].status = "sent" => Started(c)
    /\ Started(c) => /\ user[c].turn = c /\ user[c].at > 0
                     /\ req[c].kind \in {"post", "direct"}
                     /\ Answers(c) \/ active = c
                     /\ step[c] \notin Waits \cup {"joined", "storage"}
    /\ Answers(c) \/ active = c => Asked(c)
    /\ req[c].kind = "post" /\ step[c] \in Waits => user[c].at > 0
    /\ reply[c].turn # None => step[c] = "done" /\ (Started(c) => reply[c].turn = c)

\* A regeneration has found its question, that of a turn which is answered.
Question(c) ==
    /\ req[c].question # None =>
           /\ req[c].kind = "regenerate" /\ req[c].question \in Call /\ Started(req[c].question)
           /\ step[c] \in {"storage", "call", "agent", "tail", "done"}
           /\ req[c].target \in Call /\ Answers(req[c].target)
    /\ step[c] = "storage" => req[c].question # None
    /\ req[c].kind = "regenerate" => req[c].target \in Call

Rows == \A c \in Call : Row(c) /\ Question(c)

\* Places are taken once.
Places ==
    /\ \A c \in Call : user[c].at <= now /\ answeredAt[c] <= now
    /\ \A c, d \in Call : c # d /\ user[c].at = user[d].at => user[c].at = 0

\* What a step makes of a row that no request, start or regeneration writes: nothing of
\* its turn changes, and only a row of a call that never started goes.
RowStays(d) ==
    /\ user'[d].turn = user[d].turn
    /\ \/ user'[d].at = user[d].at
       \/ ~Started(d) /\ step[d] = "done" /\ user'[d].at = 0
    /\ user'[d].status = "sent" => Started(d)
    /\ step[d] = "new" => user'[d] = user[d] /\ http'[d] = http[d]

\* What becomes of the answer of a turn: it stays, or the marked turn gets one.
AnswerStays(d) ==
    /\ Answers(d) => Answers(d)' /\ answeredAt'[d] = answeredAt[d]
    /\ ~Answers(d) => \/ ~Answers(d)' /\ answeredAt'[d] = answeredAt[d]
                      \/ /\ Answers(d)' /\ active = d
                         /\ now < answeredAt'[d] /\ answeredAt'[d] <= now'

\* How a call moves on.
Moves(d) ==
    \/ step'[d] = step[d]
    \/ step'[d] = "done" /\ step[d] # "new"
    \/ step[d] = "sent" /\ step'[d] \in {"queued", "joined"}
    \/ step[d] = "queued" /\ step'[d] = "setup"
    \/ step[d] \in {"call", "agent"} /\ step'[d] \in {"call", "agent", "tail"}

Hears(d) ==
    \/ reply'[d] = reply[d]
    \/ reply'[d].turn = None
    \/ step'[d] = "done" /\ (Started(d) => reply'[d].turn = d)

\* The steps that bring no request, start no turn and look for no question.
Aside ==
    /\ UNCHANGED req
    /\ \A d \in Call : RowStays(d) /\ AnswerStays(d) /\ Moves(d) /\ Hears(d)
    /\ now' \in Nat /\ now <= now'
    /\ active' \in {active, None}
    /\ \A d \in Call : active = d /\ active' # d => Answers(d)'

\* Calls leave the relay and the line in their order.
LineMoves ==
    \/ UNCHANGED <<chats, relay>>
    \/ chats # <<>> /\ chats' = Tail(chats) /\ UNCHANGED relay
    \/ /\ relay # <<>> /\ relay' = Tail(relay) /\ step'[Head(relay)] # "sent"
       /\ chats' = chats \/ chats' = Append(chats, Head(relay))
    \/ relay' = <<>> /\ chats' \in {chats, <<>>} /\ \A d \in Call : step'[d] # "sent"

\* The rows are left alone.
LEMMA QuietRows ==
    ASSUME UNCHANGED <<user, http>>, NEW d \in Call, user[d].status = "sent" => Started(d)
    PROVE  RowStays(d)
BY DEF RowStays

LEMMA QuietAnswers ==
    ASSUME UNCHANGED <<answer, answeredAt>>, NEW d \in Call
    PROVE  AnswerStays(d)
BY DEF AnswerStays, Answers

\* A step that leaves rows, answers and requests alone.
LEMMA Quiet ==
    ASSUME Typed, Rows, UNCHANGED <<user, answer, answeredAt, now, active, req, http>>,
           \A d \in Call : Moves(d) /\ Hears(d)
    PROVE  Aside
<1>1. \A d \in Call : RowStays(d)
    BY QuietRows DEF Rows, Row
<1>2. now \in Nat
    BY DEF Typed, TypeOK
<1> QED
    BY <1>1, <1>2, QuietAnswers DEF Aside

\* The call that has the lock is over.
LEMMA EndsAside ==
    ASSUME Typed, Rows, NEW c \in Call, NEW r, Ends(c, r), step[c] # "new", chats # <<>>,
           r.turn = None \/ ~Started(c) \/ r.turn = c
    PROVE  /\ UNCHANGED <<req, http>> /\ \A d \in Call : Moves(d) /\ Hears(d)
           /\ LineMoves
<1>1. /\ step \in [Call -> Steps] /\ reply \in [Call -> Reply]
    BY DEF Typed, TypeOK, Reply
<1>2. \A d \in Joined(c) : step[d] = "joined"
    BY DEF Joined
<1>3. ASSUME NEW d \in Call PROVE Moves(d)
    BY <1>1, <1>2 DEF Ends, Moves
<1>4. ASSUME NEW d \in Call PROVE Hears(d)
    <2>1. reply'[d] = reply[d] \/ (reply'[d] = r /\ d \in Joined(c) \cup {c})
        BY <1>1 DEF Ends, Replies
    <2>2. d \in Joined(c) => ~Started(d)
        BY <1>2 DEF Rows, Row
    <2>3. d \in Joined(c) \cup {c} => step'[d] = "done"
        BY <1>1 DEF Ends
    <2> QED
        BY <2>1, <2>2, <2>3 DEF Hears
<1> QED
    BY <1>3, <1>4 DEF Ends, LineMoves

\* The answer of the marked turn is stored.
LEMMA PersistsAside ==
    ASSUME Typed, Awaited, Rows, NEW c \in Call, NEW s \in {"sent", "failed"}, NEW bind,
           Persists(c, s, bind), step[c] \in {"call", "agent"}, active = c,
           UNCHANGED <<user, active, req, http, reply, chats, relay>>
    PROVE  Aside /\ LineMoves
<1>1. /\ step \in [Call -> Steps] /\ answer \in [Call -> Status] /\ answeredAt \in [Call -> Nat]
      /\ now \in Nat
    BY DEF Typed, TypeOK
<1>2. answer[c] = "none"
    BY DEF Awaited, Early
<1>3. ASSUME NEW d \in Call PROVE AnswerStays(d)
    BY <1>1, <1>2 DEF Persists, AnswerStays, Answers
<1>4. ASSUME NEW d \in Call PROVE Moves(d) /\ Hears(d)
    BY <1>1 DEF Persists, Goes, Moves, Hears
<1>5. \A d \in Call : RowStays(d)
    BY QuietRows DEF Rows, Row
<1> QED
    BY <1>1, <1>3, <1>4, <1>5 DEF Aside, LineMoves, Persists

\* The steps of the runtime that start nothing and find no question.
LEMMA TurnAside ==
    ASSUME Typed, Marker, Awaited, Rows, NEW c \in Call,
           \/ Begin(c) \/ Replay(c) \/ SetupFails(c) \/ RefuseRegenerate(c)
           \/ AgentStarts(c) \/ AgentBusy(c) \/ AgentAnswers(c) \/ AgentFails(c) \/ Deadline(c)
           \/ Finish(c)
    PROVE  Aside /\ LineMoves
<1>1. /\ step \in [Call -> Steps] /\ answer \in [Call -> Status] /\ active \in MaybeCall
      /\ now \in Nat
    BY DEF Typed, TypeOK
<1>2. \A d \in Call : step[d] \in Running => up /\ Chatting(d) /\ (step[d] \in Marked => active = d)
    BY RunnerIsFirst, RunnerIsUp DEF Marker, Marked
<1>3. CASE Begin(c)
    <2>1. UNCHANGED <<user, answer, answeredAt, now, active, req, http, reply, chats, relay>>
        BY <1>3 DEF Begin, rows, log, portal
    <2>2. \A d \in Call : Moves(d) /\ Hears(d)
        BY <1>1, <1>3, <2>1 DEF Begin, HasLock, Goes, Moves, Hears
    <2> QED
        BY <2>1, <2>2, Quiet DEF LineMoves
<1>4. CASE Replay(c) \/ SetupFails(c) \/ RefuseRegenerate(c)
    <2>1. UNCHANGED <<user, answer, answeredAt, now, active>>
        BY <1>4 DEF Replay, SetupFails, RefuseRegenerate, rows, log
    <2>2. PICK r : Ends(c, r)
        BY <1>4 DEF Replay, SetupFails, RefuseRegenerate
    <2>3. step[c] \in {"queued", "setup", "storage"} /\ chats # <<>>
        BY <1>2, <1>4 DEF Replay, HasLock, SetupFails, RefuseRegenerate, InRegenerate, Running, Chatting
    <2>4. ~Started(c)
        BY <2>3 DEF Rows, Row, Waits
    <2>5. /\ UNCHANGED <<req, http>> /\ LineMoves /\ \A d \in Call : Moves(d) /\ Hears(d)
        BY <2>2, <2>3, <2>4, EndsAside
    <2> QED
        BY <2>1, <2>5, Quiet
<1>5. CASE AgentStarts(c)
    <2>1. UNCHANGED <<user, answer, answeredAt, now, active, req, http, reply, chats, relay>>
        BY <1>5 DEF AgentStarts, rows, log, portal
    <2>2. \A d \in Call : Moves(d) /\ Hears(d)
        BY <1>1, <1>5, <2>1 DEF AgentStarts, Goes, Moves, Hears
    <2> QED
        BY <2>1, <2>2, Quiet DEF LineMoves
<1>6. CASE AgentBusy(c) \/ AgentAnswers(c) \/ AgentFails(c) \/ Deadline(c)
    <2>1. step[c] \in {"call", "agent"} /\ UNCHANGED <<user, active, req, http, reply, chats, relay>>
        BY <1>6 DEF AgentBusy, AgentAnswers, AgentFails, Deadline, portal
    <2>2. active = c
        BY <1>2, <2>1 DEF Running, Marked
    <2>3. CASE \E s \in {"sent", "failed"}, bind \in BOOLEAN : Persists(c, s, bind)
        BY <2>1, <2>2, <2>3, PersistsAside
    <2>4. CASE UNCHANGED <<answer, log>> /\ (UNCHANGED step \/ Goes(c, "call"))
        <3>1. UNCHANGED <<answer, answeredAt, now>>
            BY <2>4 DEF log
        <3>2. \A d \in Call : Moves(d) /\ Hears(d)
            BY <1>1, <2>1, <2>4 DEF Goes, Moves, Hears
        <3> QED
            BY <2>1, <3>1, <3>2, Quiet DEF LineMoves
    <2>5. \A b \in BOOLEAN : b \in BOOLEAN /\ Outcome(c, "sent") \in {"sent", "failed"}
        BY DEF Outcome
    <2>6. (c \notin cancelled) \in BOOLEAN
        OBVIOUS
    <2>7. CASE AgentBusy(c)
        BY <2>3, <2>4, <2>5, <2>6, <2>7 DEF AgentBusy
    <2>8. CASE AgentAnswers(c)
        BY <2>3, <2>5, <2>6, <2>8 DEF AgentAnswers
    <2>9. CASE AgentFails(c)
        BY <2>3, <2>4, <2>6, <2>9 DEF AgentFails
    <2>10. CASE Deadline(c)
        BY <2>3, <2>10 DEF Deadline
    <2> QED
        BY <1>6, <2>7, <2>8, <2>9, <2>10
<1>7. CASE Finish(c)
    <2>1. /\ UNCHANGED <<user, answer, answeredAt, now>> /\ active' = Unmarked(c) /\ step[c] = "tail"
          /\ Ends(c, [turn |-> c, status |-> answer[c]])
        BY <1>7 DEF Finish, log
    <2>2. Answers(c) /\ chats # <<>>
        BY <1>2, <2>1 DEF Typed, Answered, Answers, Running, Chatting
    <2>3. /\ UNCHANGED <<req, http>> /\ LineMoves /\ \A d \in Call : Moves(d) /\ Hears(d)
        BY <2>1, <2>2, EndsAside
    <2>4. \A d \in Call : RowStays(d) /\ AnswerStays(d)
        BY <2>1, <2>3, QuietRows, QuietAnswers DEF Rows, Row
    <2>5. active' \in {active, None} /\ \A d \in Call : active = d /\ active' # d => Answers(d)'
        BY <2>1, <2>2 DEF Unmarked, Answers
    <2> QED
        BY <1>1, <2>1, <2>3, <2>4, <2>5 DEF Aside
<1> QED
    BY <1>3, <1>4, <1>5, <1>6, <1>7

\* The question of a turn that is answered has its row.
LEMMA QuestionStarted ==
    ASSUME Rows, NEW t \in Call, Answers(t) \/ active = t
    PROVE  QuestionOf(t) \in Call /\ Started(QuestionOf(t)) /\ user[QuestionOf(t)].turn = QuestionOf(t)
<1>1. Row(t) /\ Question(t) /\ Asked(t)
    BY DEF Rows, Row
<1>2. CASE req[t].kind = "regenerate"
    BY <1>1, <1>2 DEF Asked, Question, QuestionOf, Rows, Row
<1>3. CASE req[t].kind # "regenerate"
    BY <1>1, <1>3 DEF Asked, Row, QuestionOf
<1> QED
    BY <1>2, <1>3

\* The handlers of the Portal.
LEMMA PortalAside ==
    ASSUME Typed, Rows, NEW c \in Call, Accept(c) \/ TakesError(c) \/ TimesOut(c)
    PROVE  Aside /\ LineMoves
<1>1. /\ step \in [Call -> Steps] /\ answer \in [Call -> Status] /\ active \in MaybeCall
      /\ now \in Nat /\ reply \in [Call -> Reply] /\ user \in [Call -> UserRow]
      /\ http \in [Call -> {"none", "waiting", "done"}]
    BY DEF Typed, TypeOK, Reply, UserRow
<1>2. /\ UNCHANGED <<answeredAt, now, active, req, step, chats, relay>>
      /\ reply' = [reply EXCEPT ![c] = NoReply] /\ http' = [http EXCEPT ![c] = "done"]
      /\ http[c] = "waiting"
    BY DEF Accept, TakesError, TimesOut, GivesUp, log, runtime
<1>3. \A d \in Call : Moves(d) /\ Hears(d)
    BY <1>1, <1>2 DEF Moves, Hears, NoReply
<1>4. step[c] # "new"
    BY <1>2 DEF Rows, Row
<1>5. CASE Accept(c)
    <2> DEFINE t == reply[c].turn
               q == QuestionOf(t)
    <2>1. /\ t \in Call /\ Answers(t) /\ reply[c].status # "none"
          /\ step[c] = "done" /\ (Started(c) => t = c)
        BY <1>1, <1>5 DEF Accept, Reply, MaybeCall, Typed, Answered, Backed, Answers, Rows, Row
    <2>2. q \in Call /\ Started(q)
        BY <2>1, QuestionStarted
    <2>3. Started(c) => q = c
        BY <2>1 DEF Rows, Row, QuestionOf
    <2>4. \A d \in Call : AnswerStays(d)
        BY <1>1, <1>2, <1>5, <2>1 DEF Accept, AnswerStays, Answers
    <2>5. ASSUME NEW d \in Call PROVE RowStays(d)
        <3>1. /\ [user[d] EXCEPT !.status = "sent"].turn = user[d].turn
              /\ [user[d] EXCEPT !.status = "sent"].at = user[d].at
            BY <1>1 DEF UserRow
        <3>2. \/ user'[d] = user[d]
              \/ d = q /\ user'[d] = [user[d] EXCEPT !.status = "sent"]
              \/ d = c /\ d # q /\ user'[d] = NoMessage
            BY <1>1, <1>5 DEF Accept
        <3>3. step[d] = "new" => d # c /\ d # q
            BY <2>1, <2>2 DEF Rows, Row, NoMessage, Started
        <3>4. step[d] = "new" => http'[d] = http[d]
            BY <1>1, <1>2, <3>3
        <3>5. user[d].status = "sent" => Started(d)
            BY DEF Rows, Row
        <3>6. CASE user'[d] = user[d]
            BY <3>4, <3>5, <3>6 DEF RowStays
        <3>7. CASE d = q /\ user'[d] = [user[d] EXCEPT !.status = "sent"]
            BY <2>2, <3>1, <3>3, <3>7 DEF RowStays
        <3>8. CASE d = c /\ d # q /\ user'[d] = NoMessage
            BY <2>1, <2>3, <3>3, <3>8 DEF RowStays, NoMessage, Started
        <3> QED
            BY <3>2, <3>6, <3>7, <3>8
    <2> QED
        BY <1>1, <1>2, <1>3, <2>4, <2>5 DEF Aside, LineMoves
<1>6. CASE GivesUp(c)
    <2>1. UNCHANGED answer
        BY <1>6 DEF GivesUp
    <2>2. ASSUME NEW d \in Call PROVE RowStays(d)
        <3>1. /\ [user[d] EXCEPT !.status = "failed"].turn = user[d].turn
              /\ [user[d] EXCEPT !.status = "failed"].at = user[d].at
              /\ [user[d] EXCEPT !.status = "failed"].status = "failed"
            BY <1>1 DEF UserRow
        <3>2. user' = user \/ user' = [user EXCEPT ![c] = [user[c] EXCEPT !.status = "failed"]]
            BY <1>1, <1>6 DEF GivesUp, UserRow
        <3>3. user'[d] = user[d] \/ (d = c /\ user'[d] = [user[d] EXCEPT !.status = "failed"])
            BY <1>1, <3>2
        <3>4. d # c => http'[d] = http[d]
            BY <1>1, <1>2
        <3>5. user[d].status = "sent" => Started(d)
            BY DEF Rows, Row
        <3> QED
            BY <1>4, <3>1, <3>3, <3>4, <3>5 DEF RowStays
    <2> QED
        BY <1>1, <1>2, <1>3, <2>1, <2>2, QuietAnswers DEF Aside, LineMoves
<1> QED
    BY <1>5, <1>6 DEF TakesError, TimesOut

\* Every other step is a request, a start or a regeneration that finds its question.
LEMMA AsideSteps ==
    ASSUME Typed, Marker, Awaited, Rows, [Next]_vars
    PROVE  \/ Aside /\ LineMoves
           \/ \E c \in Call : Request(c) \/ Supersede(c) \/ Start(c) \/ StartCancelled(c)
<1>1. /\ step \in [Call -> Steps] /\ answer \in [Call -> Status] /\ active \in MaybeCall
      /\ now \in Nat /\ reply \in [Call -> Reply] /\ relay \in Seq(Call)
    BY DEF Typed, TypeOK, Reply
<1>2. ASSUME NEW c \in Call, Receive(c) PROVE Aside /\ LineMoves
    <2>1. /\ UNCHANGED <<user, answer, answeredAt, now, active, req, http>>
          /\ relay # <<>> /\ c = Head(relay) /\ relay' = Tail(relay)
          /\ chats' = chats \/ chats' = Append(chats, c)
          /\ \E s \in {"done", "joined", "queued"} : Goes(c, s)
        BY <1>2 DEF Receive, Enters, rows, log
    <2>2. step[c] = "sent"
        BY <1>1, <2>1, First DEF Typed, Line
    <2>3. \A d \in Call : Moves(d)
        BY <1>1, <2>1, <2>2 DEF Goes, Moves
    <2>4. \A d \in Call : Hears(d)
        BY <1>1, <1>2 DEF Receive, Replies, Error, Hears
    <2>5. step'[c] # "sent"
        BY <1>1, <2>1 DEF Goes
    <2> QED
        BY <2>1, <2>3, <2>4, <2>5, Quiet DEF LineMoves
<1>3. ASSUME NEW c \in Call, Cancel(c) \/ Publish(c) PROVE Aside /\ LineMoves
    <2>1. UNCHANGED <<user, answer, answeredAt, now, active, req, http, step, reply, chats, relay>>
        BY <1>3 DEF Cancel, Publish, rows, log, portal
    <2> QED
        BY <2>1, Quiet DEF LineMoves, Moves, Hears
<1>4. CASE AgentComesBack \/ UNCHANGED vars
    <2>1. UNCHANGED <<user, answer, answeredAt, now, active, req, http, step, reply, chats, relay>>
        BY <1>4 DEF AgentComesBack, vars, rows, log, runtime, portal
    <2> QED
        BY <2>1, Quiet DEF LineMoves, Moves, Hears
<1>5. CASE Disconnect \/ Crash
    <2>1. /\ UNCHANGED <<user, answer, answeredAt, now, active, req, http>>
          /\ relay' = <<>> /\ chats' \in {chats, <<>>}
        BY <1>5 DEF Disconnect, Crash, rows, log, Closed
    <2>4. \A d \in Call : step'[d] # "sent"
        BY <1>1, <1>5 DEF Disconnect, Crash
    <2>2. \A d \in Call : Moves(d)
        BY <1>1, <1>5 DEF Disconnect, Crash, Present, Moves
    <2>3. \A d \in Call : Hears(d)
        BY <1>1, <1>5 DEF Disconnect, Crash, Closed, Replies, Error, Hears
    <2> QED
        BY <2>1, <2>2, <2>3, <2>4, Quiet DEF LineMoves
<1>6. CASE Restart
    <2>1. UNCHANGED <<user, req, http, step, reply, chats, relay>> /\ active' = None
        BY <1>6 DEF Restart, portal
    <2>2. CASE active = None \/ Answers(active)
        <3>1. UNCHANGED <<answer, answeredAt, now>>
            BY <1>6, <2>2 DEF Restart, Finalized, Answers, log
        <3>2. \A d \in Call : RowStays(d) /\ AnswerStays(d)
            BY <2>1, <3>1, QuietRows, QuietAnswers DEF Rows, Row
        <3>3. \A d \in Call : active = d /\ active' # d => Answers(d)'
            BY <2>2, <3>1, TurnsAssumption DEF Answers, TurnsAssumption
        <3> QED
            BY <1>1, <2>1, <3>1, <3>2, <3>3 DEF Aside, LineMoves, Moves, Hears
    <2>3. CASE active \in Call /\ ~Answers(active)
        <3>1. /\ answer' = [answer EXCEPT ![active] = "failed"] /\ now' = now + 1
              /\ answeredAt' = [answeredAt EXCEPT ![active] = now + 1]
            BY <1>6, <2>3, TurnsAssumption DEF Restart, Finalized, Answers, TurnsAssumption
        <3>2. \A d \in Call : RowStays(d)
            BY <2>1, QuietRows DEF Rows, Row
        <3>3. \A d \in Call : AnswerStays(d)
            BY <1>1, <2>3, <3>1 DEF AnswerStays, Answers, Typed, TypeOK
        <3>4. \A d \in Call : active = d /\ active' # d => Answers(d)'
            BY <1>1, <3>1 DEF Answers
        <3> QED
            BY <1>1, <2>1, <3>1, <3>2, <3>3, <3>4 DEF Aside, LineMoves, Moves, Hears
    <2> QED
        BY <1>1, <2>2, <2>3 DEF MaybeCall
<1> QED
    BY <1>2, <1>3, <1>4, <1>5, <1>6, TurnAside, PortalAside DEF Next, Turn

LEMMA AsideRows ==
    ASSUME Rows, Aside
    PROVE  Rows'
<1> SUFFICES ASSUME NEW c \in Call PROVE Row(c)' /\ Question(c)'
    BY DEF Rows
<1>1. /\ Row(c) /\ Question(c) /\ UNCHANGED req
      /\ RowStays(c) /\ AnswerStays(c) /\ Moves(c) /\ Hears(c)
      /\ active' = c => active = c
      /\ active = c /\ active' # c => Answers(c)'
    BY TurnsAssumption DEF Rows, Aside, TurnsAssumption
<1>2. (Started(c) <=> Started(c)') /\ (Answers(c) => Answers(c)') /\ (Answers(c)' => Answers(c) \/ active = c)
    BY <1>1 DEF RowStays, AnswerStays, Started
<1>3. Asked(c) => Asked(c)'
    BY <1>1, <1>2 DEF Asked
<1>4. Row(c)'
    <2>1. (/\ step[c] = "new" => user[c] = NoMessage /\ req[c] = NoRequest /\ http[c] = "none"
           /\ req[c].kind = "none" => step[c] = "new")'
        BY <1>1 DEF Row, Moves, RowStays
    <2>2. (user[c].status = "sent" => Started(c))'
        BY <1>1, <1>2 DEF RowStays
    <2>3. (Started(c) => /\ user[c].turn = c /\ user[c].at > 0
                         /\ req[c].kind \in {"post", "direct"}
                         /\ Answers(c) \/ active = c
                         /\ step[c] \notin Waits \cup {"joined", "storage"})'
        <3> SUFFICES ASSUME Started(c)
                     PROVE  /\ user'[c].turn = c /\ user'[c].at > 0
                            /\ req'[c].kind \in {"post", "direct"}
                            /\ Answers(c)' \/ active' = c
                            /\ step'[c] \notin Waits \cup {"joined", "storage"}
            BY <1>2 DEF Waits
        <3>1. user'[c].turn = c /\ user'[c].at > 0 /\ req'[c].kind \in {"post", "direct"}
            BY <1>1 DEF Row, RowStays
        <3>2. Answers(c)' \/ active' = c
            BY <1>1, <1>2 DEF Row
        <3>3. step'[c] \notin Waits \cup {"joined", "storage"}
            BY <1>1 DEF Row, Moves, Waits
        <3> QED
            BY <3>1, <3>2, <3>3
    <2>4. (Answers(c) \/ active = c => Asked(c))'
        BY <1>1, <1>2, <1>3 DEF Row
    <2>5. (req[c].kind = "post" /\ step[c] \in Waits => user[c].at > 0)'
        BY <1>1 DEF Row, Moves, Waits, RowStays
    <2>6. (reply[c].turn # None => step[c] = "done" /\ (Started(c) => reply[c].turn = c))'
        BY <1>1, <1>2 DEF Row, Moves, Hears
    <2> QED
        BY <2>1, <2>2, <2>3, <2>4, <2>5, <2>6 DEF Row
<1>5. Question(c)'
    <2>1. req[c].question \in Call => (Started(req[c].question) => Started(req[c].question)')
        BY <1>1 DEF Aside, RowStays, Started
    <2>2. req[c].target \in Call => (Answers(req[c].target) => Answers(req[c].target)')
        BY <1>1 DEF Aside, AnswerStays
    <2>3. (step[c] = "storage" => req[c].question # None)'
        BY <1>1 DEF Question, Moves
    <2>4. step[c] \in {"storage", "call", "agent", "tail", "done"}
          => step'[c] \in {"storage", "call", "agent", "tail", "done"}
        BY <1>1 DEF Moves
    <2> QED
        BY <1>1, <2>1, <2>2, <2>3, <2>4 DEF Question
<1> QED
    BY <1>4, <1>5

\* What a request writes: its own row.
Asks(c) ==
    /\ step[c] = "new" /\ UNCHANGED <<answer, answeredAt, active>>
    /\ \A d \in Call \ {c} : /\ user'[d] = user[d] /\ req'[d] = req[d] /\ step'[d] = step[d]
                             /\ http'[d] = http[d] /\ reply'[d] = reply[d]
    /\ step'[c] \in {"sent", "queued", "joined", "done"}
    /\ req'[c].kind \in {"post", "direct", "regenerate"} /\ req'[c].question = None
    /\ req'[c].kind = "regenerate" => req'[c].target \in Call
    /\ user'[c].turn = None /\ user'[c].status # "sent" /\ reply'[c].turn = None
    /\ \/ req'[c].kind = "post" /\ user'[c].at = now + 1 /\ now' = now + 1
       \/ req'[c].kind # "post" /\ user'[c].at = 0 /\ now' = now
    /\ \/ chats' = chats /\ relay' \in {relay, Append(relay, c)}
       \/ req'[c].kind = "direct" /\ relay' = relay /\ chats' = Append(chats, c)
    /\ step'[c] = "sent" => relay' = Append(relay, c)

LEMMA RequestAsks ==
    ASSUME Typed, Rows, NEW c \in Call, Request(c)
    PROVE  Asks(c)
<1>1. /\ step \in [Call -> Steps] /\ reply \in [Call -> Reply] /\ user \in [Call -> UserRow]
      /\ http \in [Call -> {"none", "waiting", "done"}] /\ now \in Nat
      /\ req \in [Call -> [kind : {"none", "post", "direct", "regenerate"}, key : MaybeCall,
                           target : MaybeCall, question : MaybeCall]]
    BY DEF Typed, TypeOK, Reply, UserRow
<1>2. step[c] = "new"
    BY DEF Request, Post, PostDirect, AskRegenerate
<1>3. user[c] = NoMessage /\ reply[c].turn = None
    BY <1>2 DEF Rows, Row
<1>4. ASSUME Sends(c)
      PROVE  /\ step'[c] \in {"sent", "done"} /\ reply'[c].turn = None
             /\ step'[c] = "sent" => relay' = Append(relay, c)
             /\ relay' \in {relay, Append(relay, c)}
             /\ \A d \in Call \ {c} : step'[d] = step[d] /\ reply'[d] = reply[d]
    BY <1>1, <1>3, <1>4 DEF Sends, Goes, Error
<1>5. ASSUME NEW k, Post(c, k) PROVE Asks(c)
    <2>1. user \in [Call -> UserRow]
        BY <1>1
    <2>6. user' = [user EXCEPT ![c] = [user[c] EXCEPT !.status = "pending", !.at = now + 1]]
        BY <1>5, <2>1 DEF Post, UserRow
    <2>2. user'[c].status = "pending" /\ user'[c].turn = None /\ user'[c].at = now + 1
        <3>1. user'[c] = [NoMessage EXCEPT !.status = "pending", !.at = now + 1]
            BY <1>3, <2>1, <2>6
        <3> QED
            BY <3>1 DEF NoMessage
    <2>7. req' = [req EXCEPT ![c] = [NoRequest EXCEPT !.kind = "post", !.key = k]]
        BY <1>5 DEF Post
    <2>3. req'[c].kind = "post" /\ req'[c].question = None
        <3>1. req'[c] = [NoRequest EXCEPT !.kind = "post", !.key = k]
            BY <1>1, <2>7
        <3> QED
            BY <3>1 DEF NoRequest
    <2>4. \A d \in Call \ {c} : user'[d] = user[d] /\ req'[d] = req[d]
        BY <1>1, <2>6, <2>7
    <2>5. /\ UNCHANGED <<answer, answeredAt, active, chats>> /\ now' = now + 1 /\ Sends(c)
          /\ http' = [http EXCEPT ![c] = "waiting"]
        BY <1>5 DEF Post
    <2> QED
        BY <1>1, <1>2, <1>4, <2>2, <2>3, <2>4, <2>5 DEF Asks
<1>6. ASSUME NEW k, PostDirect(c, k) PROVE Asks(c)
    <2>1. req' = [req EXCEPT ![c] = [NoRequest EXCEPT !.kind = "direct", !.key = k]]
        BY <1>6 DEF PostDirect
    <2>2. req'[c].kind = "direct" /\ req'[c].question = None
        <3>1. req'[c] = [NoRequest EXCEPT !.kind = "direct", !.key = k]
            BY <1>1, <2>1
        <3> QED
            BY <3>1 DEF NoRequest
    <2>3. \A d \in Call \ {c} : req'[d] = req[d]
        BY <1>1, <2>1
    <2>4. /\ UNCHANGED <<user, answer, answeredAt, now, active, relay, http, reply>>
          /\ \/ Goes(c, "joined") /\ UNCHANGED chats
             \/ Goes(c, "queued") /\ chats' = Append(chats, c)
        BY <1>6 DEF PostDirect, Enters, rows, log, portal
    <2>5. user'[c].turn = None /\ user'[c].at = 0 /\ user'[c].status # "sent" /\ reply'[c].turn = None
        BY <1>3, <2>4 DEF NoMessage
    <2>6. /\ step'[c] \in {"queued", "joined"} /\ \A d \in Call \ {c} : step'[d] = step[d]
          /\ chats' = chats \/ chats' = Append(chats, c)
        BY <1>1, <2>4 DEF Goes
    <2> QED
        BY <1>2, <2>2, <2>3, <2>4, <2>5, <2>6 DEF Asks
<1>7. ASSUME NEW t \in Call, AskRegenerate(c, t) PROVE Asks(c)
    <2>1. req' = [req EXCEPT ![c] = [NoRequest EXCEPT !.kind = "regenerate", !.target = t]]
        BY <1>7 DEF AskRegenerate
    <2>2. req'[c].kind = "regenerate" /\ req'[c].question = None /\ req'[c].target = t
        <3>1. req'[c] = [NoRequest EXCEPT !.kind = "regenerate", !.target = t]
            BY <1>1, <2>1
        <3> QED
            BY <3>1 DEF NoRequest
    <2>3. \A d \in Call \ {c} : req'[d] = req[d]
        BY <1>1, <2>1
    <2>4. /\ UNCHANGED <<user, answer, answeredAt, now, active, chats>> /\ Sends(c)
          /\ http' = [http EXCEPT ![c] = "waiting"]
        BY <1>7 DEF AskRegenerate, rows, log
    <2>5. user'[c].turn = None /\ user'[c].at = 0 /\ user'[c].status # "sent"
        BY <1>3, <2>4 DEF NoMessage
    <2> QED
        BY <1>1, <1>2, <1>4, <2>2, <2>3, <2>4, <2>5 DEF Asks
<1> QED
    BY <1>5, <1>6, <1>7 DEF Request

LEMMA AsksRows ==
    ASSUME Typed, Awaited, Rows, NEW c \in Call, Asks(c)
    PROVE  Rows'
<1>1. ~Started(c) /\ ~Answers(c) /\ active # c /\ now \in Nat
    <2>1. step[c] = "new" /\ now \in Nat
        BY DEF Asks, Typed, TypeOK
    <2> QED
        BY <2>1 DEF Rows, Row, NoMessage, Started, Awaited, Early, Answers
<1>2. Row(c)' /\ Question(c)'
    BY <1>1 DEF Asks, Row, Question, Started, Answers, Asked, Waits
<1>3. ASSUME NEW d \in Call, d # c PROVE Row(d)' /\ Question(d)'
    <2>1. /\ Row(d) /\ Question(d) /\ UNCHANGED <<answer, active>>
          /\ user'[d] = user[d] /\ req'[d] = req[d] /\ step'[d] = step[d]
          /\ http'[d] = http[d] /\ reply'[d] = reply[d]
        BY <1>3 DEF Rows, Asks
    <2>2. (Started(d) <=> Started(d)') /\ (Asked(d) <=> Asked(d)') /\ (Answers(d) <=> Answers(d)')
        BY <2>1 DEF Started, Asked, Answers
    <2>3. \A e \in Call : (Started(e) => Started(e)') /\ (Answers(e) <=> Answers(e)')
        BY <1>1, <2>1 DEF Started, Answers, Asks
    <2> QED
        BY <2>1, <2>2, <2>3 DEF Row, Question
<1> QED
    BY <1>2, <1>3 DEF Rows

\* What a start writes: the message of the call, its mark, and the answer if it was stopped.
Starts(c) ==
    /\ up /\ Chatting(c) /\ active = None /\ active' = c
    /\ \/ step[c] = "setup" /\ req[c].kind # "regenerate"
       \/ step[c] = "storage"
    /\ UNCHANGED <<req, http, reply, chats, relay>>
    /\ step'[c] \in {"call", "tail"}
    /\ \A d \in Call \ {c} : /\ user'[d] = user[d] /\ step'[d] = step[d]
                             /\ answer'[d] = answer[d] /\ answeredAt'[d] = answeredAt[d]
    /\ ~Answers(c) /\ (Answers(c)' => now < answeredAt'[c])
    /\ now' \in Nat /\ now <= now' /\ answeredAt'[c] <= now'
    /\ req[c].kind = "regenerate" => user'[c] = user[c]
    /\ req[c].kind = "post" => user'[c].turn = c /\ user'[c].at = user[c].at
    /\ req[c].kind = "direct" => user'[c].turn = c /\ user'[c].at = now + 1 /\ now < now'

LEMMA StartStarts ==
    ASSUME Typed, Marker, Awaited, Rows, Places, NEW c \in Call, Start(c) \/ StartCancelled(c)
    PROVE  Starts(c)
<1>1. /\ step \in [Call -> Steps] /\ answer \in [Call -> Status] /\ answeredAt \in [Call -> Nat]
      /\ user \in [Call -> UserRow] /\ now \in Nat
    BY DEF Typed, TypeOK, UserRow
<1>2. /\ Marks(c) /\ user' = Stored(c) /\ active' = c
      /\ UNCHANGED <<req, http, reply, chats, relay>>
    BY DEF Start, StartCancelled, Marks, portal
<1>3. /\ step[c] \in {"setup", "storage"}
      /\ step[c] = "setup" => req[c].kind # "regenerate"
    BY <1>2 DEF Marks, Startable
<1>4. up /\ Chatting(c) /\ active = None /\ ~Answers(c)
    BY <1>3, RunnerIsUp, RunnerIsFirst, NotMarked DEF Running, Awaited, Early, Answers
<1>5. /\ step'[c] \in {"call", "tail"} /\ \A d \in Call \ {c} : step'[d] = step[d]
    BY <1>1 DEF Start, StartCancelled, Goes
<1>6. /\ \A d \in Call \ {c} : answer'[d] = answer[d] /\ answeredAt'[d] = answeredAt[d]
      /\ Answers(c)' => now < answeredAt'[c]
      /\ now' \in Nat /\ now <= now' /\ answeredAt'[c] <= now'
      /\ req[c].kind = "direct" => now < now'
    <2>1. CASE Start(c)
        BY <1>1, <1>4, <2>1 DEF Start, Answers, Places
    <2>2. CASE StartCancelled(c)
        BY <1>1, <2>2 DEF StartCancelled
    <2> QED
        BY <2>1, <2>2
<1>7. CASE req[c].kind = "regenerate"
    BY <1>2, <1>3, <1>4, <1>5, <1>6, <1>7 DEF Stored, Starts
<1>8. CASE req[c].kind = "post"
    <2>1. user' = [user EXCEPT ![c] = [user[c] EXCEPT !.status = "sent", !.turn = c]]
        BY <1>1, <1>2, <1>8 DEF Stored, UserRow
    <2>2. user'[c] = [user[c] EXCEPT !.status = "sent", !.turn = c] /\ \A d \in Call \ {c} : user'[d] = user[d]
        BY <1>1, <2>1
    <2>3. user'[c].turn = c /\ user'[c].at = user[c].at
        BY <1>1, <2>2 DEF UserRow
    <2> QED
        BY <1>2, <1>3, <1>4, <1>5, <1>6, <1>8, <2>2, <2>3 DEF Starts
<1>9. CASE req[c].kind = "direct"
    <2>1. /\ user'[c] = [status |-> "sent", turn |-> c, key |-> req[c].key, at |-> now + 1]
          /\ \A d \in Call \ {c} : user'[d] = user[d]
        BY <1>1, <1>2, <1>9 DEF Stored
    <2> QED
        BY <1>2, <1>3, <1>4, <1>5, <1>6, <1>9, <2>1 DEF Starts
<1> QED
    <2>1. req[c].kind \in {"none", "post", "direct", "regenerate"}
        BY DEF Typed, TypeOK
    <2> QED
        BY <1>3, <1>7, <1>8, <1>9, <2>1 DEF Rows, Row

LEMMA StartsRows ==
    ASSUME Typed, Rows, NEW c \in Call, Starts(c)
    PROVE  Rows'
<1>1. Row(c) /\ Question(c) /\ c # None /\ now \in Nat /\ reply'[c] = reply[c]
    BY TurnsAssumption DEF Rows, TurnsAssumption, Typed, TypeOK, Starts
<1>2. /\ req[c].kind \in {"none", "post", "direct", "regenerate"} /\ req'[c] = req[c] /\ active' = c
      /\ step[c] \in {"setup", "storage"} /\ step'[c] \in {"call", "tail"}
    BY DEF Starts, Typed, TypeOK
<1>3. /\ req[c].kind \in {"post", "direct"} => Started(c)' /\ user'[c].turn = c /\ user'[c].at > 0
      /\ req[c].kind = "regenerate" => user'[c] = user[c] /\ req[c].question # None
      /\ req[c].kind # "none"
    BY <1>1, <1>2 DEF Row, Question, Waits, Starts, Started
<1>4. Row(c)'
    <2>1. Asked(c)'
        BY <1>2, <1>3 DEF Asked
    <2>2. ~Started(c) /\ reply[c].turn = None
        BY <1>1, <1>2 DEF Row, Waits
    <2> QED
        BY <1>1, <1>2, <1>3, <2>1, <2>2 DEF Row, Started, Waits
<1>5. \A e \in Call : (Started(e) => Started(e)') /\ (Answers(e) => Answers(e)')
    BY <1>1, <1>2, <1>3 DEF Starts, Started, Answers
<1>6. Question(c)'
    BY <1>1, <1>2, <1>5 DEF Question
<1>7. ASSUME NEW d \in Call, d # c PROVE Row(d)' /\ Question(d)'
    <2>1. /\ Row(d) /\ Question(d) /\ active # d /\ active' # d
          /\ user'[d] = user[d] /\ req'[d] = req[d] /\ step'[d] = step[d]
          /\ http'[d] = http[d] /\ reply'[d] = reply[d] /\ answer'[d] = answer[d]
        BY <1>7, TurnsAssumption DEF Rows, Starts, TurnsAssumption
    <2>2. (Started(d) <=> Started(d)') /\ (Asked(d) <=> Asked(d)') /\ (Answers(d) <=> Answers(d)')
        BY <2>1 DEF Started, Asked, Answers
    <2> QED
        BY <1>5, <2>1, <2>2 DEF Row, Question
<1> QED
    BY <1>4, <1>6, <1>7 DEF Rows

\* What a regeneration writes that has found its question: the status of an answer, and
\* the last message before it.
Finds(c) ==
    LET t == req[c].target  q == req'[c].question
    IN /\ step[c] = "setup" /\ req[c].kind = "regenerate" /\ Chatting(c) /\ active = None
       /\ t \in Call /\ answer[t] = "sent" /\ q \in LastBefore(t) /\ user[q].status = "sent"
       /\ req'[c].kind = "regenerate" /\ req'[c].target = t
       /\ step'[c] = "storage"
       /\ UNCHANGED <<user, answeredAt, now, active, http, reply, chats, relay>>
       /\ \A d \in Call : Answers(d)' <=> Answers(d)
       /\ \A d \in Call \ {c} : step'[d] = step[d] /\ req'[d] = req[d]

LEMMA SupersedeFinds ==
    ASSUME Typed, Marker, Rows, NEW c \in Call, Supersede(c)
    PROVE  Finds(c)
<1> DEFINE t == req[c].target
<1>1. /\ step \in [Call -> Steps] /\ answer \in [Call -> Status]
      /\ req \in [Call -> [kind : {"none", "post", "direct", "regenerate"}, key : MaybeCall,
                           target : MaybeCall, question : MaybeCall]]
    BY DEF Typed, TypeOK
<1>2. PICK q \in Regenerable(t) : req' = [req EXCEPT ![c].question = q]
    BY DEF Supersede
<1>3. answer[t] = "sent" /\ q \in LastBefore(t) /\ user[q].status = "sent"
    BY <1>2 DEF Regenerable
<1>4. /\ req'[c] = [req[c] EXCEPT !.question = q] /\ \A d \in Call \ {c} : req'[d] = req[d]
    BY <1>1, <1>2
<1>5. req'[c].kind = req[c].kind /\ req'[c].target = t /\ req'[c].question = q
    BY <1>1, <1>4
<1>6. t \in Call
    BY DEF Supersede, InRegenerate, Rows, Question
<1>7. step[c] = "setup" /\ req[c].kind = "regenerate"
    BY DEF Supersede, InRegenerate
<1>8. Chatting(c) /\ active = None
    BY <1>7, RunnerIsFirst, NotMarked DEF Running
<1>9. /\ step'[c] = "storage" /\ \A d \in Call \ {c} : step'[d] = step[d]
      /\ UNCHANGED <<user, answeredAt, now, active, http, reply, chats, relay>>
      /\ \A d \in Call : Answers(d)' <=> Answers(d)
    BY <1>1, <1>3, <1>6 DEF Supersede, Goes, portal, log, Answers
<1> QED
    BY <1>3, <1>4, <1>5, <1>6, <1>7, <1>8, <1>9 DEF Finds

LEMMA FindsRows ==
    ASSUME Typed, Rows, NEW c \in Call, Finds(c)
    PROVE  Rows'
<1> DEFINE t == req[c].target
           q == req'[c].question
<1>1. /\ Row(c) /\ Question(c) /\ c # None
      /\ step[c] = "setup" /\ req[c].kind = "regenerate" /\ active = None
      /\ t \in Call /\ answer[t] = "sent" /\ q \in Call /\ user[q].status = "sent"
      /\ req'[c].kind = "regenerate" /\ req'[c].target = t /\ step'[c] = "storage"
      /\ UNCHANGED <<user, active, http, reply>>
      /\ \A d \in Call : Answers(d)' <=> Answers(d)
    BY TurnsAssumption DEF Rows, Finds, LastBefore, TurnsAssumption
<1>2. \A e \in Call : Started(e)' <=> Started(e)
    BY <1>1 DEF Started
<1>3. Started(q) /\ ~Started(c) /\ reply[c].turn = None /\ q # None
    BY <1>1, TurnsAssumption DEF Rows, Row, Waits, TurnsAssumption
<1>4. Row(c)'
    <2>1. (Answers(c) \/ active = c => Asked(c))'
        BY <1>1, <1>3 DEF Asked
    <2> QED
        BY <1>1, <1>2, <1>3, <2>1 DEF Row, Waits
<1>5. Question(c)'
    BY <1>1, <1>2, <1>3 DEF Question, Answers
<1>6. ASSUME NEW d \in Call, d # c PROVE Row(d)' /\ Question(d)'
    <2>1. /\ Row(d) /\ Question(d) /\ req'[d] = req[d] /\ step'[d] = step[d]
        BY <1>6 DEF Rows, Finds
    <2>2. Asked(d)' <=> Asked(d)
        BY <1>2, <2>1 DEF Asked
    <2> QED
        BY <1>1, <1>2, <2>1, <2>2 DEF Row, Question
<1> QED
    BY <1>4, <1>5, <1>6 DEF Rows

\* Every step, by what it writes.
LEMMA WhatStepsWrite ==
    ASSUME Typed, Marker, Awaited, Rows, Places, [Next]_vars
    PROVE  \/ Aside /\ LineMoves
           \/ \E c \in Call : Asks(c) \/ Starts(c) \/ Finds(c)
BY AsideSteps, RequestAsks, StartStarts, SupersedeFinds

LEMMA RowsNext == Typed /\ Marker /\ Awaited /\ Rows /\ Places /\ [Next]_vars => Rows'
BY WhatStepsWrite, AsideRows, AsksRows, StartsRows, FindsRows

\* A step takes no place or the next one.
LEMMA PlacesKept ==
    ASSUME Typed, Places, now' \in Nat, now <= now', user' \in [Call -> UserRow],
           \A d \in Call : answeredAt'[d] = answeredAt[d] \/ answeredAt'[d] <= now',
           NEW c, \A d \in Call \ {c} : user'[d].at \in {user[d].at, 0},
           c \in Call => user'[c].at \in {user[c].at, 0} \/ (user'[c].at = now + 1 /\ now < now')
    PROVE  Places'
<1>1. /\ user \in [Call -> UserRow] /\ now \in Nat /\ answeredAt \in [Call -> Nat]
    BY DEF Typed, TypeOK, UserRow
<1>2. \A d \in Call : user[d].at \in Nat /\ user'[d].at \in Nat
    BY <1>1 DEF UserRow
<1>3. \A d \in Call : answeredAt'[d] <= now'
    BY <1>1 DEF Places
<1>4. \A d \in Call : user'[d].at <= now'
    BY <1>1, <1>2 DEF Places
<1>5. ASSUME NEW d \in Call, NEW e \in Call, d # e, user'[d].at = user'[e].at PROVE user'[d].at = 0
    <2>1. CASE d # c /\ e # c
        BY <1>2, <1>5, <2>1 DEF Places
    <2>2. CASE d = c \/ e = c
        BY <1>1, <1>2, <1>5, <2>2 DEF Places
    <2> QED
        BY <2>1, <2>2
<1> QED
    BY <1>3, <1>4, <1>5 DEF Places

LEMMA PlacesNext == Typed /\ Marker /\ Awaited /\ Rows /\ Places /\ [Next]_vars => Places'
<1> SUFFICES ASSUME Typed, Marker, Awaited, Rows, Places, [Next]_vars
             PROVE  Places'
    OBVIOUS
<1>1. /\ user' \in [Call -> UserRow] /\ now \in Nat
    BY TypedNext DEF Typed, TypeOK, UserRow
<1>2. CASE Aside
    <2>1. \A d \in Call : user'[d].at \in {user[d].at, 0}
        BY <1>2 DEF Aside, RowStays
    <2>2. \A d \in Call : answeredAt'[d] = answeredAt[d] \/ answeredAt'[d] <= now'
        BY <1>2 DEF Aside, AnswerStays
    <2>3. now' \in Nat /\ now <= now'
        BY <1>2 DEF Aside
    <2> QED
        BY <1>1, <2>1, <2>2, <2>3, PlacesKept, TurnsAssumption DEF TurnsAssumption
<1>3. ASSUME NEW c \in Call, Asks(c) PROVE Places'
    BY <1>1, <1>3, PlacesKept DEF Asks
<1>4. ASSUME NEW c \in Call, Starts(c) PROVE Places'
    <2>1. \A d \in Call \ {c} : user'[d].at = user[d].at
        BY <1>4 DEF Starts
    <2>2. \A d \in Call : answeredAt'[d] = answeredAt[d] \/ answeredAt'[d] <= now'
        BY <1>4 DEF Starts
    <2>3. user'[c].at = user[c].at \/ (user'[c].at = now + 1 /\ now < now')
        <3>1. req[c].kind \in {"none", "post", "direct", "regenerate"}
            BY DEF Typed, TypeOK
        <3> QED
            BY <1>4, <3>1 DEF Starts, Rows, Row
    <2>4. now' \in Nat /\ now <= now'
        BY <1>4 DEF Starts
    <2> QED
        BY <1>1, <2>1, <2>2, <2>3, <2>4, PlacesKept
<1>5. ASSUME NEW c \in Call, Finds(c) PROVE Places'
    BY <1>5 DEF Finds, Places
<1> QED
    BY <1>2, <1>3, <1>4, <1>5, WhatStepsWrite

\* Of two messages of the Portal the one comes after the other.
Later(c, d) == req[c].kind = "post" /\ req[d].kind = "post" => user[c].at < user[d].at

\* The messages of the Portal wait and run in the order they were written.
InTurn ==
    /\ \A i, j \in 1..Len(chats) : i < j => Later(chats[i], chats[j])
    /\ \A i, j \in 1..Len(relay) : i < j => Later(relay[i], relay[j])
    /\ \A i \in 1..Len(chats), j \in 1..Len(relay) : Later(chats[i], relay[j])
    /\ \A c, d \in Call : Started(c) /\ step[d] \in Waits => Later(c, d)
    /\ \A d \in Call : step[d] = "sent" => \E i \in 1..Len(relay) : relay[i] = d

\* Who is in line or in the relay is not over yet.
LEMMA InLine ==
    ASSUME Typed
    PROVE  /\ chats \in Seq(Call) /\ relay \in Seq(Call)
           /\ Len(chats) \in Nat /\ Len(relay) \in Nat
           /\ \A i \in 1..Len(chats) : chats[i] \in Call /\ step[chats[i]] \in Running \cup {"queued"}
           /\ \A i \in 1..Len(relay) : relay[i] \in Call /\ step[relay[i]] = "sent"
<1>1. chats \in Seq(Call) /\ relay \in Seq(Call)
    BY DEF Typed, TypeOK
<1>2. /\ Len(chats) \in Nat /\ Len(relay) \in Nat
      /\ \A i \in 1..Len(chats) : chats[i] \in Call
      /\ \A i \in 1..Len(relay) : relay[i] \in Call
    BY <1>1
<1> QED
    BY <1>1, <1>2 DEF Typed, Line

LEMMA InTurnAside ==
    ASSUME Typed, Rows, InTurn, Aside, LineMoves
    PROVE  InTurn'
<1> DEFINE Stays(c) == step[c] # "done" \/ Started(c)
           P(c, d) == req'[c].kind = "post" /\ req'[d].kind = "post" => user'[c].at < user'[d].at
<1>1. ASSUME NEW c \in Call, NEW d \in Call, Stays(c), Stays(d), Later(c, d) PROVE P(c, d)
    BY <1>1 DEF Aside, RowStays, Later
<1>2. /\ \A i \in 1..Len(chats) : chats[i] \in Call /\ Stays(chats[i])
      /\ \A i \in 1..Len(relay) : relay[i] \in Call /\ Stays(relay[i])
    BY InLine DEF Running
<1>3. \A i, j \in 1..Len(chats) : i < j => P(chats[i], chats[j])
    BY <1>1, <1>2 DEF InTurn
<1>4. \A i, j \in 1..Len(relay) : i < j => P(relay[i], relay[j])
    BY <1>1, <1>2 DEF InTurn
<1>5. \A i \in 1..Len(chats), j \in 1..Len(relay) : P(chats[i], relay[j])
    BY <1>1, <1>2 DEF InTurn
<1>6. (\A c, d \in Call : Started(c) /\ step[d] \in Waits => Later(c, d))'
    <2> SUFFICES ASSUME NEW c \in Call, NEW d \in Call, Started(c)', step'[d] \in Waits PROVE P(c, d)
        BY DEF Later
    <2>1. Started(c) /\ step[d] \in Waits
        BY DEF Aside, RowStays, Started, Moves, Waits
    <2> QED
        BY <1>1, <2>1 DEF InTurn, Waits
<1>7. ASSUME NEW d \in Call, step'[d] = "sent" PROVE \E i \in 1..Len(relay) : relay[i] = d
    BY <1>7 DEF Aside, Moves, InTurn
<1> HIDE DEF P
<1>8. CASE UNCHANGED <<chats, relay>>
    <2>1. /\ \A i, j \in 1..Len(chats') : i < j => P(chats'[i], chats'[j])
          /\ \A i, j \in 1..Len(relay') : i < j => P(relay'[i], relay'[j])
          /\ \A i \in 1..Len(chats'), j \in 1..Len(relay') : P(chats'[i], relay'[j])
          /\ \A d \in Call : step'[d] = "sent" => \E i \in 1..Len(relay') : relay'[i] = d
        BY <1>3, <1>4, <1>5, <1>7, <1>8
    <2> QED
        BY <1>6, <2>1 DEF InTurn, Later, P
<1>9. CASE chats # <<>> /\ chats' = Tail(chats) /\ UNCHANGED relay
    <2>1. /\ Len(chats') \in Nat /\ Len(chats) = Len(chats') + 1
          /\ \A i \in 1..Len(chats') : chats'[i] = chats[i + 1]
        BY <1>9, InLine, First
    <2>2. /\ \A i, j \in 1..Len(chats') : i < j => P(chats'[i], chats'[j])
          /\ \A i \in 1..Len(chats'), j \in 1..Len(relay) : P(chats'[i], relay[j])
        BY <1>3, <1>5, <2>1
    <2>3. /\ \A i, j \in 1..Len(relay') : i < j => P(relay'[i], relay'[j])
          /\ \A i \in 1..Len(chats'), j \in 1..Len(relay') : P(chats'[i], relay'[j])
          /\ \A d \in Call : step'[d] = "sent" => \E i \in 1..Len(relay') : relay'[i] = d
        BY <1>4, <1>7, <1>9, <2>2
    <2> QED
        BY <1>6, <2>2, <2>3 DEF InTurn, Later, P
<1>10. CASE /\ relay # <<>> /\ relay' = Tail(relay) /\ step'[Head(relay)] # "sent"
            /\ chats' = chats \/ chats' = Append(chats, Head(relay))
    <2>1. /\ Len(relay') \in Nat /\ Len(relay) = Len(relay') + 1 /\ Head(relay) = relay[1]
          /\ \A i \in 1..Len(relay') : relay'[i] = relay[i + 1]
        BY <1>10, InLine, First
    <2>2. /\ \A i, j \in 1..Len(relay') : i < j => P(relay'[i], relay'[j])
          /\ \A j \in 1..Len(relay') : P(relay[1], relay'[j])
          /\ \A i \in 1..Len(chats) : P(chats[i], relay[1])
          /\ \A i \in 1..Len(chats), j \in 1..Len(relay') : P(chats[i], relay'[j])
        <3>1. 1 \in 1..Len(relay)
            BY <2>1
        <3>2. \A j \in 1..Len(relay') : j + 1 \in 1..Len(relay) /\ 1 < j + 1
            BY <2>1
        <3>3. \A i, j \in 1..Len(relay') : i < j => i + 1 < j + 1
            BY <2>1
        <3> QED
            BY <1>4, <1>5, <2>1, <3>1, <3>2, <3>3
    <2>3. ASSUME NEW d \in Call, step'[d] = "sent" PROVE \E i \in 1..Len(relay') : relay'[i] = d
        <3>1. PICK i \in 1..Len(relay) : relay[i] = d
            BY <1>7, <2>3
        <3>2. i # 1
            BY <1>10, <2>1, <2>3, <3>1
        <3>3. i - 1 \in 1..Len(relay') /\ (i - 1) + 1 = i
            BY <2>1, <3>1, <3>2
        <3> QED
            BY <2>1, <3>1, <3>3
    <2>4. /\ \A i, j \in 1..Len(chats') : i < j => P(chats'[i], chats'[j])
          /\ \A i \in 1..Len(chats'), j \in 1..Len(relay') : P(chats'[i], relay'[j])
        <3>1. CASE chats' = chats
            BY <1>3, <2>2, <3>1
        <3>2. CASE chats' = Append(chats, Head(relay))
            <4>1. /\ Len(chats) \in Nat /\ Len(chats') = Len(chats) + 1
                  /\ \A i \in 1..Len(chats) : chats'[i] = chats[i]
                  /\ chats'[Len(chats) + 1] = relay[1]
                BY <2>1, <3>2, InLine, Longer, First
            <4>2. \A i, j \in 1..Len(chats') : i < j => i \in 1..Len(chats) /\ (j \in 1..Len(chats) \/ j = Len(chats) + 1)
                BY <4>1
            <4>3. \A i \in 1..Len(chats') : i \in 1..Len(chats) \/ i = Len(chats) + 1
                BY <4>1
            <4> QED
                BY <1>3, <2>2, <4>1, <4>2, <4>3
        <3> QED
            BY <1>10, <3>1, <3>2
    <2> QED
        BY <1>6, <2>2, <2>3, <2>4 DEF InTurn, Later, P
<1>11. CASE relay' = <<>> /\ chats' \in {chats, <<>>} /\ \A d \in Call : step'[d] # "sent"
    <2>1. Len(relay') = 0 /\ (chats' = chats \/ Len(chats') = 0)
        BY <1>11
    <2>2. /\ \A i, j \in 1..Len(chats') : i < j => P(chats'[i], chats'[j])
          /\ \A i, j \in 1..Len(relay') : i < j => P(relay'[i], relay'[j])
          /\ \A i \in 1..Len(chats'), j \in 1..Len(relay') : P(chats'[i], relay'[j])
          /\ \A d \in Call : step'[d] = "sent" => \E i \in 1..Len(relay') : relay'[i] = d
        BY <1>3, <1>11, <2>1
    <2> QED
        BY <1>6, <2>2 DEF InTurn, Later, P
<1> QED
    BY <1>8, <1>9, <1>10, <1>11 DEF LineMoves

LEMMA InTurnAsks ==
    ASSUME Typed, Awaited, Rows, Places, InTurn, NEW c \in Call, Asks(c)
    PROVE  InTurn'
<1> DEFINE P(e, d) == req'[e].kind = "post" /\ req'[d].kind = "post" => user'[e].at < user'[d].at
<1>1. /\ step[c] = "new" /\ now \in Nat /\ ~Started(c) /\ user \in [Call -> UserRow]
    BY DEF Asks, Rows, Row, NoMessage, Started, Typed, TypeOK, UserRow
<1>2. /\ \A i \in 1..Len(chats) : chats[i] \in Call \ {c}
      /\ \A i \in 1..Len(relay) : relay[i] \in Call \ {c}
    BY <1>1, InLine DEF Running
<1>3. ASSUME NEW e \in Call \ {c}, NEW d \in Call \ {c}, Later(e, d) PROVE P(e, d)
    BY <1>3 DEF Asks, Later
<1>4. ASSUME NEW e \in Call \ {c} PROVE P(e, c)
    <2>1. user[e].at \in Nat
        BY <1>1 DEF UserRow
    <2> QED
        BY <1>1, <2>1 DEF Asks, Places
<1>5. /\ \A i, j \in 1..Len(chats) : i < j => P(chats[i], chats[j])
      /\ \A i, j \in 1..Len(relay) : i < j => P(relay[i], relay[j])
      /\ \A i \in 1..Len(chats), j \in 1..Len(relay) : P(chats[i], relay[j])
      /\ \A i \in 1..Len(chats) : P(chats[i], c)
      /\ \A i \in 1..Len(relay) : P(relay[i], c)
    BY <1>2, <1>3, <1>4 DEF InTurn
<1>6. (\A e, d \in Call : Started(e) /\ step[d] \in Waits => Later(e, d))'
    <2> SUFFICES ASSUME NEW e \in Call, NEW d \in Call, Started(e)', step'[d] \in Waits PROVE P(e, d)
        BY DEF Later
    <2>1. e # c /\ Started(e)
        BY <1>1 DEF Asks, Started
    <2>2. CASE d = c
        BY <1>4, <2>1, <2>2
    <2>3. CASE d # c
        <3>1. step[d] \in Waits
            BY <2>3 DEF Asks
        <3> QED
            BY <1>3, <2>1, <2>3, <3>1 DEF InTurn
    <2> QED
        BY <2>2, <2>3
<1>7. ASSUME NEW d \in Call, step'[d] = "sent" PROVE d = c \/ \E i \in 1..Len(relay) : relay[i] = d
    BY <1>7 DEF Asks, InTurn
<1>8. req'[c].kind = "direct" => \A d : P(c, d)
    OBVIOUS
<1>12. c = c /\ Len(chats) \in Nat /\ Len(relay) \in Nat
    BY InLine
<1> HIDE DEF P
<1>9. CASE chats' = chats /\ relay' = relay /\ step'[c] # "sent"
    <2>1. /\ \A i, j \in 1..Len(chats') : i < j => P(chats'[i], chats'[j])
          /\ \A i, j \in 1..Len(relay') : i < j => P(relay'[i], relay'[j])
          /\ \A i \in 1..Len(chats'), j \in 1..Len(relay') : P(chats'[i], relay'[j])
          /\ \A d \in Call : step'[d] = "sent" => \E i \in 1..Len(relay') : relay'[i] = d
        BY <1>5, <1>7, <1>9
    <2> QED
        BY <1>6, <2>1 DEF InTurn, Later, P
<1>10. CASE chats' = chats /\ relay' = Append(relay, c)
    <2>1. /\ Len(relay') = Len(relay) + 1
          /\ \A i \in 1..Len(relay) : relay'[i] = relay[i]
          /\ relay'[Len(relay) + 1] = c
        BY <1>10, InLine, Longer
    <2>2. \A i, j \in 1..Len(relay') : i < j => i \in 1..Len(relay) /\ (j \in 1..Len(relay) \/ j = Len(relay) + 1)
        BY <1>12, <2>1
    <2>3. \A i \in 1..Len(relay') : i \in 1..Len(relay) \/ i = Len(relay) + 1
        BY <1>12, <2>1
    <2>5. Len(relay) + 1 \in 1..Len(relay') /\ \A i \in 1..Len(relay) : i \in 1..Len(relay')
        BY <1>12, <2>1
    <2>4. /\ \A i, j \in 1..Len(relay') : i < j => P(relay'[i], relay'[j])
          /\ \A i \in 1..Len(chats'), j \in 1..Len(relay') : P(chats'[i], relay'[j])
          /\ \A i, j \in 1..Len(chats') : i < j => P(chats'[i], chats'[j])
          /\ \A d \in Call : step'[d] = "sent" => \E i \in 1..Len(relay') : relay'[i] = d
        BY <1>5, <1>7, <1>10, <2>1, <2>2, <2>3, <2>5
    <2> QED
        BY <1>6, <2>4 DEF InTurn, Later, P
<1>11. CASE req'[c].kind = "direct" /\ relay' = relay /\ chats' = Append(chats, c) /\ step'[c] # "sent"
    <2>1. /\ Len(chats') = Len(chats) + 1
          /\ \A i \in 1..Len(chats) : chats'[i] = chats[i]
          /\ chats'[Len(chats) + 1] = c
        BY <1>11, InLine, Longer
    <2>2. \A i, j \in 1..Len(chats') : i < j => i \in 1..Len(chats) /\ (j \in 1..Len(chats) \/ j = Len(chats) + 1)
        BY <1>12, <2>1
    <2>3. \A i \in 1..Len(chats') : i \in 1..Len(chats) \/ i = Len(chats) + 1
        BY <1>12, <2>1
    <2>4. /\ \A i, j \in 1..Len(chats') : i < j => P(chats'[i], chats'[j])
          /\ \A i \in 1..Len(chats'), j \in 1..Len(relay') : P(chats'[i], relay'[j])
          /\ \A i, j \in 1..Len(relay') : i < j => P(relay'[i], relay'[j])
          /\ \A d \in Call : step'[d] = "sent" => \E i \in 1..Len(relay') : relay'[i] = d
        BY <1>5, <1>7, <1>8, <1>11, <2>1, <2>2, <2>3
    <2> QED
        BY <1>6, <2>4 DEF InTurn, Later, P
<1>13. step'[c] = "sent" => relay' = Append(relay, c)
    BY DEF Asks
<1>14. relay # Append(relay, c)
    <2>1. Len(Append(relay, c)) = Len(relay) + 1
        BY InLine, Longer
    <2> QED
        BY <1>12, <2>1
<1> QED
    BY <1>9, <1>10, <1>11, <1>13, <1>14 DEF Asks

LEMMA InTurnStarts ==
    ASSUME Typed, Rows, InTurn, NEW c \in Call, Starts(c)
    PROVE  InTurn'
<1>1. ASSUME NEW e \in Call, NEW d \in Call, Later(e, d) PROVE Later(e, d)'
    BY <1>1 DEF Starts, Later
<1>2. \A e, d \in Call : Later(e, d) => Later(e, d)'
    BY <1>1
<1>3. (/\ \A i, j \in 1..Len(chats) : i < j => Later(chats[i], chats[j])
       /\ \A i, j \in 1..Len(relay) : i < j => Later(relay[i], relay[j])
       /\ \A i \in 1..Len(chats), j \in 1..Len(relay) : Later(chats[i], relay[j]))'
    BY <1>2, InLine DEF InTurn, Starts, Later
<1>4. ASSUME NEW e \in Call, NEW d \in Call, Started(e)', step'[d] \in Waits PROVE Later(e, d)'
    <2>1. d # c /\ step[d] \in Waits
        BY <1>4 DEF Starts, Waits
    <2>2. CASE e # c
        <3>1. Started(e)
            BY <1>4, <2>2 DEF Starts, Started
        <3> QED
            BY <1>1, <2>1, <3>1 DEF InTurn
    <2>3. CASE e = c
        <3>1. chats # <<>> /\ chats[1] = c /\ 1 \in 1..Len(chats)
            <4>1. chats # <<>> /\ Head(chats) = c
                BY DEF Starts, Chatting
            <4> QED
                BY <4>1, InLine, First
        <3>2. CASE step[d] = "sent"
            <4>1. PICK j \in 1..Len(relay) : relay[j] = d
                BY <3>2 DEF InTurn
            <4>2. Later(c, d)
                BY <3>1, <4>1 DEF InTurn
            <4> QED
                BY <1>1, <2>3, <4>2
        <3>3. CASE step[d] \in {"queued", "setup"}
            <4>1. PICK j \in 1..Len(chats) : chats[j] = d
                BY <3>3 DEF Typed, Line, Running
            <4>2. j # 1 /\ Len(chats) \in Nat
                BY <2>1, <3>1, <4>1, InLine
            <4>3. 1 < j
                BY <4>2
            <4>4. Later(c, d)
                BY <3>1, <4>1, <4>3 DEF InTurn
            <4> QED
                BY <1>1, <2>3, <4>4
        <3> QED
            BY <2>1, <3>2, <3>3 DEF Waits
    <2> QED
        BY <2>2, <2>3
<1>5. (\A d \in Call : step[d] = "sent" => \E i \in 1..Len(relay) : relay[i] = d)'
    BY DEF Starts, InTurn
<1> QED
    BY <1>3, <1>4, <1>5 DEF InTurn

LEMMA InTurnFinds ==
    ASSUME Typed, InTurn, NEW c \in Call, Finds(c)
    PROVE  InTurn'
<1>1. \A e \in Call : user'[e] = user[e] /\ req'[e].kind = req[e].kind
    BY DEF Finds
<1>2. \A e, d \in Call : Later(e, d)' <=> Later(e, d)
    BY <1>1 DEF Later
<1>3. (/\ \A i, j \in 1..Len(chats) : i < j => Later(chats[i], chats[j])
       /\ \A i, j \in 1..Len(relay) : i < j => Later(relay[i], relay[j])
       /\ \A i \in 1..Len(chats), j \in 1..Len(relay) : Later(chats[i], relay[j]))'
    <2>1. UNCHANGED <<chats, relay>>
        BY DEF Finds
    <2>2. \A i \in 1..Len(chats) : chats[i] \in Call
        BY InLine
    <2>3. \A i \in 1..Len(relay) : relay[i] \in Call
        BY InLine
    <2> DEFINE P(e, d) == req'[e].kind = "post" /\ req'[d].kind = "post" => user'[e].at < user'[d].at
    <2>4. \A e, d \in Call : Later(e, d) => P(e, d)
        BY <1>1 DEF Later
    <2> HIDE DEF P
    <2>5. /\ \A i, j \in 1..Len(chats) : i < j => P(chats[i], chats[j])
          /\ \A i, j \in 1..Len(relay) : i < j => P(relay[i], relay[j])
          /\ \A i \in 1..Len(chats), j \in 1..Len(relay) : P(chats[i], relay[j])
        BY <2>2, <2>3, <2>4 DEF InTurn
    <2>6. /\ \A i, j \in 1..Len(chats') : i < j => P(chats'[i], chats'[j])
          /\ \A i, j \in 1..Len(relay') : i < j => P(relay'[i], relay'[j])
          /\ \A i \in 1..Len(chats'), j \in 1..Len(relay') : P(chats'[i], relay'[j])
        BY <2>1, <2>5
    <2> QED
        BY <2>6 DEF Later, P
<1>4. (\A e, d \in Call : Started(e) /\ step[d] \in Waits => Later(e, d))'
    <2>1. \A d \in Call : step'[d] \in Waits => step[d] \in Waits
        BY DEF Finds, Waits
    <2>2. \A e \in Call : Started(e)' <=> Started(e)
        BY <1>1 DEF Started
    <2> QED
        BY <1>2, <2>1, <2>2 DEF InTurn
<1>5. (\A d \in Call : step[d] = "sent" => \E i \in 1..Len(relay) : relay[i] = d)'
    BY DEF Finds, InTurn
<1> QED
    BY <1>3, <1>4, <1>5 DEF InTurn

LEMMA InTurnNext == Typed /\ Marker /\ Awaited /\ Rows /\ Places /\ InTurn /\ [Next]_vars => InTurn'
BY WhatStepsWrite, InTurnAside, InTurnAsks, InTurnStarts, InTurnFinds

\* Turns are one after another: whose message was there before another turn started has its
\* answer before that turn, except that a direct request passes messages in the relay.
\* A regeneration is answered before any later turn, or it starts no more.
Serial ==
    /\ \A c, d \in Call :
           Started(c) /\ Started(d) /\ user[c].at < user[d].at /\ Answers(d)
           /\ (req[c].kind = "direct" \/ req[d].kind = "post")
           => Answers(c) /\ answeredAt[c] < answeredAt[d]
    /\ \A c, d \in Call :
           req[c].question # None /\ Started(d) /\ Answers(d)
           /\ user[req[c].question].at < user[d].at
           => /\ Answers(c) => answeredAt[c] < answeredAt[d]
              /\ step[c] # "storage"
              /\ active = c => Answers(c)

\* The marked turn is the only one on its way.
LEMMA Alone ==
    ASSUME Typed, Marker, NEW c \in Call, NEW d \in Call, active = d, step[c] \in Running
    PROVE  c = d
<1>1. up /\ Chatting(c)
    BY RunnerIsFirst, RunnerIsUp
<1>2. Chatting(d)
    BY <1>1, RunnerIsFirst DEF Marker, Marked, Running
<1> QED
    BY <1>1, <1>2 DEF Chatting

LEMMA SerialAside ==
    ASSUME Typed, Marker, Rows, Places, Serial, Aside, answeredAt' \in [Call -> Nat]
    PROVE  Serial'
<1>1. /\ answeredAt \in [Call -> Nat] /\ now \in Nat /\ active \in MaybeCall
    BY DEF Typed, TypeOK
<1>2. ASSUME NEW e \in Call
      PROVE  /\ Started(e)' <=> Started(e)
             /\ Started(e) => user'[e].at = user[e].at /\ (Answers(e) \/ active = e)
             /\ Answers(e) => Answers(e)' /\ answeredAt'[e] = answeredAt[e]
             /\ Answers(e)' => Answers(e) \/ (active = e /\ now < answeredAt'[e])
             /\ answeredAt[e] \in Nat /\ answeredAt'[e] \in Nat /\ answeredAt[e] <= now
             /\ step'[e] = "storage" => step[e] = "storage"
             /\ active' = e => active = e
    BY <1>1, TurnsAssumption DEF Rows, Row, Aside, RowStays, AnswerStays, Moves, Started, Places, TurnsAssumption
<1>3. UNCHANGED req
    BY DEF Aside
<1>4. ASSUME NEW c \in Call, NEW d \in Call, Started(c), Started(d), user[c].at < user[d].at, Answers(d)',
             req[c].kind = "direct" \/ req[d].kind = "post"
      PROVE  Answers(c)' /\ answeredAt'[c] < answeredAt'[d]
    <2>1. CASE Answers(d)
        BY <1>2, <1>4, <2>1 DEF Serial
    <2>2. CASE ~Answers(d)
        <3>1. c # d /\ now \in Nat
            BY <1>1, <1>4, <1>2 DEF Typed, TypeOK
        <3>2. active = d /\ now < answeredAt'[d]
            BY <1>2, <1>4, <2>2
        <3>3. Answers(c)
            BY <1>2, <1>4, <3>1, <3>2
        <3> QED
            BY <1>2, <3>1, <3>2, <3>3
    <2> QED
        BY <2>1, <2>2
<1>5. ASSUME NEW c \in Call, NEW d \in Call, req[c].question # None, Started(d), Answers(d)',
             user'[req[c].question].at < user[d].at
      PROVE  /\ Answers(c)' => answeredAt'[c] < answeredAt'[d]
             /\ step'[c] # "storage"
             /\ active' = c => Answers(c)'
    <2>1. req[c].question \in Call /\ Started(req[c].question) /\ req[c].kind = "regenerate"
        BY <1>5 DEF Rows, Question
    <2>2. c # d
        BY <1>5, <2>1 DEF Rows, Row
    <2>3. user[req[c].question].at < user[d].at
        BY <1>2, <1>5, <2>1
    <2>4. CASE Answers(d)
        BY <1>2, <1>5, <2>3, <2>4 DEF Serial
    <2>5. CASE ~Answers(d)
        <3>1. active = d /\ now < answeredAt'[d]
            BY <1>2, <1>5, <2>5
        <3>2. step[c] # "storage" /\ active # c
            BY <2>2, <3>1, Alone DEF Running
        <3>3. Answers(c)' => Answers(c)
            BY <1>2, <3>2
        <3>4. Answers(c) => answeredAt'[c] < answeredAt'[d]
            BY <1>1, <1>2, <3>1
        <3> QED
            BY <1>2, <3>2, <3>3, <3>4
    <2> QED
        BY <2>4, <2>5
<1>6. ASSUME NEW c \in Call, NEW d \in Call, Started(c)', Started(d)', user'[c].at < user'[d].at, Answers(d)',
             req'[c].kind = "direct" \/ req'[d].kind = "post"
      PROVE  Answers(c)' /\ answeredAt'[c] < answeredAt'[d]
    BY <1>2, <1>3, <1>4, <1>6
<1>7. ASSUME NEW c \in Call, NEW d \in Call, req'[c].question # None, Started(d)', Answers(d)',
             user'[req'[c].question].at < user'[d].at
      PROVE  /\ Answers(c)' => answeredAt'[c] < answeredAt'[d]
             /\ step'[c] # "storage"
             /\ active' = c => Answers(c)'
    BY <1>2, <1>3, <1>5, <1>7
<1> QED
    BY <1>6, <1>7 DEF Serial

LEMMA SerialAsks ==
    ASSUME Typed, Awaited, Rows, Serial, NEW m \in Call, Asks(m)
    PROVE  Serial'
<1>1. /\ ~Started(m) /\ ~Started(m)' /\ step[m] = "new" /\ ~Answers(m)
      /\ req'[m].question = None /\ step'[m] # "storage"
      /\ UNCHANGED <<answer, answeredAt, active>>
    BY DEF Asks, Rows, Row, NoMessage, Started, Awaited, Early, Answers
<1>2. ASSUME NEW e \in Call \ {m}
      PROVE  user'[e] = user[e] /\ req'[e] = req[e] /\ step'[e] = step[e]
    BY DEF Asks
<1>3. \A e \in Call : (Started(e)' <=> Started(e)) /\ (Answers(e)' <=> Answers(e))
    BY <1>1, <1>2 DEF Started, Answers
<1>4. ASSUME NEW c \in Call, NEW d \in Call, Started(c)', Started(d)', user'[c].at < user'[d].at, Answers(d)',
             req'[c].kind = "direct" \/ req'[d].kind = "post"
      PROVE  Answers(c)' /\ answeredAt'[c] < answeredAt'[d]
    BY <1>1, <1>2, <1>3, <1>4 DEF Serial
<1>5. ASSUME NEW c \in Call, NEW d \in Call, req'[c].question # None, Started(d)', Answers(d)',
             user'[req'[c].question].at < user'[d].at
      PROVE  /\ Answers(c)' => answeredAt'[c] < answeredAt'[d]
             /\ step'[c] # "storage"
             /\ active' = c => Answers(c)'
    <2>1. c # m /\ d # m /\ req[c].question # None
        BY <1>1, <1>2, <1>5
    <2>2. req[c].question \in Call \ {m}
        BY <1>1, <2>1 DEF Rows, Question
    <2> QED
        BY <1>1, <1>2, <1>3, <1>5, <2>1, <2>2 DEF Serial
<1> QED
    BY <1>4, <1>5 DEF Serial

LEMMA SerialStarts ==
    ASSUME Typed, Marker, Rows, Places, InTurn, Serial, NEW m \in Call, Starts(m),
           answeredAt' \in [Call -> Nat]
    PROVE  Serial'
<1>1. /\ answeredAt \in [Call -> Nat] /\ now \in Nat /\ user \in [Call -> UserRow]
    BY DEF Typed, TypeOK, UserRow
<1>2. /\ Row(m) /\ Question(m) /\ step[m] \in {"setup", "storage"} /\ active = None /\ active' = m
      /\ m # None /\ step'[m] \in {"call", "tail"} /\ UNCHANGED req /\ step[m] \in Running
    BY TurnsAssumption DEF Rows, Starts, TurnsAssumption, Running
<1>3. ~Started(m)
    BY <1>2 DEF Row, Waits
<1>4. ASSUME NEW e \in Call \ {m}
      PROVE  /\ user'[e] = user[e] /\ step'[e] = step[e] /\ (Started(e)' <=> Started(e))
             /\ (Answers(e)' <=> Answers(e)) /\ answeredAt'[e] = answeredAt[e]
             /\ Started(e) => Answers(e)
             /\ answeredAt[e] \in Nat /\ answeredAt[e] <= now /\ user[e].at \in Nat /\ user[e].at <= now
             /\ active' # e
    BY <1>1, <1>2, TurnsAssumption
       DEF Starts, Started, Answers, Rows, Row, Places, UserRow, TurnsAssumption
<1>5. Answers(m)' => now < answeredAt'[m] /\ answeredAt'[m] \in Nat
    BY DEF Starts
<1>6. ASSUME NEW d \in Call \ {m}, Started(d), Started(m)', req[m].kind = "direct" \/ req[d].kind = "post"
      PROVE  ~(user'[m].at < user[d].at)
    <2>1. req[m].kind \in {"none", "post", "direct", "regenerate"}
        BY DEF Typed, TypeOK
    <2>2. req[m].kind # "none"
        BY <1>2 DEF Row
    <2>3. CASE req[m].kind = "regenerate"
        BY <1>3, <1>6, <2>3 DEF Starts, Started
    <2>4. CASE req[m].kind = "direct"
        BY <1>1, <1>4, <2>4 DEF Starts
    <2>5. CASE req[m].kind = "post"
        <3>1. step[m] \in Waits
            BY <1>2, <2>5 DEF Question, Waits
        <3>2. user[d].at < user[m].at
            BY <1>6, <2>5, <3>1 DEF InTurn, Later
        <3>3. user'[m].at = user[m].at /\ user[m].at \in Nat
            BY <1>1, <2>5 DEF Starts, UserRow
        <3> QED
            BY <1>4, <3>2, <3>3
    <2> QED
        BY <2>1, <2>2, <2>3, <2>4, <2>5
<1>7. ASSUME NEW c \in Call, NEW d \in Call, Started(c)', Started(d)', user'[c].at < user'[d].at, Answers(d)',
             req'[c].kind = "direct" \/ req'[d].kind = "post"
      PROVE  Answers(c)' /\ answeredAt'[c] < answeredAt'[d]
    <2>1. CASE c # m /\ d # m
        BY <1>2, <1>4, <1>7, <2>1 DEF Serial
    <2>2. CASE c # m /\ d = m
        BY <1>1, <1>4, <1>5, <1>7, <2>2
    <2>3. CASE c = m /\ d # m
        BY <1>2, <1>4, <1>6, <1>7, <2>3
    <2>4. CASE c = m /\ d = m
        <3>1. user'[m].at \in Nat
            <4>1. req[m].kind \in {"none", "post", "direct", "regenerate"}
                BY DEF Typed, TypeOK
            <4> QED
                BY <1>1, <1>2, <4>1 DEF Starts, Row, UserRow
        <3> QED
            BY <1>7, <2>4, <3>1
    <2> QED
        BY <2>1, <2>2, <2>3, <2>4
<1>8. ASSUME NEW c \in Call, NEW d \in Call, req'[c].question # None, Started(d)', Answers(d)',
             user'[req'[c].question].at < user'[d].at
      PROVE  /\ Answers(c)' => answeredAt'[c] < answeredAt'[d]
             /\ step'[c] # "storage"
             /\ active' = c => Answers(c)'
    <2>1. /\ req[c].question \in Call /\ Started(req[c].question) /\ req[c].kind = "regenerate"
          /\ step[c] \in {"storage", "call", "agent", "tail", "done"}
        BY <1>2, <1>8 DEF Rows, Question
    <2>2. req[c].question # m
        BY <1>3, <2>1
    <2>3. d = m => req[m].kind # "regenerate"
        BY <1>3, <1>8 DEF Starts, Started
    <2>4. CASE c = m
        <3>1. d # m
            BY <2>1, <2>3, <2>4
        <3>2. step[m] = "storage"
            BY <1>2, <2>1, <2>4
        <3>3. user[req[m].question].at < user[d].at /\ Started(d) /\ Answers(d)
            BY <1>2, <1>4, <1>8, <2>1, <2>2, <2>4, <3>1
        <3> QED
            BY <1>2, <1>8, <2>4, <3>2, <3>3 DEF Serial
    <2>5. CASE c # m /\ d = m
        <3>1. step[c] # "storage"
            <4>1. step[c] = "storage" => Chatting(c)
                BY RunnerIsFirst DEF Running
            <4> QED
                BY <2>5, <4>1 DEF Starts, Chatting
        <3> QED
            BY <1>1, <1>4, <1>5, <1>8, <2>5, <3>1
    <2>6. CASE c # m /\ d # m
        BY <1>2, <1>4, <1>8, <2>1, <2>2, <2>6 DEF Serial
    <2> QED
        BY <2>4, <2>5, <2>6
<1> QED
    BY <1>7, <1>8 DEF Serial

LEMMA SerialFinds ==
    ASSUME Typed, Rows, Serial, NEW m \in Call, Finds(m)
    PROVE  Serial'
<1> DEFINE q == req'[m].question
<1>1. /\ UNCHANGED <<user, answeredAt, active>> /\ user \in [Call -> UserRow] /\ active = None
      /\ q \in Call /\ \A d \in Call : user[d].at <= user[q].at
      /\ \A d \in Call : /\ (Answers(d)' <=> Answers(d)) /\ (Started(d)' <=> Started(d))
                         /\ req'[d].kind = req[d].kind
      /\ \A d \in Call \ {m} : step'[d] = step[d] /\ req'[d] = req[d]
      /\ m # None
    BY TurnsAssumption DEF Finds, LastBefore, Started, Typed, TypeOK, UserRow, TurnsAssumption
<1>2. \A d \in Call : user[d].at \in Nat
    BY <1>1 DEF UserRow
<1>3. ASSUME NEW c \in Call, NEW d \in Call, Started(c)', Started(d)', user'[c].at < user'[d].at, Answers(d)',
             req'[c].kind = "direct" \/ req'[d].kind = "post"
      PROVE  Answers(c)' /\ answeredAt'[c] < answeredAt'[d]
    BY <1>1, <1>3 DEF Serial
<1>4. ASSUME NEW c \in Call, NEW d \in Call, req'[c].question # None, Started(d)', Answers(d)',
             user'[req'[c].question].at < user'[d].at
      PROVE  /\ Answers(c)' => answeredAt'[c] < answeredAt'[d]
             /\ step'[c] # "storage"
             /\ active' = c => Answers(c)'
    <2>1. c # m
        BY <1>1, <1>2, <1>4
    <2> QED
        BY <1>1, <1>4, <2>1 DEF Serial
<1> QED
    BY <1>3, <1>4 DEF Serial

LEMMA SerialNext ==
    Typed /\ Marker /\ Awaited /\ Rows /\ Places /\ InTurn /\ Serial /\ [Next]_vars => Serial'
BY TypedNext, WhatStepsWrite, SerialAside, SerialAsks, SerialStarts, SerialFinds
   DEF Typed, TypeOK

\* The regeneration that looks for its question finds it, or a direct request that passed it.
LEMMA FindsItsQuestion ==
    ASSUME Typed, Awaited, Rows, Places, Serial, NEW m \in Call, Finds(m)
    PROVE  LET t == req[m].target  q == req'[m].question
           IN  \/ q = QuestionOf(t)
               \/ req[q].kind = "direct" /\ req[QuestionOf(t)].kind = "post"
<1> DEFINE t == req[m].target
           q == req'[m].question
           u == QuestionOf(t)
<1>1. /\ t \in Call /\ Answers(t) /\ active = None /\ q \in Call /\ Started(q)
      /\ user[u].at <= user[q].at \/ u \notin Call
      /\ answeredAt[q] <= answeredAt[t]
      /\ user \in [Call -> UserRow] /\ answeredAt \in [Call -> Nat]
    BY DEF Finds, LastBefore, Rows, Row, Answers, Typed, TypeOK, UserRow
<1>2. u \in Call /\ Started(u)
    BY <1>1, QuestionStarted
<1> SUFFICES ASSUME q # u
             PROVE  req[q].kind = "direct" /\ req[u].kind = "post"
    OBVIOUS
<1>3. /\ user[u].at \in Nat /\ user[q].at \in Nat /\ user[u].at > 0
      /\ answeredAt[q] \in Nat /\ answeredAt[t] \in Nat
    BY <1>1, <1>2 DEF UserRow, Rows, Row
<1>4. user[u].at < user[q].at
    BY <1>1, <1>2, <1>3 DEF Places
<1>5. Answers(q)
    BY <1>1, TurnsAssumption DEF Rows, Row, TurnsAssumption
<1>6. CASE req[t].kind = "regenerate"
    <2>1. req[t].question # None /\ u = req[t].question
        BY <1>1, <1>6 DEF Rows, Row, Asked, QuestionOf
    <2> QED
        BY <1>1, <1>3, <1>4, <1>5, <2>1 DEF Serial
<1>7. CASE req[t].kind # "regenerate"
    <2>1. u = t
        BY <1>7 DEF QuestionOf
    <2>2. ~(req[t].kind = "direct" \/ req[q].kind = "post")
        BY <1>1, <1>2, <1>3, <1>4, <1>5, <2>1 DEF Serial
    <2>3. req[t].kind \in {"post", "direct"} /\ req[q].kind \in {"post", "direct"}
        BY <1>1, <1>2, <2>1 DEF Rows, Row
    <2> QED
        BY <2>1, <2>2, <2>3
<1> QED
    BY <1>6, <1>7

LEMMA RegeneratesNext ==
    /\ Typed /\ Marker /\ Awaited /\ Rows /\ Places /\ Serial
    /\ RegeneratesItsQuestion /\ [Next]_vars
    => RegeneratesItsQuestion'
<1> SUFFICES ASSUME Typed, Marker, Awaited, Rows, Places, Serial, RegeneratesItsQuestion, [Next]_vars
             PROVE  RegeneratesItsQuestion'
    OBVIOUS
<1>1. CASE Aside \/ \E m \in Call : Starts(m)
    BY <1>1 DEF Aside, Starts, RegeneratesItsQuestion, QuestionOf
<1> DEFINE N(t) == IF req'[t].kind = "regenerate" THEN req'[t].question ELSE t
<1>2. ASSUME \A c \in Call : req'[c].question # None =>
                 \/ req'[c].question = N(req'[c].target)
                 \/ req'[req'[c].question].kind = "direct" /\ req'[N(req'[c].target)].kind = "post"
      PROVE  RegeneratesItsQuestion'
    BY <1>2 DEF RegeneratesItsQuestion, QuestionOf
\* A call whose request is written now is neither target nor question of another.
<1>3. ASSUME NEW m \in Call, ~Answers(m), ~Started(m), \A d \in Call \ {m} : req'[d] = req[d],
             NEW c \in Call \ {m}, req'[c].question # None
      PROVE  \/ req'[c].question = N(req'[c].target)
             \/ req'[req'[c].question].kind = "direct" /\ req'[N(req'[c].target)].kind = "post"
    <2> DEFINE t == req[c].target
    <2>1. /\ req'[c] = req[c]
          /\ req[c].question \in Call \ {m} /\ t \in Call \ {m} /\ Answers(t)
        BY <1>3 DEF Rows, Question
    <2>2. QuestionOf(t) \in Call \ {m}
        BY <1>3, <2>1, QuestionStarted
    <2>3. N(t) = QuestionOf(t)
        BY <1>3, <2>1 DEF QuestionOf
    <2>4. \/ req[c].question = QuestionOf(t)
          \/ req[req[c].question].kind = "direct" /\ req[QuestionOf(t)].kind = "post"
        BY <1>3, <2>1 DEF RegeneratesItsQuestion
    <2> HIDE DEF N
    <2> QED
        BY <1>3, <2>1, <2>2, <2>3, <2>4
<1>4. ASSUME NEW m \in Call, Asks(m) PROVE RegeneratesItsQuestion'
    <2>1. /\ ~Answers(m) /\ ~Started(m) /\ req'[m].question = None
          /\ \A d \in Call \ {m} : req'[d] = req[d]
        BY <1>4 DEF Asks, Awaited, Early, Answers, Rows, Row, NoMessage, Started
    <2> HIDE DEF N
    <2> QED
        BY <1>2, <1>3, <2>1
<1>5. ASSUME NEW m \in Call, Finds(m) PROVE RegeneratesItsQuestion'
    <2> DEFINE t == req[m].target
               q == req'[m].question
    <2>1. /\ ~Answers(m) /\ ~Started(m) /\ step[m] = "setup" /\ req'[m].target = t
          /\ \A d \in Call \ {m} : req'[d] = req[d]
          /\ t \in Call /\ Answers(t) /\ q \in Call /\ Started(q)
        BY <1>5 DEF Finds, LastBefore, Awaited, Early, Answers, Rows, Row, Waits
    <2>2. t # m /\ q # m /\ QuestionOf(t) \in Call \ {m}
        BY <2>1, QuestionStarted
    <2>3. N(t) = QuestionOf(t)
        BY <2>1, <2>2 DEF QuestionOf
    <2>4. q = QuestionOf(t) \/ (req[q].kind = "direct" /\ req[QuestionOf(t)].kind = "post")
        BY <1>5, FindsItsQuestion
    <2> HIDE DEF N
    <2>5. q = N(req'[m].target) \/ (req'[q].kind = "direct" /\ req'[N(req'[m].target)].kind = "post")
        BY <2>1, <2>2, <2>3, <2>4
    <2> QED
        BY <1>2, <1>3, <2>1, <2>5
<1> QED
    BY <1>1, <1>4, <1>5, WhatStepsWrite

\* A regeneration asks the very question again that the answer it supersedes was given to,
\* for any number of calls that overlap in the Portal, the relay and the line, any limit and
\* any number of faults; only a direct request that passed a message in the relay can be
\* taken for the question (regenerateViaConversationLog).
THEOREM QuestionIsAskedAgain == Spec => []RegeneratesItsQuestion
<1> DEFINE Inv == /\ Typed /\ Marker /\ Awaited /\ Rows /\ Places /\ InTurn /\ Serial
                  /\ RegeneratesItsQuestion
<1>1. Init => Awaited /\ Rows /\ Places /\ InTurn /\ Serial /\ RegeneratesItsQuestion
    BY TurnsAssumption
       DEF Init, Awaited, Early, Rows, Row, Question, Asked, Started, Answers, Waits, Places, InTurn, Serial,
           RegeneratesItsQuestion, NoMessage, NoRequest, NoReply, TurnsAssumption
<1>2. Typed /\ Marker /\ Awaited /\ Rows /\ Places /\ InTurn /\ Serial /\ RegeneratesItsQuestion
      /\ [Next]_vars
      => Awaited' /\ Rows' /\ Places' /\ InTurn' /\ Serial' /\ RegeneratesItsQuestion'
    BY AwaitedNext, RowsNext, PlacesNext, InTurnNext, SerialNext, RegeneratesNext
<1> QED
    BY <1>1, <1>2, MarkerHolds, PTL DEF Spec
-----------------------------------------------------------------------------
(* Who waits *)

\* The calls in pendingChats that run themselves or will.
Leads(c) == step[c] \in Running \cup {"queued"}

\* Two requests of one idempotency key are never both in line: the second joins the
\* first, or waits for its end and is replayed (pendingChats, chatViaConversationLog).
OneCallPerKey ==
    \A c, d \in Call : Leads(c) /\ Leads(d) /\ req[c].key # None /\ req[c].key = req[d].key => c = d

\* Nobody is forgotten: whoever joined a call has one of the same key in line, what was
\* sent is in the relay, and a handler of the Portal that still waits for a reply has its
\* call with the relay or the runtime (outboundPending, pendingChats).
NobodyIsForgotten ==
    \A c \in Call :
        /\ step[c] = "joined" => \E d \in Call : Leads(d) /\ req[d].key = req[c].key
        /\ step[c] = "sent" => \E i \in 1..Len(relay) : relay[i] = c
        /\ c \in Waiting => step[c] \notin {"new", "done"}

Waited == OneCallPerKey /\ NobodyIsForgotten

\* A call in line goes on, and handlers stop waiting.
LEMMA WaitedStays ==
    ASSUME Waited, relay' = relay, \A d \in Call : d \in Waiting' => d \in Waiting,
           \A d \in Call : req'[d].key = req[d].key,
           \A d \in Call : step'[d] = step[d] \/ (Leads(d) /\ step'[d] \in Running)
    PROVE  Waited'
<1>1. \A d \in Call : Leads(d)' <=> Leads(d)
    BY DEF Leads
<1>2. OneCallPerKey'
    BY <1>1 DEF Waited, OneCallPerKey
<1>3. \A d \in Call : step'[d] \in {"joined", "sent", "new", "done"} => step'[d] = step[d]
    BY DEF Running
<1> QED
    BY <1>1, <1>2, <1>3 DEF Waited, NobodyIsForgotten

\* The call that has the lock is over; it and whoever joined it get the reply.
LEMMA WaitedEnds ==
    ASSUME Typed, Waited, NEW c \in Call, NEW r, Chatting(c), Leads(c), Ends(c, r), r # NoReply
    PROVE  Waited'
<1>1. step \in [Call -> Steps] /\ reply \in [Call -> Reply] /\ http \in [Call -> {"none", "waiting", "done"}]
    BY DEF Typed, TypeOK, Reply
<1>2. /\ \A d \in Call : step'[d] = IF d = c \/ d \in Joined(c) THEN "done" ELSE step[d]
      /\ req' = req /\ relay' = relay /\ http' = http
    BY <1>1 DEF Ends
<1>3. \A d \in Call : reply'[d] = IF d \in (Joined(c) \cup {c}) \cap Waiting THEN r ELSE reply[d]
    BY DEF Ends, Replies
<1>4. \A d \in Call : d \in Joined(c) <=> step[d] = "joined" /\ req[d].key = req[c].key
    BY DEF Joined, Present
<1>5. \A d \in Call : Leads(d)' <=> Leads(d) /\ d # c
    BY <1>2, <1>4 DEF Leads, Running
<1>6. OneCallPerKey'
    BY <1>2, <1>5 DEF Waited, OneCallPerKey
<1>7. \A d \in Call : d \in Waiting' => d \in Waiting /\ d # c /\ d \notin Joined(c)
    BY <1>2, <1>3 DEF Waiting
<1>8. ASSUME NEW d \in Call, step'[d] = "joined"
      PROVE  \E e \in Call : Leads(e)' /\ req'[e].key = req'[d].key
    <2>1. step[d] = "joined" /\ req[d].key # req[c].key
        BY <1>2, <1>4, <1>8
    <2>2. PICK e \in Call : Leads(e) /\ req[e].key = req[d].key
        BY <2>1 DEF Waited, NobodyIsForgotten
    <2> QED
        BY <1>2, <1>5, <2>1, <2>2
<1>9. \A d \in Call : /\ step'[d] = "sent" => \E i \in 1..Len(relay') : relay'[i] = d
                      /\ d \in Waiting' => step'[d] \notin {"new", "done"}
    BY <1>2, <1>7 DEF Waited, NobodyIsForgotten
<1> QED
    BY <1>6, <1>8, <1>9 DEF Waited, NobodyIsForgotten

\* A call comes to the runtime, from outside or as the first out of the relay.
LEMMA WaitedEnters ==
    ASSUME Typed, Waited, NEW c \in Call, Comes(c), Enters(c, req'[c].key),
           req' \in [Call -> [kind : {"none", "post", "direct", "regenerate"}, key : MaybeCall,
                              target : MaybeCall, question : MaybeCall]],
           \A d \in Call \ {c} : req'[d] = req[d],
           \A d \in Call \ {c} : d \in Waiting' => d \in Waiting
    PROVE  Waited'
<1> DEFINE k == req'[c].key
<1>1. step \in [Call -> Steps] /\ relay \in Seq(Call)
    BY DEF Typed, TypeOK
<1>2. PICK s \in {"joined", "queued"} : step' = [step EXCEPT ![c] = s] /\ (s = "queued" <=> Leader(k) = {})
    BY DEF Enters, Goes
<1>3. step'[c] = s /\ \A d \in Call \ {c} : step'[d] = step[d]
    BY <1>1, <1>2
<1>4. step[c] \in {"new", "sent"}
    BY <1>3, LeavesRelay
<1>5. \A d \in Call : Leader(k) = {} /\ Leads(d) /\ k # None => req[d].key # k
    BY DEF Leader, Present, Leads, Running
<1>6. \A d \in Call : Leads(d)' <=> \/ d # c /\ Leads(d)
                                    \/ d = c /\ s = "queued"
    BY <1>3 DEF Leads, Running
<1>7. OneCallPerKey'
    BY <1>2, <1>5, <1>6 DEF Waited, OneCallPerKey
<1>8. ASSUME NEW d \in Call, step'[d] = "joined"
      PROVE  \E e \in Call : Leads(e)' /\ req'[e].key = req'[d].key
    <2>1. CASE d = c
        <3>1. PICK e \in Leader(k) : e \in Call
            BY <1>2, <1>3, <1>8, <2>1 DEF Leader, Present
        <3>2. e # c \/ step[c] \notin {"new", "sent"}
            BY <3>1 DEF Leader, Present
        <3>3. e # c /\ req[e].key = k /\ step[e] \notin {"new", "sent", "done"}
            BY <1>4, <3>1, <3>2 DEF Leader, Present
        <3>4. Leads(e) \/ step[e] = "joined"
            BY <1>1, <3>1, <3>3 DEF Leads, Steps, Running
        <3>5. PICK f \in Call : Leads(f) /\ req[f].key = k
            BY <3>1, <3>3, <3>4 DEF Waited, NobodyIsForgotten
        <3>6. f # c
            BY <1>4, <3>5 DEF Leads, Running
        <3> QED
            BY <1>6, <2>1, <3>5, <3>6
    <2>2. CASE d # c
        <3>1. step[d] = "joined"
            BY <1>3, <1>8, <2>2
        <3>2. PICK e \in Call : Leads(e) /\ req[e].key = req[d].key
            BY <3>1 DEF Waited, NobodyIsForgotten
        <3>3. e # c
            BY <1>4, <3>2 DEF Leads, Running
        <3> QED
            BY <1>6, <2>2, <3>2, <3>3
    <2> QED
        BY <2>1, <2>2
<1>9. ASSUME NEW d \in Call, step'[d] = "sent" PROVE \E i \in 1..Len(relay') : relay'[i] = d
    <2>1. d # c /\ step[d] = "sent"
        BY <1>2, <1>3, <1>9
    <2>2. PICK i \in 1..Len(relay) : relay[i] = d
        BY <2>1 DEF Waited, NobodyIsForgotten
    <2>3. CASE relay' = relay
        BY <2>2, <2>3
    <2>4. CASE relay # <<>> /\ c = Head(relay) /\ relay' = Tail(relay)
        <3>1. /\ c = relay[1] /\ Len(relay) \in Nat \ {0} /\ Len(relay') = Len(relay) - 1
              /\ \A j \in 1..Len(relay') : relay'[j] = relay[j + 1]
            BY <1>1, <2>4, First
        <3>2. i # 1
            BY <2>1, <2>2, <3>1
        <3>3. i - 1 \in 1..Len(relay') /\ (i - 1) + 1 = i
            BY <3>1, <3>2
        <3> QED
            BY <2>2, <3>1, <3>3
    <2> QED
        BY <2>3, <2>4 DEF Comes
<1>10. \A d \in Call : d \in Waiting' => step'[d] \notin {"new", "done"}
    BY <1>3 DEF Waited, NobodyIsForgotten
<1> QED
    BY <1>7, <1>8, <1>9, <1>10 DEF Waited, NobodyIsForgotten

\* The Portal sends a request, or finds nobody there and knows it.
LEMMA WaitedSends ==
    ASSUME Typed, Waited, NEW c \in Call, step[c] = "new", Sends(c),
           \A d \in Call \ {c} : req'[d] = req[d] /\ http'[d] = http[d]
    PROVE  Waited'
<1>1. step \in [Call -> Steps] /\ relay \in Seq(Call) /\ reply \in [Call -> Reply]
    BY DEF Typed, TypeOK, Reply
<1>2. step' = [step EXCEPT ![c] = IF up THEN "sent" ELSE "done"]
    BY DEF Sends, Goes
<1>3. /\ \A d \in Call \ {c} : step'[d] = step[d] /\ reply'[d] = reply[d]
      /\ step'[c] = IF up THEN "sent" ELSE "done"
    BY <1>1, <1>2 DEF Sends
<1>4. \A d \in Call : Leads(d)' <=> Leads(d) /\ d # c
    BY <1>3 DEF Leads, Running
<1>5. OneCallPerKey'
    BY <1>4 DEF Waited, OneCallPerKey
<1>6. \A d \in Call : Leads(d) => d # c
    BY DEF Leads, Running
<1>7. \A d \in Call : step'[d] = "joined" => \E e \in Call : Leads(e)' /\ req'[e].key = req'[d].key
    BY <1>3, <1>4, <1>6 DEF Waited, NobodyIsForgotten
<1>8. CASE up
    <2>1. /\ Len(relay) \in Nat /\ Len(relay') = Len(relay) + 1
          /\ \A i \in 1..Len(relay) : relay'[i] = relay[i]
          /\ relay'[Len(relay) + 1] = c
        BY <1>1, <1>8, Longer DEF Sends
    <2>2. \A d \in Call : step'[d] = "sent" => \E i \in 1..Len(relay') : relay'[i] = d
        <3>1. Len(relay) + 1 \in 1..Len(relay')
            BY <2>1
        <3>2. \A d \in Call \ {c} : step'[d] = "sent" => \E i \in 1..Len(relay) : relay[i] = d
            BY <1>3 DEF Waited, NobodyIsForgotten
        <3>3. \A i \in 1..Len(relay) : i \in 1..Len(relay')
            BY <2>1
        <3> QED
            BY <2>1, <3>1, <3>2, <3>3
    <2>3. \A d \in Call : d \in Waiting' => step'[d] \notin {"new", "done"}
        BY <1>3, <1>8 DEF Waited, NobodyIsForgotten, Waiting
    <2> QED
        BY <1>5, <1>7, <2>2, <2>3 DEF Waited, NobodyIsForgotten
<1>9. CASE ~up
    <2>1. relay' = relay /\ reply'[c] = Error /\ Error # NoReply
        BY <1>1, <1>9 DEF Sends, Error, NoReply
    <2>2. \A d \in Call : step'[d] = "sent" => \E i \in 1..Len(relay') : relay'[i] = d
        BY <1>3, <1>9, <2>1 DEF Waited, NobodyIsForgotten
    <2>3. \A d \in Call : d \in Waiting' => step'[d] \notin {"new", "done"}
        BY <1>3, <2>1 DEF Waited, NobodyIsForgotten, Waiting
    <2> QED
        BY <1>5, <1>7, <2>2, <2>3 DEF Waited, NobodyIsForgotten
<1> QED
    BY <1>8, <1>9

LEMMA WaitedRequest ==
    ASSUME Typed, Waited, NEW c \in Call, Request(c)
    PROVE  Waited'
<1>1. /\ http \in [Call -> {"none", "waiting", "done"}]
      /\ req \in [Call -> [kind : {"none", "post", "direct", "regenerate"}, key : MaybeCall,
                           target : MaybeCall, question : MaybeCall]]
    BY DEF Typed, TypeOK
<1>2. ASSUME NEW k, Post(c, k) PROVE Waited'
    <2>1. step[c] = "new" /\ Sends(c) /\ \A d \in Call \ {c} : req'[d] = req[d] /\ http'[d] = http[d]
        BY <1>1, <1>2 DEF Post
    <2> QED
        BY <2>1, WaitedSends
<1>3. ASSUME NEW t, AskRegenerate(c, t) PROVE Waited'
    <2>1. step[c] = "new" /\ Sends(c) /\ \A d \in Call \ {c} : req'[d] = req[d] /\ http'[d] = http[d]
        BY <1>1, <1>3 DEF AskRegenerate
    <2> QED
        BY <2>1, WaitedSends
<1>4. ASSUME NEW k \in KeyFor(c), PostDirect(c, k) PROVE Waited'
    <2>1. k \in MaybeCall
        BY <1>1, <1>4 DEF KeyFor, MaybeCall
    <2>2. /\ step[c] = "new" /\ Enters(c, k) /\ relay' = relay /\ http' = http /\ reply' = reply
          /\ req' = [req EXCEPT ![c] = [NoRequest EXCEPT !.kind = "direct", !.key = k]]
        BY <1>4 DEF PostDirect, portal
    <2>3. /\ req'[c].key = k /\ \A d \in Call \ {c} : req'[d] = req[d]
          /\ req' \in [Call -> [kind : {"none", "post", "direct", "regenerate"}, key : MaybeCall,
                                target : MaybeCall, question : MaybeCall]]
        BY <1>1, <2>1, <2>2 DEF NoRequest, MaybeCall
    <2>4. Comes(c) /\ \A d \in Call \ {c} : d \in Waiting' => d \in Waiting
        BY <2>2 DEF Comes, Waiting
    <2> QED
        BY <2>2, <2>3, <2>4, WaitedEnters
<1> QED
    BY <1>2, <1>3, <1>4 DEF Request

LEMMA WaitedReceive ==
    ASSUME Typed, Waited, NEW c \in Call, Receive(c)
    PROVE  Waited'
<1>1. /\ step \in [Call -> Steps] /\ relay \in Seq(Call) /\ reply \in [Call -> Reply]
      /\ req \in [Call -> [kind : {"none", "post", "direct", "regenerate"}, key : MaybeCall,
                           target : MaybeCall, question : MaybeCall]]
    BY DEF Typed, TypeOK, Reply
<1>2. relay # <<>> /\ c = Head(relay) /\ relay' = Tail(relay) /\ req' = req /\ http' = http
    BY DEF Receive
<1>3. CASE Admitted
    <2>1. Enters(c, req'[c].key) /\ reply' = reply
        BY <1>2, <1>3 DEF Receive
    <2>2. Comes(c) /\ \A d \in Call : d \in Waiting' => d \in Waiting
        BY <1>2, <2>1 DEF Comes, Waiting
    <2> QED
        BY <1>1, <1>2, <2>1, <2>2, WaitedEnters
<1>4. CASE ~Admitted
    <2>1. /\ step' = [step EXCEPT ![c] = "done"] /\ Replies({c}, Error)
        BY <1>4 DEF Receive, Goes
    <2>2. step'[c] = "done" /\ \A d \in Call \ {c} : step'[d] = step[d]
        BY <1>1, <2>1
    <2>3. \A d \in Call : d \in Waiting' => d \in Waiting /\ d # c
        BY <1>2, <2>1 DEF Replies, Waiting, Error, NoReply
    <2>4. /\ c = relay[1] /\ Len(relay) \in Nat \ {0} /\ Len(relay') = Len(relay) - 1
          /\ \A j \in 1..Len(relay') : relay'[j] = relay[j + 1]
        BY <1>1, <1>2, First
    <2>5. step[c] = "sent"
        <3>1. 1 \in 1..Len(relay)
            BY <2>4
        <3> QED
            BY <2>4, <3>1 DEF Typed, Line
    <2>6. \A d \in Call : Leads(d)' <=> Leads(d)
        BY <2>2, <2>5 DEF Leads, Running
    <2>7. OneCallPerKey'
        BY <1>2, <2>6 DEF Waited, OneCallPerKey
    <2>8. \A d \in Call : step'[d] = "joined" => \E e \in Call : Leads(e)' /\ req'[e].key = req'[d].key
        BY <1>2, <2>2, <2>6 DEF Waited, NobodyIsForgotten
    <2>9. ASSUME NEW d \in Call, step'[d] = "sent" PROVE \E i \in 1..Len(relay') : relay'[i] = d
        <3>1. d # c /\ step[d] = "sent"
            BY <2>2, <2>9
        <3>2. PICK i \in 1..Len(relay) : relay[i] = d
            BY <3>1 DEF Waited, NobodyIsForgotten
        <3>3. i # 1
            BY <3>1, <3>2, <2>4
        <3>4. i - 1 \in 1..Len(relay') /\ (i - 1) + 1 = i
            BY <2>4, <3>3
        <3> QED
            BY <2>4, <3>2, <3>4
    <2>10. \A d \in Call : d \in Waiting' => step'[d] \notin {"new", "done"}
        BY <2>2, <2>3 DEF Waited, NobodyIsForgotten
    <2> QED
        BY <2>7, <2>8, <2>9, <2>10 DEF Waited, NobodyIsForgotten
<1> QED
    BY <1>3, <1>4

LEMMA WaitedTurn ==
    ASSUME Typed, Waited, NEW c \in Call, Turn(c)
    PROVE  Waited'
<1>1. /\ step \in [Call -> Steps] /\ answer \in [Call -> Status]
      /\ req \in [Call -> [kind : {"none", "post", "direct", "regenerate"}, key : MaybeCall,
                           target : MaybeCall, question : MaybeCall]]
    BY DEF Typed, TypeOK
<1>2. ASSUME step[c] \in Running PROVE Chatting(c) /\ Leads(c)
    BY <1>2, RunnerIsFirst DEF Leads
<1>3. ASSUME HasLock(c) PROVE Chatting(c) /\ Leads(c)
    BY <1>3 DEF HasLock, Leads
<1>4. ASSUME NEW s \in Running, Leads(c), UNCHANGED step \/ Goes(c, s), UNCHANGED portal,
             \A d \in Call : req'[d].key = req[d].key
      PROVE  Waited'
    <2>1. \A d \in Call : step'[d] = step[d] \/ (Leads(d) /\ step'[d] \in Running)
        BY <1>1, <1>4 DEF Goes
    <2>2. relay' = relay /\ Waiting' = Waiting
        BY <1>4 DEF portal, Waiting
    <2> QED
        BY <1>4, <2>1, <2>2, WaitedStays
<1>5. CASE Begin(c)
    BY <1>3, <1>4, <1>5 DEF Begin, Running
<1>6. CASE Replay(c)
    <2>1. PICK t \in Replayable(c) : Ends(c, [turn |-> t, status |-> answer[t]])
        BY <1>6 DEF Replay
    <2>2. answer[t] # "none"
        BY DEF Replayable
    <2>3. [turn |-> t, status |-> answer[t]] # NoReply
        BY <2>2 DEF NoReply
    <2> QED
        BY <1>3, <1>6, <2>1, <2>3, WaitedEnds DEF Replay
<1>7. CASE SetupFails(c) \/ RefuseRegenerate(c)
    <2>1. Ends(c, Error) /\ step[c] \in Running /\ Error # NoReply
        BY <1>7 DEF SetupFails, RefuseRegenerate, InRegenerate, Running, Error, NoReply
    <2> QED
        BY <1>2, <2>1, WaitedEnds
<1>8. CASE Supersede(c)
    <2>1. step[c] \in Running /\ Goes(c, "storage") /\ UNCHANGED portal /\ "storage" \in Running
        BY <1>8 DEF Supersede, InRegenerate, Running
    <2>2. \A d \in Call : req'[d].key = req[d].key
        BY <1>1, <1>8 DEF Supersede
    <2> QED
        BY <1>2, <1>4, <2>1, <2>2
<1>9. CASE Start(c) \/ StartCancelled(c)
    <2>1. step[c] \in Running /\ (Goes(c, "call") \/ Goes(c, "tail")) /\ UNCHANGED <<portal, req>>
        BY <1>9 DEF Start, StartCancelled, Marks, Startable, Running
    <2> QED
        BY <1>2, <1>4, <2>1 DEF Running
<1>10. CASE AgentStarts(c)
    BY <1>2, <1>4, <1>10 DEF AgentStarts, Running
<1>11. CASE AgentBusy(c) \/ AgentAnswers(c) \/ AgentFails(c) \/ Deadline(c)
    <2>1. step[c] \in Running /\ UNCHANGED <<portal, req>>
        BY <1>11 DEF AgentBusy, AgentAnswers, AgentFails, Deadline, Running
    <2>2. UNCHANGED step \/ Goes(c, "call") \/ Goes(c, "tail")
        BY <1>11 DEF AgentBusy, AgentAnswers, AgentFails, Deadline, Persists
    <2> QED
        BY <1>2, <1>4, <2>1, <2>2 DEF Running
<1>12. CASE Finish(c)
    <2>1. Ends(c, [turn |-> c, status |-> answer[c]]) /\ step[c] \in Running
        BY <1>12 DEF Finish, Running
    <2>2. [turn |-> c, status |-> answer[c]] # NoReply
        BY TurnsAssumption DEF NoReply, TurnsAssumption
    <2> QED
        BY <1>2, <2>1, <2>2, WaitedEnds
<1> QED
    BY <1>5, <1>6, <1>7, <1>8, <1>9, <1>10, <1>11, <1>12 DEF Turn

\* Lost connections and deaths of the runtime: everyone who waits is told.
LEMMA WaitedFault ==
    ASSUME Typed, Waited, Disconnect \/ Crash
    PROVE  Waited'
<1>1. step \in [Call -> Steps] /\ reply \in [Call -> Reply]
    BY DEF Typed, TypeOK, Reply
<1>2. \A d \in Call : d \notin Waiting'
    BY DEF Disconnect, Crash, Closed, Replies, Waiting, Error, NoReply
<1>3. req' = req
    BY DEF Disconnect, Crash
<1>4. \A d \in Call : step'[d] = "done" \/ (step'[d] = step[d] /\ step[d] # "sent" /\ Disconnect)
                      \/ (step'[d] = "new" /\ Crash)
    BY <1>1 DEF Disconnect, Crash, Present, Steps
<1>5. CASE Crash
    BY <1>2, <1>4, <1>5 DEF Waited, OneCallPerKey, NobodyIsForgotten, Leads, Running, Disconnect, Crash
<1>6. CASE Disconnect
    <2>1. \A d \in Call : step'[d] = IF step[d] = "sent" THEN "done" ELSE step[d]
        BY <1>1, <1>6 DEF Disconnect
    <2>2. \A d \in Call : Leads(d)' <=> Leads(d)
        BY <2>1 DEF Leads, Running
    <2> QED
        BY <1>2, <1>3, <2>1, <2>2 DEF Waited, OneCallPerKey, NobodyIsForgotten
<1> QED
    BY <1>5, <1>6

LEMMA WaitedNext == Typed /\ Waited /\ [Next]_vars => Waited'
<1> SUFFICES ASSUME Typed, Waited, [Next]_vars PROVE Waited'
    OBVIOUS
<1>1. ASSUME NEW c \in Call, Accept(c) \/ TakesError(c) \/ TimesOut(c) PROVE Waited'
    <2>1. /\ http' = [http EXCEPT ![c] = "done"] /\ reply' = [reply EXCEPT ![c] = NoReply]
          /\ UNCHANGED runtime /\ relay' = relay
        BY <1>1 DEF Accept, TakesError, TimesOut, GivesUp
    <2>2. http \in [Call -> {"none", "waiting", "done"}] /\ reply \in [Call -> Reply]
        BY DEF Typed, TypeOK, Reply
    <2>3. \A d \in Call : d \in Waiting' => d \in Waiting
        BY <2>1, <2>2 DEF Waiting
    <2> QED
        BY <2>1, <2>3, WaitedStays DEF runtime
<1>2. ASSUME NEW c \in Call, Cancel(c) \/ Publish(c) PROVE Waited'
    <2>1. UNCHANGED <<step, req, portal>>
        BY <1>2 DEF Cancel, Publish
    <2> QED
        BY <2>1, WaitedStays DEF portal, Waiting
<1>3. CASE AgentComesBack \/ Restart \/ UNCHANGED vars
    <2>1. UNCHANGED <<step, req, portal>>
        BY <1>3 DEF AgentComesBack, Restart, vars, runtime
    <2> QED
        BY <2>1, WaitedStays DEF portal, Waiting
<1> QED
    BY <1>1, <1>2, <1>3, WaitedRequest, WaitedReceive, WaitedTurn, WaitedFault DEF Next

LEMMA WaitedHolds == Spec => [](Typed /\ Waited)
<1>1. Init => Typed /\ Waited
    BY TypedInit DEF Init, Waited, OneCallPerKey, NobodyIsForgotten, Leads, Running, Waiting
<1>2. Typed /\ Waited /\ [Next]_vars => Typed' /\ Waited'
    BY TypedNext, WaitedNext
<1> QED
    BY <1>1, <1>2, PTL DEF Spec

\* Of the pending calls of an idempotency key no more than one has a place in line; the
\* next theorem says that the others wait for it (pendingChats of chatViaConversationLog),
\* and StoredKeysRunOnce what happens after that one is over.
THEOREM KeysAreShared == Spec => []OneCallPerKey
<1> QED
    BY WaitedHolds, PTL DEF Waited

\* The part of QueueDrains that needs no fairness: nobody waits for what is not there.
\* Calls that joined another, requests that were sent and the waiting HTTP handlers of the
\* Portal always have the call they wait for, through every end, refusal, lost connection
\* and death of the runtime.
THEOREM NobodyWaitsForNothing == Spec => []NobodyIsForgotten
<1> QED
    BY WaitedHolds, PTL DEF Waited
=============================================================================
