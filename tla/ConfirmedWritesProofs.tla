------------------------ MODULE ConfirmedWritesProofs ------------------------
(***************************************************************************)
(* Theorems about ConfirmedWrites, for any confirmations, calls, batches   *)
(* and candidates, any lifetime of a confirmation and any mix of calls.    *)
(* The invariant is built in layers: types, locks, the user's approval,    *)
(* the consumption, repeated writes; to them come the two documents of a   *)
(* write, and the portfolio as its abstract book.                          *)
(***************************************************************************)
EXTENDS ConfirmedWrites, TLAPS

-----------------------------------------------------------------------------
(* Types *)

Op(k) == conf[Target[k]].op

\* What a call has read is of the document its next step writes.
SeenFits ==
    \A k \in Call : /\ step[k] = "replace" => seen[k] \in Portfolio
                    /\ step[k] \in {"schedules", "notification"} => seen[k] \in Prefs
                    /\ step[k] \in {"patch", "decide"} => seen[k] \in Strategy

\* The step of a call is one of the operation of its confirmation.
StepFits ==
    \A k \in Call : /\ step[k] \in {"plan", "replace"} => Op(k) = "portfolio"
                    /\ step[k] = "list" => Op(k) = "watchlist"
                    /\ step[k] = "insert" => Op(k) = "rule"
                    /\ step[k] \in {"read", "schedules", "notification"} => Op(k) = "preferences"
                    /\ step[k] \in {"load", "patch", "decide"} => Op(k) = "method"

\* A call that has begun passes a registered draft; it has not begun its operation before
\* it holds its locks, and leaves it before it releases them.
PhaseFits ==
    \A k \in Call : /\ phase[k] # "acquiring" \/ holding[k] # {} => conf[Target[k]].status # "none"
                    /\ phase[k] = "acquiring" => step[k] = "check"
                    /\ phase[k] \in {"releasing", "ended"} => step[k] = "left"

DraftFits ==
    \A c \in Conf : /\ conf[c].status = "none" => conf[c] = NoConf
                    /\ conf[c].status # "none" =>
                          /\ conf[c].op \in Operation
                          /\ conf[c].op = "watchlist" => conf[c].body \in Batch
                          /\ conf[c].op = "method" => conf[c].body \in Candidate

Typed == TypeOK /\ SeenFits /\ StepFits /\ PhaseFits /\ DraftFits

LEMMA TypedInit == Init => Typed
<1> SUFFICES ASSUME Init PROVE Typed
    OBVIOUS
<1>1. TypeOK
    <2>1. 0 \in Time /\ 1 \in Time /\ FirstRevision \in Time
        BY Instance DEF Instance, Time
    <2>2. NoConf \in Draft
        BY <2>1 DEF NoConf, Draft
    <2>3. conf \in [Conf -> Draft]
        BY <2>2 DEF Init
    <2>4. portfolio \in Portfolio /\ prefs \in Prefs /\ strategy \in Strategy
        BY <2>1 DEF Init, Portfolio, Prefs, Strategy
    <2>5. said \in [at : Time, explicit : BOOLEAN]
        BY <2>1 DEF Init
    <2>6. /\ holding \in [Call -> SUBSET Key] /\ step \in [Call -> Steps]
          /\ phase \in [Call -> {"acquiring", "operating", "releasing", "ended"}]
        BY DEF Init, Steps, Mutex!MutexInit
    <2> QED
        BY <2>1, <2>3, <2>4, <2>5, <2>6 DEF Init, TypeOK
<1>2. SeenFits /\ StepFits /\ PhaseFits /\ DraftFits
    BY Instance DEF Init, Instance, SeenFits, StepFits, PhaseFits, DraftFits, NoConf,
       Mutex!MutexInit
<1> QED
    BY <1>1, <1>2 DEF Typed

\* The status of a registered draft changes, and nothing else of it.
LEMMA StatusType ==
    ASSUME Typed, NEW c \in Conf, NEW s \in {"confirmed", "expired"}, conf[c].status # "none",
           conf' = [conf EXCEPT ![c].status = s]
    PROVE  /\ conf' \in [Conf -> Draft] /\ DraftFits'
           /\ conf'[c] = [conf[c] EXCEPT !.status = s]
           /\ \A d \in Conf : /\ d # c => conf'[d] = conf[d]
                              /\ conf'[d].op = conf[d].op
                              /\ conf'[d].status = "none" <=> conf[d].status = "none"
<1>1. conf \in [Conf -> Draft] /\ conf[c] \in Draft
    BY DEF Typed, TypeOK
<1>2. conf'[c] = [conf[c] EXCEPT !.status = s] /\ \A d \in Conf : d # c => conf'[d] = conf[d]
    BY <1>1
<1>3. [conf[c] EXCEPT !.status = s] \in Draft
    BY <1>1 DEF Draft
<1>4. /\ conf'[c].op = conf[c].op /\ conf'[c].body = conf[c].body /\ conf'[c].status = s
    BY <1>1, <1>2 DEF Draft
<1>5. conf' \in [Conf -> Draft]
    BY <1>1, <1>2, <1>3
<1>6. DraftFits'
    BY <1>2, <1>4 DEF Typed, DraftFits
<1> QED
    BY <1>2, <1>4, <1>5, <1>6

\* A draft keeps what it is about, and is registered as long as it was.
SameDrafts ==
    \A c \in Conf : conf'[c].op = conf[c].op /\ (conf'[c].status = "none" <=> conf[c].status = "none")

\* A call that returns or throws: what is typed of its own state.
LEMMA ReturnType ==
    ASSUME Typed, NEW k \in Call, Return(k), conf[Target[k]].status # "none", SameDrafts
    PROVE  /\ holding' \in [Call -> SUBSET Key]
           /\ phase' \in [Call -> {"acquiring", "operating", "releasing", "ended"}]
           /\ step' \in [Call -> Steps]
           /\ seen' \in [Call -> Portfolio \cup Prefs \cup Strategy \cup {None}]
           /\ SeenFits' /\ StepFits' /\ PhaseFits'
<1>1. \A j \in Call : Target[j] \in Conf
    BY Instance DEF Instance
<1>2. /\ step[k] \in Steps /\ step' = [step EXCEPT ![k] = "left"] /\ seen' = [seen EXCEPT ![k] = None]
      /\ phase' = [phase EXCEPT ![k] = "releasing"] /\ holding' = holding
    BY DEF Typed, TypeOK, Return, Mutex!Leave
<1>3. /\ step'[k] = "left" /\ seen'[k] = None /\ phase'[k] = "releasing"
      /\ \A j \in Call : j # k => step'[j] = step[j] /\ seen'[j] = seen[j] /\ phase'[j] = phase[j]
    BY <1>2 DEF Typed, TypeOK
<1>4. \A j \in Call : Op(j)' = Op(j)
    BY <1>1 DEF Op, SameDrafts
<1>5. SeenFits'
    BY <1>3 DEF Typed, SeenFits
<1>6. StepFits'
    BY <1>3, <1>4 DEF Typed, StepFits
<1>7. PhaseFits'
    BY <1>1, <1>2, <1>3 DEF Typed, PhaseFits, SameDrafts
<1> QED
    BY <1>2, <1>5, <1>6, <1>7 DEF Typed, TypeOK, Steps

\* A call that goes on to the next step of its operation.
LEMMA ContinueType ==
    ASSUME Typed, NEW k \in Call, NEW s \in Steps \ {"left"}, Continue(k, s), phase[k] = "operating",
           SameDrafts, s \in {"plan", "replace"} => Op(k) = "portfolio",
           s = "list" => Op(k) = "watchlist", s = "insert" => Op(k) = "rule",
           s \in {"read", "schedules", "notification"} => Op(k) = "preferences",
           s \in {"load", "patch", "decide"} => Op(k) = "method"
    PROVE  step' \in [Call -> Steps] /\ StepFits' /\ PhaseFits'
<1>1. \A j \in Call : Target[j] \in Conf
    BY Instance DEF Instance
<1>2. step' = [step EXCEPT ![k] = s] /\ phase' = phase /\ holding' = holding
    BY DEF Continue, locks
<1>3. step'[k] = s /\ \A j \in Call : j # k => step'[j] = step[j]
    BY <1>2 DEF Typed, TypeOK
<1>4. \A j \in Call : Op(j)' = Op(j)
    BY <1>1 DEF Op, SameDrafts
<1>5. StepFits'
    BY <1>3, <1>4 DEF Typed, StepFits
<1>6. PhaseFits'
    BY <1>1, <1>2, <1>3 DEF Typed, PhaseFits, SameDrafts
<1> QED
    BY <1>2, <1>5, <1>6 DEF Typed, TypeOK

\* A step of the operation of a call.
LEMMA TypedOperate ==
    ASSUME Typed, NEW k \in Call, Operate(k)
    PROVE  Typed'
<1> DEFINE c == Target[k]
<1>1. c \in Conf
    BY Instance DEF Instance
<1>2. CASE CheckMessage(k)
    BY <1>1, <1>2 DEF Typed, TypeOK, SeenFits, StepFits, PhaseFits, DraftFits, Op, CheckMessage,
       Running, Continue, Return, Mutex!Leave, rows, history, locks, Steps
<1>3. CASE Validate(k)
    <2>1. conf[c].status # "none"
        BY <1>1, <1>3 DEF Typed, TypeOK, PhaseFits, Validate, Running
    <2>2. UNCHANGED <<now, said, rows, history>>
        BY <1>3 DEF Validate
    <2>3. CASE Continue(k, FirstStep(conf[c].op)) /\ UNCHANGED <<conf, seen>>
        <3>1. conf[c].op \in {"portfolio", "watchlist", "rule", "preferences", "method"}
            BY <1>1, <2>1, Instance DEF Typed, DraftFits, Instance
        <3>2. FirstStep(conf[c].op) \in {"plan", "list", "insert", "read", "load"}
            BY <3>1 DEF FirstStep
        <3>3. /\ FirstStep(conf[c].op) = "plan" => Op(k) = "portfolio"
              /\ FirstStep(conf[c].op) = "list" => Op(k) = "watchlist"
              /\ FirstStep(conf[c].op) = "insert" => Op(k) = "rule"
              /\ FirstStep(conf[c].op) = "read" => Op(k) = "preferences"
              /\ FirstStep(conf[c].op) = "load" => Op(k) = "method"
            BY <3>1 DEF FirstStep, Op
        <3>4. SameDrafts /\ phase[k] = "operating"
            BY <1>3, <2>3 DEF SameDrafts, Validate, Running
        <3>5. step' \in [Call -> Steps] /\ StepFits' /\ PhaseFits'
            <4> DEFINE s == FirstStep(conf[c].op)
            <4>1. s \in Steps \ {"left"} /\ s \notin {"replace", "schedules", "notification", "patch", "decide"}
                BY <3>2 DEF Steps
            <4> HIDE DEF s
            <4> QED
                BY <2>3, <3>3, <3>4, <4>1, ContinueType DEF s
        <3>6. SeenFits' /\ DraftFits'
            BY <2>3, <3>2 DEF Typed, TypeOK, SeenFits, DraftFits, Continue
        <3> QED
            BY <2>2, <2>3, <3>5, <3>6 DEF Typed, TypeOK, Continue, locks, rows, history
    <2>4. CASE Return(k) /\ conf' \in {conf, [conf EXCEPT ![c].status = "expired"]}
        <3>1. conf' \in [Conf -> Draft] /\ DraftFits' /\ SameDrafts
            <4>1. CASE conf' = [conf EXCEPT ![c].status = "expired"]
                BY <1>1, <2>1, <4>1, StatusType DEF SameDrafts
            <4>2. CASE conf' = conf
                BY <4>2 DEF SameDrafts, Typed, TypeOK, DraftFits
            <4> QED
                BY <2>4, <4>1, <4>2
        <3>2. /\ holding' \in [Call -> SUBSET Key]
              /\ phase' \in [Call -> {"acquiring", "operating", "releasing", "ended"}]
              /\ step' \in [Call -> Steps]
              /\ seen' \in [Call -> Portfolio \cup Prefs \cup Strategy \cup {None}]
              /\ SeenFits' /\ StepFits' /\ PhaseFits'
            BY <2>1, <2>4, <3>1, ReturnType
        <3>3. TypeOK'
            BY <2>2, <3>1, <3>2 DEF Typed, TypeOK, rows, history
        <3> QED
            BY <3>1, <3>2, <3>3 DEF Typed
    <2> QED
        BY <1>3, <2>3, <2>4 DEF Validate
<1>4. CASE Consume(k)
    <2>1. conf[c].status # "none"
        BY <1>1, <1>4 DEF Typed, TypeOK, PhaseFits, Consume, Running
    <2>2. UNCHANGED <<now, said, rows, approved, written, consumed, torn, tied>> /\ interrupted' \in [Conf -> Nat]
        BY <1>1, <1>4 DEF Consume, Typed, TypeOK
    <2>3. CASE Continue(k, "mark") /\ UNCHANGED <<conf, seen>>
        <3>1. step' \in [Call -> Steps] /\ StepFits' /\ PhaseFits'
            BY <1>4, <2>3, ContinueType DEF SameDrafts, Consume, Running, Steps
        <3>2. SeenFits' /\ DraftFits'
            BY <2>3 DEF Typed, TypeOK, SeenFits, DraftFits, Continue
        <3> QED
            BY <2>2, <2>3, <3>1, <3>2 DEF Typed, TypeOK, Continue, locks, rows
    <2>4. CASE /\ Return(k)
               /\ conf' = IF conf[c].status = "pending" THEN [conf EXCEPT ![c].status = "expired"] ELSE conf
        <3>1. conf' \in [Conf -> Draft] /\ DraftFits' /\ SameDrafts
            <4>1. CASE conf[c].status = "pending"
                BY <1>1, <2>4, <4>1, StatusType DEF SameDrafts
            <4>2. CASE conf[c].status # "pending"
                BY <2>4, <4>2 DEF SameDrafts, Typed, TypeOK, DraftFits
            <4> QED
                BY <4>1, <4>2
        <3>2. /\ holding' \in [Call -> SUBSET Key]
              /\ phase' \in [Call -> {"acquiring", "operating", "releasing", "ended"}]
              /\ step' \in [Call -> Steps]
              /\ seen' \in [Call -> Portfolio \cup Prefs \cup Strategy \cup {None}]
              /\ SeenFits' /\ StepFits' /\ PhaseFits'
            BY <2>1, <2>4, <3>1, ReturnType
        <3>3. TypeOK'
            BY <2>2, <3>1, <3>2 DEF Typed, TypeOK, rows
        <3> QED
            BY <3>1, <3>2, <3>3 DEF Typed
    <2> QED
        BY <1>4, <2>3, <2>4 DEF Consume
<1>5. CASE Mark(k)
    <2>1. conf[c].status # "none"
        BY <1>1, <1>5 DEF Typed, TypeOK, PhaseFits, Mark, Running
    <2>2. Return(k) /\ conf' = [conf EXCEPT ![c].status = "confirmed"] /\ UNCHANGED <<now, said, rows>>
        BY <1>5 DEF Mark
    <2>3. conf' \in [Conf -> Draft] /\ DraftFits' /\ SameDrafts
        BY <1>1, <2>1, <2>2, StatusType DEF SameDrafts
    <2>4. /\ holding' \in [Call -> SUBSET Key]
          /\ phase' \in [Call -> {"acquiring", "operating", "releasing", "ended"}]
          /\ step' \in [Call -> Steps]
          /\ seen' \in [Call -> Portfolio \cup Prefs \cup Strategy \cup {None}]
          /\ SeenFits' /\ StepFits' /\ PhaseFits'
        BY <2>1, <2>2, <2>3, ReturnType
    <2>5. TypeOK'
        BY <1>1, <1>5, <2>2, <2>3, <2>4 DEF Typed, TypeOK, Mark, rows
    <2> QED
        BY <2>3, <2>4, <2>5 DEF Typed
<1>6. CASE Stop(k)
    BY <1>1, <1>6 DEF Typed, TypeOK, SeenFits, StepFits, PhaseFits, DraftFits, Op, Stop, Return,
       Mutex!Leave, rows, Steps
<1>7. CASE PlanPortfolio(k)
    <2>1. tied' \in BOOLEAN
        BY <1>7 DEF Typed, TypeOK, PlanPortfolio
    <2>2. seen' \in [Call -> Portfolio \cup Prefs \cup Strategy \cup {None}]
        BY <1>7 DEF Typed, TypeOK, PlanPortfolio, Return
    <2>3. step' \in [Call -> Steps] /\ phase' \in [Call -> {"acquiring", "operating", "releasing", "ended"}]
        BY <1>7 DEF Typed, TypeOK, PlanPortfolio, Continue, Return, Mutex!Leave, locks, Steps
    <2>4. TypeOK'
        BY <1>7, <2>1, <2>2, <2>3 DEF Typed, TypeOK, PlanPortfolio, Continue, Return, Mutex!Leave,
           locks, rows
    <2>5. SeenFits' /\ StepFits' /\ PhaseFits' /\ DraftFits'
        BY <1>1, <1>7 DEF Typed, TypeOK, SeenFits, StepFits, PhaseFits, DraftFits, Op,
           PlanPortfolio, Running, Continue, Return, Mutex!Leave, locks
    <2> QED
        BY <2>4, <2>5 DEF Typed
<1>8. CASE ReplacePortfolio(k)
    <2>1. portfolio' \in Portfolio
        BY <1>1, <1>8 DEF Typed, TypeOK, SeenFits, StepFits, PhaseFits, DraftFits, Op,
           ReplacePortfolio, Running, Portfolio
    <2> QED
        BY <1>1, <1>8, <2>1 DEF Typed, TypeOK, SeenFits, StepFits, PhaseFits, DraftFits, Op,
           ReplacePortfolio, Running, Complete, Continue, Return, Mutex!Leave, history, locks, Steps
<1>9. CASE AddItem(k)
    <2>1. PICK it \in Items[conf[c].body] : portfolio' = [portfolio EXCEPT !.rev = now, !.watch = @ \cup {it}]
        BY <1>9 DEF AddItem
    <2>2. conf[c].body \in Batch
        BY <1>1, <1>9 DEF Typed, TypeOK, SeenFits, StepFits, PhaseFits, DraftFits, Op, AddItem,
           Running
    <2>3. it \in Code
        BY <2>1, <2>2, Instance DEF Instance
    <2>4. portfolio' \in Portfolio
        BY <2>1, <2>3 DEF Typed, TypeOK, Portfolio
    <2> QED
        BY <1>9, <2>4 DEF Typed, TypeOK, SeenFits, StepFits, PhaseFits, DraftFits, Op, AddItem,
           history, locks
<1>10. CASE FinishItems(k)
    BY <1>1, <1>10 DEF Typed, TypeOK, SeenFits, StepFits, PhaseFits, DraftFits, Op, FinishItems,
       Running, Complete, Continue, rows, locks, Steps
<1>11. CASE InsertRule(k)
    BY <1>1, <1>11 DEF Typed, TypeOK, SeenFits, StepFits, PhaseFits, DraftFits, Op, InsertRule,
       Running, Complete, Continue, rows, locks, Steps
<1>12. CASE ReadPreferences(k)
    BY <1>1, <1>12 DEF Typed, TypeOK, SeenFits, StepFits, PhaseFits, DraftFits, Op, ReadPreferences,
       Running, Continue, Return, Mutex!Leave, rows, history, locks, Steps, Portfolio
<1>13. CASE WriteSchedules(k)
    <2>1. prefs' \in Prefs
        BY <1>1, <1>13 DEF Typed, TypeOK, SeenFits, StepFits, PhaseFits, DraftFits, Op,
           WriteSchedules, Running, Prefs
    <2> QED
        BY <1>1, <1>13, <2>1 DEF Typed, TypeOK, SeenFits, StepFits, PhaseFits, DraftFits, Op,
           WriteSchedules, Running, Continue, history, locks, Steps
<1>14. CASE WriteNotification(k)
    BY <1>1, <1>14 DEF Typed, TypeOK, SeenFits, StepFits, PhaseFits, DraftFits, Op,
       WriteNotification, Running, Complete, Continue, locks, Steps, Prefs
<1>15. CASE RestorePreferences(k)
    BY <1>1, <1>15 DEF Typed, TypeOK, SeenFits, StepFits, PhaseFits, DraftFits, Op,
       RestorePreferences, Running, Return, Mutex!Leave, history, Steps
<1>16. CASE LoadStrategy(k)
    <2>1. UNCHANGED <<now, said, conf, rows, history>> /\ SameDrafts /\ DraftFits'
        BY <1>16 DEF LoadStrategy, SameDrafts, Typed, DraftFits
    <2>2. phase[k] = "operating" /\ Op(k) = "method" /\ conf[c].status # "none"
        BY <1>1, <1>16 DEF Typed, TypeOK, SeenFits, StepFits, PhaseFits, DraftFits, Op,
           LoadStrategy, Running
    <2>3. CASE seen' = [seen EXCEPT ![k] = strategy] /\ Continue(k, "patch")
        <3>1. step' \in [Call -> Steps] /\ StepFits' /\ PhaseFits'
            BY <2>1, <2>2, <2>3, ContinueType DEF Steps
        <3>2. SeenFits'
            BY <2>3 DEF Typed, TypeOK, SeenFits, Continue
        <3>3. seen' \in [Call -> Portfolio \cup Prefs \cup Strategy \cup {None}]
            BY <2>3 DEF Typed, TypeOK
        <3> QED
            BY <2>1, <2>3, <3>1, <3>2, <3>3 DEF Typed, TypeOK, Continue, locks, rows, history
    <2>4. CASE Return(k)
        <3>1. /\ holding' \in [Call -> SUBSET Key]
              /\ phase' \in [Call -> {"acquiring", "operating", "releasing", "ended"}]
              /\ step' \in [Call -> Steps]
              /\ seen' \in [Call -> Portfolio \cup Prefs \cup Strategy \cup {None}]
              /\ SeenFits' /\ StepFits' /\ PhaseFits'
            BY <2>1, <2>2, <2>4, ReturnType
        <3> QED
            BY <2>1, <3>1 DEF Typed, TypeOK, rows, history
    <2> QED
        BY <1>16, <2>3, <2>4 DEF LoadStrategy
<1>17. CASE PatchStrategy(k)
    <2>1. conf[c].body \in Candidate /\ seen[k] \in Strategy
        BY <1>1, <1>17 DEF Typed, TypeOK, SeenFits, StepFits, PhaseFits, DraftFits, Op,
           PatchStrategy, Running
    <2>2. strategy' \in Strategy
        BY <1>1, <1>17, <2>1 DEF Typed, TypeOK, PatchStrategy, Strategy
    <2> QED
        BY <1>1, <1>17, <2>2 DEF Typed, TypeOK, SeenFits, StepFits, PhaseFits, DraftFits, Op,
           PatchStrategy, Running, Continue, history, locks, Steps
<1>18. CASE DecideCandidate(k)
    BY <1>1, <1>18 DEF Typed, TypeOK, SeenFits, StepFits, PhaseFits, DraftFits, Op, DecideCandidate,
       Running, Complete, Continue, locks, Steps
<1>19. CASE RestoreStrategy(k)
    BY <1>1, <1>19 DEF Typed, TypeOK, SeenFits, StepFits, PhaseFits, DraftFits, Op, RestoreStrategy,
       Running, Return, Mutex!Leave, history, Steps
<1> QED
    BY <1>2, <1>3, <1>4, <1>5, <1>6, <1>7, <1>8, <1>9, <1>10, <1>11, <1>12, <1>13, <1>14, <1>15,
       <1>16, <1>17, <1>18, <1>19 DEF Operate

\* The clock, the user, the registrations, the locks, and a stutter.
LEMMA TypedNext ==
    ASSUME Typed, [Next]_vars
    PROVE  Typed'
<1>0. \A j \in Call : Target[j] \in Conf
    BY Instance DEF Instance
<1>1. CASE Tick
    BY <1>1, Instance DEF Tick, Typed, TypeOK, SeenFits, StepFits, PhaseFits, DraftFits, Op, rows,
       history, locks, Time
<1>2. ASSUME NEW explicit \in BOOLEAN, UserSays(explicit) PROVE Typed'
    <2>1. /\ said' = [at |-> now, explicit |-> explicit]
          /\ approved' \subseteq approved \cup Conf
          /\ UNCHANGED <<now, conf, rows, locks, step, seen, written, consumed, interrupted, torn, tied>>
        BY <1>2 DEF UserSays
    <2> QED
        BY <2>1 DEF Typed, TypeOK, SeenFits, StepFits, PhaseFits, DraftFits, Op, rows, locks
<1>3. ASSUME NEW c \in Conf, NEW op \in Operation, NEW b \in Bodies(op), NEW rev \in Bindings(op),
             Register(c, op, b, rev)
      PROVE  Typed'
    <2> DEFINE d == [status |-> "pending", op |-> op, body |-> b, at |-> now, rev |-> rev]
    <2>1. /\ conf[c].status = "none" /\ conf' = [conf EXCEPT ![c] = d]
          /\ UNCHANGED <<now, said, rows, locks, step, seen, history>>
        BY <1>3 DEF Register
    <2>2. /\ b \in Batch \cup Candidate \cup {None}
          /\ op = "watchlist" => b \in Batch
          /\ op = "method" => b \in Candidate
        BY <1>3, Instance DEF Instance, Bodies
    <2>3. rev \in Time \cup {Unbound}
        BY <1>3, Instance DEF Instance, Bindings, Typed, TypeOK, Portfolio, Prefs, Strategy
    <2>4. d \in Draft
        BY <2>2, <2>3 DEF Typed, TypeOK, Draft
    <2>5. conf' \in [Conf -> Draft] /\ conf'[c] = d /\ \A e \in Conf : e # c => conf'[e] = conf[e]
        BY <2>1, <2>4 DEF Typed, TypeOK
    <2>6. DraftFits'
        BY <2>2, <2>5 DEF Typed, DraftFits
    <2>7. \A k \in Call : Target[k] = c => step[k] \in {"check"}
        BY <2>1 DEF Typed, PhaseFits, TypeOK
    <2>8. StepFits'
        BY <1>0, <2>1, <2>5, <2>7 DEF Typed, StepFits, Op
    <2>9. PhaseFits'
        BY <1>0, <2>1, <2>5 DEF Typed, PhaseFits, locks
    <2>10. TypeOK' /\ SeenFits'
        BY <2>1, <2>5 DEF Typed, TypeOK, SeenFits, rows, history, locks
    <2> QED
        BY <2>6, <2>8, <2>9, <2>10 DEF Typed
<1>4. ASSUME NEW k \in Call, Acquire(k) PROVE Typed'
    <2>1. conf[Target[k]].status # "none" /\ UNCHANGED <<now, said, conf, rows, step, seen, history>>
        BY <1>4 DEF Acquire
    <2>2. holding' \in [Call -> SUBSET Key] /\ \A j \in Call : j # k => holding'[j] = holding[j]
        BY <1>4 DEF Acquire, Mutex!RunUnlocked, Mutex!Take, Typed, TypeOK
    <2>3. /\ phase' \in [Call -> {"acquiring", "operating", "releasing", "ended"}]
          /\ phase[k] = "acquiring" /\ phase'[k] \in {"acquiring", "operating"}
          /\ \A j \in Call : j # k => phase'[j] = phase[j]
        BY <1>4 DEF Acquire, Mutex!RunUnlocked, Mutex!Take, Typed, TypeOK
    <2>4. PhaseFits'
        BY <2>1, <2>2, <2>3 DEF Typed, PhaseFits
    <2> QED
        BY <2>1, <2>2, <2>3, <2>4 DEF Typed, TypeOK, SeenFits, StepFits, DraftFits, Op, rows,
           history
<1>5. ASSUME NEW k \in Call, Release(k) PROVE Typed'
    <2>1. UNCHANGED <<now, said, conf, rows, step, seen, history>>
        BY <1>5 DEF Release
    <2>2. /\ holding' \in [Call -> SUBSET Key]
          /\ \A j \in Call : holding'[j] # {} => holding[j] # {}
        BY <1>5 DEF Release, Mutex!End, Mutex!Drop, Typed, TypeOK
    <2>3. /\ phase' \in [Call -> {"acquiring", "operating", "releasing", "ended"}]
          /\ phase[k] = "releasing" /\ phase'[k] \in {"releasing", "ended"}
          /\ \A j \in Call : j # k => phase'[j] = phase[j]
        BY <1>5 DEF Release, Mutex!End, Mutex!Drop, Typed, TypeOK
    <2>4. PhaseFits'
        BY <2>1, <2>2, <2>3 DEF Typed, PhaseFits
    <2> QED
        BY <2>1, <2>2, <2>3, <2>4 DEF Typed, TypeOK, SeenFits, StepFits, DraftFits, Op, rows,
           history
<1>6. CASE UNCHANGED vars
    BY <1>6 DEF vars, Typed, TypeOK, SeenFits, StepFits, PhaseFits, DraftFits, Op, rows, history,
       locks
<1> QED
    BY <1>1, <1>2, <1>3, <1>4, <1>5, <1>6, TypedOperate DEF Next

\* The values of the variables stay of their types, and a call is at a step of the
\* operation of its draft, with what it has read of the document it is about to write.
THEOREM TypeCorrect == Spec => []TypeOK
<1>1. Typed => TypeOK
    BY DEF Typed
<1> QED
    BY <1>1, TypedInit, TypedNext, PTL DEF Spec

-----------------------------------------------------------------------------
(* What a step of an operation leaves alone *)

\* A draft keeps everything but its status, and does not become pending again.
KeptDrafts ==
    \A c \in Conf : /\ conf'[c].op = conf[c].op /\ conf'[c].body = conf[c].body
                    /\ conf'[c].at = conf[c].at /\ conf'[c].rev = conf[c].rev
                    /\ conf'[c].status = "none" <=> conf[c].status = "none"
                    /\ conf'[c].status = "pending" => conf[c].status = "pending"

\* Another call's draft is not touched, nor where another call is.
Frame(k) ==
    /\ UNCHANGED <<now, said, approved, holding>>
    /\ KeptDrafts /\ \A c \in Conf : c # Target[k] => conf'[c] = conf[c]
    /\ phase[k] = "operating"
    /\ phase' = phase \/ (phase' = [phase EXCEPT ![k] = "releasing"] /\ step'[k] = "left")
    /\ \A j \in Call : j # k => /\ step'[j] = step[j] /\ seen'[j] = seen[j]
                                /\ phase'[j] = phase[j]
    /\ \A c \in Conf : interrupted[c] <= interrupted'[c]
    /\ torn \subseteq torn' /\ (tied => tied')

LEMMA StatusKept ==
    ASSUME Typed, NEW c \in Conf, NEW s \in {"confirmed", "expired"}, conf[c].status # "none",
           conf' = [conf EXCEPT ![c].status = s]
    PROVE  KeptDrafts /\ \A d \in Conf : d # c => conf'[d] = conf[d]
<1>1. conf[c] \in Draft /\ conf'[c] = [conf[c] EXCEPT !.status = s]
    BY DEF Typed, TypeOK
<1>2. \A d \in Conf : d # c => conf'[d] = conf[d]
    BY DEF Typed, TypeOK
<1>3. /\ conf'[c].op = conf[c].op /\ conf'[c].body = conf[c].body
      /\ conf'[c].at = conf[c].at /\ conf'[c].rev = conf[c].rev /\ conf'[c].status = s
    BY <1>1 DEF Draft
<1> QED
    BY <1>2, <1>3 DEF KeptDrafts

LEMMA Framed ==
    ASSUME Typed, NEW k \in Call, Operate(k)
    PROVE  Frame(k)
<1>1. Target[k] \in Conf
    BY Instance DEF Instance
<1>2. ASSUME Return(k) PROVE /\ holding' = holding /\ phase' = [phase EXCEPT ![k] = "releasing"]
                            /\ step'[k] = "left"
                            /\ \A j \in Call : j # k => /\ step'[j] = step[j] /\ seen'[j] = seen[j]
                                                        /\ phase'[j] = phase[j]
    BY <1>2 DEF Return, Mutex!Leave, Typed, TypeOK
<1>3. ASSUME NEW s, Continue(k, s) PROVE /\ holding' = holding /\ phase' = phase
                                        /\ \A j \in Call : j # k => /\ step'[j] = step[j]
                                                                    /\ phase'[j] = phase[j]
    BY <1>3 DEF Continue, locks, Typed, TypeOK
<1>4. ASSUME Complete(k) PROVE /\ holding' = holding /\ phase' = phase
                              /\ UNCHANGED <<approved, consumed, interrupted, torn, tied>>
                              /\ \A j \in Call : j # k => /\ step'[j] = step[j] /\ seen'[j] = seen[j]
                                                          /\ phase'[j] = phase[j]
    BY <1>3, <1>4 DEF Complete, Typed, TypeOK
<1>0. ASSUME NEW v, seen' = [seen EXCEPT ![k] = v] PROVE \A j \in Call : j # k => seen'[j] = seen[j]
    BY <1>0 DEF Typed, TypeOK
<1>5. ASSUME conf' = conf PROVE KeptDrafts
    BY <1>5 DEF KeptDrafts
<1>25. ASSUME \/ interrupted' = interrupted
              \/ interrupted' = [interrupted EXCEPT ![Target[k]] = @ + 1]
       PROVE  \A c \in Conf : interrupted[c] <= interrupted'[c]
    <2>1. \A c \in Conf : interrupted[c] \in Nat
        BY DEF Typed, TypeOK
    <2> QED
        BY <1>25, <2>1 DEF Typed, TypeOK
<1>6. phase[k] = "operating" /\ conf[Target[k]].status # "none"
    BY <1>1 DEF Typed, PhaseFits, Operate, Running, CheckMessage, Validate, Consume, Mark, Stop,
       PlanPortfolio, ReplacePortfolio, AddItem, FinishItems, InsertRule, ReadPreferences,
       WriteSchedules, WriteNotification, RestorePreferences, LoadStrategy, PatchStrategy,
       DecideCandidate, RestoreStrategy
<1>7. CASE CheckMessage(k)
    BY <1>2, <1>3, <1>4, <1>5, <1>6, <1>25, <1>7 DEF CheckMessage, Frame, history, locks
<1>8. CASE Validate(k)
    <2>1. KeptDrafts /\ \A c \in Conf : c # Target[k] => conf'[c] = conf[c]
        BY <1>1, <1>5, <1>6, <1>8, StatusKept DEF Validate
    <2> QED
        BY <1>2, <1>3, <1>6, <1>25, <1>8, <2>1 DEF Validate, Frame, history
<1>9. CASE Consume(k)
    <2>1. KeptDrafts /\ \A c \in Conf : c # Target[k] => conf'[c] = conf[c]
        BY <1>1, <1>5, <1>6, <1>9, StatusKept DEF Consume
    <2> QED
        BY <1>2, <1>3, <1>6, <1>25, <1>9, <2>1 DEF Consume, Frame, history
<1>10. CASE Mark(k)
    <2>1. KeptDrafts /\ \A c \in Conf : c # Target[k] => conf'[c] = conf[c]
        BY <1>1, <1>5, <1>6, <1>10, StatusKept DEF Mark
    <2> QED
        BY <1>2, <1>3, <1>6, <1>25, <1>10, <2>1 DEF Mark, Frame, history
<1>11. CASE Stop(k)
    BY <1>2, <1>3, <1>4, <1>5, <1>6, <1>25, <1>11 DEF Stop, Frame, history, locks
<1>12. CASE PlanPortfolio(k)
    <2>1. UNCHANGED <<now, said, conf, rows, approved, written, consumed, interrupted, torn>>
        BY <1>12 DEF PlanPortfolio
    <2>4. tied => tied'
        BY <1>12 DEF PlanPortfolio
    <2>2. \A j \in Call : j # k => seen'[j] = seen[j]
        BY <1>0, <1>2, <1>12 DEF PlanPortfolio
    <2>3. Return(k) \/ Continue(k, "consume") \/ Continue(k, "replace")
        BY <1>12 DEF PlanPortfolio
    <2> QED
        BY <1>2, <1>3, <1>5, <1>6, <1>25, <2>1, <2>2, <2>3, <2>4 DEF Frame
<1>13. CASE ReplacePortfolio(k)
    BY <1>2, <1>3, <1>4, <1>5, <1>6, <1>25, <1>13 DEF ReplacePortfolio, Frame, history, locks
<1>14. CASE AddItem(k)
    BY <1>2, <1>3, <1>4, <1>5, <1>6, <1>25, <1>14 DEF AddItem, Frame, history, locks
<1>15. CASE FinishItems(k)
    BY <1>2, <1>3, <1>4, <1>5, <1>6, <1>25, <1>15 DEF FinishItems, Frame, history, locks
<1>16. CASE InsertRule(k)
    BY <1>2, <1>3, <1>4, <1>5, <1>6, <1>25, <1>16 DEF InsertRule, Frame, history, locks
<1>17. CASE ReadPreferences(k)
    BY <1>0, <1>2, <1>3, <1>4, <1>5, <1>6, <1>25, <1>17 DEF ReadPreferences, Frame, history, locks
<1>18. CASE WriteSchedules(k)
    BY <1>2, <1>3, <1>4, <1>5, <1>6, <1>25, <1>18 DEF WriteSchedules, Frame, history, locks
<1>19. CASE WriteNotification(k)
    BY <1>2, <1>3, <1>4, <1>5, <1>6, <1>25, <1>19 DEF WriteNotification, Frame, history, locks
<1>20. CASE RestorePreferences(k)
    BY <1>2, <1>3, <1>4, <1>5, <1>6, <1>25, <1>20 DEF RestorePreferences, Frame, history, locks
<1>21. CASE LoadStrategy(k)
    BY <1>0, <1>2, <1>3, <1>4, <1>5, <1>6, <1>25, <1>21 DEF LoadStrategy, Frame, history, locks
<1>22. CASE PatchStrategy(k)
    BY <1>2, <1>3, <1>4, <1>5, <1>6, <1>25, <1>22 DEF PatchStrategy, Frame, history, locks
<1>23. CASE DecideCandidate(k)
    BY <1>2, <1>3, <1>4, <1>5, <1>6, <1>25, <1>23 DEF DecideCandidate, Frame, history, locks
<1>24. CASE RestoreStrategy(k)
    BY <1>2, <1>3, <1>4, <1>5, <1>6, <1>25, <1>24 DEF RestoreStrategy, Frame, history, locks
<1> QED
    BY <1>7, <1>8, <1>9, <1>10, <1>11, <1>12, <1>13, <1>14, <1>15, <1>16, <1>17, <1>18, <1>19,
       <1>20, <1>21, <1>22, <1>23, <1>24 DEF Operate

-----------------------------------------------------------------------------
(* Locks: two calls do not write the same kind of document at the same time *)

LocksFit ==
    /\ \A k \in Call : /\ holding[k] \subseteq KeysOf(Op(k))
                       /\ phase[k] = "operating" => KeysOf(Op(k)) \subseteq holding[k]
    /\ \A j, k \in Call : j # k => holding[j] \cap holding[k] = {}

LEMMA LocksInit == Init => LocksFit
    BY DEF Init, Mutex!MutexInit, LocksFit

LEMMA LocksNext ==
    ASSUME Typed, LocksFit, [Next]_vars
    PROVE  LocksFit'
<1>0. \A j \in Call : Target[j] \in Conf
    BY Instance DEF Instance
<1>1. CASE UNCHANGED <<conf, locks>>
    BY <1>1 DEF LocksFit, Op, locks
<1>2. ASSUME NEW c \in Conf, NEW op \in Operation, NEW b \in Bodies(op), NEW rev \in Bindings(op),
             Register(c, op, b, rev)
      PROVE  LocksFit'
    <2>1. conf[c].status = "none" /\ UNCHANGED locks /\ \A e \in Conf : e # c => conf'[e] = conf[e]
        BY <1>2 DEF Register, Typed, TypeOK
    <2>2. \A j \in Call : Target[j] = c => holding[j] = {} /\ phase[j] = "acquiring"
        BY <2>1 DEF Typed, TypeOK, PhaseFits
    <2>3. \A j \in Call : Target[j] # c => Op(j)' = Op(j)
        BY <1>0, <2>1 DEF Op
    <2> QED
        BY <2>1, <2>2, <2>3 DEF LocksFit, locks
<1>3. ASSUME NEW k \in Call, Acquire(k) PROVE LocksFit'
    <2>1. \A j \in Call : Op(j)' = Op(j)
        BY <1>3 DEF Acquire, Op
    <2>2. CASE Mutex!RunUnlocked(k)
        BY <1>3, <2>1, <2>2 DEF Mutex!RunUnlocked, LocksFit, Typed, TypeOK, Op
    <2>3. ASSUME NEW key \in Key, Mutex!Take(k, key) PROVE LocksFit'
        <3>1. /\ key \in KeysOf(Op(k)) /\ holding' = [holding EXCEPT ![k] = @ \cup {key}]
              /\ \A j \in Call : key \notin holding[j]
              /\ phase' = [phase EXCEPT ![k] = IF KeysOf(Op(k)) \subseteq holding'[k] THEN "operating" ELSE @]
              /\ phase[k] = "acquiring"
            BY <2>3 DEF Mutex!Take, Op
        <3>2. holding'[k] = holding[k] \cup {key} /\ \A j \in Call : j # k => holding'[j] = holding[j]
            BY <3>1 DEF Typed, TypeOK
        <3>3. /\ phase'[k] = "operating" => KeysOf(Op(k)) \subseteq holding'[k]
              /\ \A j \in Call : j # k => phase'[j] = phase[j]
            BY <3>1 DEF Typed, TypeOK
        <3> QED
            BY <2>1, <3>1, <3>2, <3>3 DEF LocksFit
    <2> QED
        BY <1>3, <2>2, <2>3 DEF Acquire
<1>4. ASSUME NEW k \in Call, Release(k) PROVE LocksFit'
    <2>1. \A j \in Call : Op(j)' = Op(j)
        BY <1>4 DEF Release, Op
    <2>2. /\ \A j \in Call : holding'[j] \subseteq holding[j]
          /\ \A j \in Call : j # k => holding'[j] = holding[j] /\ phase'[j] = phase[j]
          /\ phase'[k] # "operating"
        BY <1>4 DEF Release, Mutex!End, Mutex!Drop, Typed, TypeOK
    <2> QED
        BY <2>1, <2>2 DEF LocksFit
<1>5. ASSUME NEW k \in Call, Operate(k) PROVE LocksFit'
    <2>1. Frame(k)
        BY <1>5, Framed
    <2>2. \A j \in Call : Op(j)' = Op(j) /\ (phase'[j] = "operating" => phase[j] = "operating") /\ holding' = holding
        BY <1>0, <2>1 DEF Frame, KeptDrafts, Op, Typed, TypeOK
    <2> QED
        BY <2>2 DEF LocksFit
<1>6. Tick \/ (\E explicit \in BOOLEAN : UserSays(explicit)) \/ UNCHANGED vars => UNCHANGED <<conf, locks>>
    BY DEF Tick, UserSays, vars
<1> QED
    BY <1>1, <1>2, <1>3, <1>4, <1>5, <1>6 DEF Next

\* The locks of an operation are its own.
LEMMA Exclusive ==
    ASSUME Typed, LocksFit, NEW j \in Call, NEW k \in Call, j # k, Locked(Op(k)),
           phase[j] = "operating", phase[k] = "operating"
    PROVE  Op(j) # Op(k)
<1> SUFFICES ASSUME Op(j) = Op(k) PROVE FALSE
    OBVIOUS
<1>1. Op(k) \in {"portfolio", "rule", "preferences", "method"}
    BY Instance DEF Instance, Typed, PhaseFits, DraftFits, Op, Locked
<1>2. KeysOf(Op(k)) # {}
    BY <1>1 DEF KeysOf
<1> QED
    BY <1>2 DEF LocksFit

\* A call between its check and its end runs with its locks.
LEMMA Inside ==
    ASSUME Typed, NEW k \in Call, step[k] \notin {"check", "left"}
    PROVE  phase[k] = "operating"
    BY DEF Typed, TypeOK, PhaseFits

-----------------------------------------------------------------------------
(* Which action leads a call where, and which one writes what *)

\* By where the call is after the step.
LEMMA Moves ==
    ASSUME Typed, NEW k \in Call, Operate(k)
    PROVE  /\ CheckMessage(k) \/ step'[k] = "left" \/ step[k] \notin {"check", "left"}
           /\ step'[k] = "validate" => CheckMessage(k)
           /\ step'[k] = "plan" => Validate(k)
           /\ step'[k] = "replace" => PlanPortfolio(k)
           /\ step'[k] = "schedules" => ReadPreferences(k)
           /\ step'[k] = "notification" => WriteSchedules(k)
           /\ step'[k] = "patch" => LoadStrategy(k)
           /\ step'[k] = "decide" => PatchStrategy(k)
           /\ step'[k] = "consume" => PlanPortfolio(k) \/ Complete(k)
           /\ step'[k] = "mark" => Consume(k)
<1>1. \A s : Continue(k, s) \/ Return(k) => step'[k] \in {s, "left"}
    BY DEF Typed, TypeOK, Continue, Return
<1>2. Complete(k) => step'[k] = "consume"
    BY <1>1 DEF Complete, Typed, TypeOK, Continue
<1>3. ASSUME Validate(k) PROVE step'[k] \in {"left", "plan", "list", "insert", "read", "load"}
    <2>1. Target[k] \in Conf /\ conf[Target[k]].status # "none"
        BY <1>3, Instance DEF Instance, Typed, PhaseFits, Validate, Running
    <2>2. Op(k) \in {"portfolio", "watchlist", "rule", "preferences", "method"}
        BY <2>1, Instance DEF Instance, Typed, DraftFits, Op
    <2>3. FirstStep(Op(k)) \in {"plan", "list", "insert", "read", "load"}
        BY <2>2 DEF FirstStep
    <2> QED
        BY <1>1, <1>3, <2>3 DEF Validate, Op
<1>4. ASSUME Return(k) PROVE step'[k] = "left"
    BY <1>4 DEF Typed, TypeOK, Return
<1>5. AddItem(k) => step'[k] = "list"
    BY DEF AddItem, Running
<1>6. CASE CheckMessage(k)
    BY <1>1, <1>4, <1>6 DEF CheckMessage, Running
<1>7. CASE Validate(k)
    BY <1>3, <1>7 DEF Validate, Running
<1>8. CASE Consume(k)
    BY <1>1, <1>4, <1>8 DEF Consume, Running
<1>9. CASE Mark(k)
    BY <1>4, <1>9 DEF Mark, Running
<1>10. CASE Stop(k)
    BY <1>4, <1>10 DEF Stop, Running
<1>11. CASE PlanPortfolio(k)
    BY <1>1, <1>4, <1>11 DEF PlanPortfolio, Running
<1>12. CASE ReplacePortfolio(k)
    BY <1>2, <1>4, <1>12 DEF ReplacePortfolio, Running
<1>13. CASE AddItem(k)
    BY <1>5, <1>13 DEF AddItem, Running
<1>14. CASE FinishItems(k)
    BY <1>2, <1>14 DEF FinishItems, Running
<1>15. CASE InsertRule(k)
    BY <1>2, <1>15 DEF InsertRule, Running
<1>16. CASE ReadPreferences(k)
    BY <1>1, <1>4, <1>16 DEF ReadPreferences, Running
<1>17. CASE WriteSchedules(k)
    BY <1>1, <1>17 DEF WriteSchedules, Running
<1>18. CASE WriteNotification(k)
    BY <1>2, <1>18 DEF WriteNotification, Running
<1>19. CASE RestorePreferences(k)
    BY <1>4, <1>19 DEF RestorePreferences, Running
<1>20. CASE LoadStrategy(k)
    BY <1>1, <1>4, <1>20 DEF LoadStrategy, Running
<1>21. CASE PatchStrategy(k)
    BY <1>1, <1>21 DEF PatchStrategy, Running
<1>22. CASE DecideCandidate(k)
    BY <1>2, <1>22 DEF DecideCandidate, Running
<1>23. CASE RestoreStrategy(k)
    BY <1>4, <1>23 DEF RestoreStrategy, Running
<1> QED
    BY <1>6, <1>7, <1>8, <1>9, <1>10, <1>11, <1>12, <1>13, <1>14, <1>15, <1>16, <1>17, <1>18, <1>19,
       <1>20, <1>21, <1>22, <1>23 DEF Operate

\* By what the step changes.
LEMMA Effects ==
    ASSUME Typed, NEW k \in Call, Operate(k)
    PROVE  /\ \/ written' = written
              \/ /\ written' = [written EXCEPT ![Target[k]] = @ + 1] /\ Complete(k)
                 /\ step[k] \in {"replace", "list", "insert", "notification", "decide"}
           /\ portfolio' = portfolio \/ ReplacePortfolio(k) \/ AddItem(k)
           /\ prefs' = prefs \/ WriteSchedules(k) \/ WriteNotification(k) \/ RestorePreferences(k)
           /\ strategy' = strategy \/ PatchStrategy(k) \/ RestoreStrategy(k)
           /\ decided' = decided \/ DecideCandidate(k)
           /\ consumed' = consumed \/ Mark(k)
           /\ conf' = conf \/ Validate(k) \/ Consume(k) \/ Mark(k)
           /\ interrupted' = interrupted \/ Consume(k) \/ Stop(k)
           /\ torn' = torn \/ Stop(k)
<1>1. Complete(k) => /\ written' = [written EXCEPT ![Target[k]] = @ + 1]
                     /\ UNCHANGED <<approved, consumed, interrupted, torn, tied>>
    BY DEF Complete
<1>2. CASE CheckMessage(k)
    BY <1>2 DEF CheckMessage, Running, rows, history
<1>3. CASE Validate(k)
    BY <1>3 DEF Validate, Running, rows, history
<1>4. CASE Consume(k)
    BY <1>4 DEF Consume, Running, rows, history
<1>5. CASE Mark(k)
    BY <1>5 DEF Mark, Running, rows, history
<1>6. CASE Stop(k)
    BY <1>6 DEF Stop, Running, rows, history
<1>7. CASE PlanPortfolio(k)
    BY <1>7 DEF PlanPortfolio, Running, rows, history
<1>8. CASE ReplacePortfolio(k)
    BY <1>1, <1>8 DEF ReplacePortfolio, Running, rows, history
<1>9. CASE AddItem(k)
    BY <1>9 DEF AddItem, Running, rows, history
<1>10. CASE FinishItems(k)
    BY <1>1, <1>10 DEF FinishItems, Running, rows, history
<1>11. CASE InsertRule(k)
    BY <1>1, <1>11 DEF InsertRule, Running, rows, history
<1>12. CASE ReadPreferences(k)
    BY <1>12 DEF ReadPreferences, Running, rows, history
<1>13. CASE WriteSchedules(k)
    BY <1>13 DEF WriteSchedules, Running, rows, history
<1>14. CASE WriteNotification(k)
    BY <1>1, <1>14 DEF WriteNotification, Running, rows, history
<1>15. CASE RestorePreferences(k)
    BY <1>15 DEF RestorePreferences, Running, rows, history
<1>16. CASE LoadStrategy(k)
    BY <1>16 DEF LoadStrategy, Running, rows, history
<1>17. CASE PatchStrategy(k)
    BY <1>17 DEF PatchStrategy, Running, rows, history
<1>18. CASE DecideCandidate(k)
    BY <1>1, <1>18 DEF DecideCandidate, Running, rows, history
<1>19. CASE RestoreStrategy(k)
    BY <1>19 DEF RestoreStrategy, Running, rows, history
<1> QED
    BY <1>2, <1>3, <1>4, <1>5, <1>6, <1>7, <1>8, <1>9, <1>10, <1>11, <1>12, <1>13, <1>14, <1>15,
       <1>16, <1>17, <1>18, <1>19 DEF Operate

-----------------------------------------------------------------------------
(* The user's approval *)

\* The items of the batches the user approved.
ApprovedItems == {i \in Code : \E c \in approved : conf[c].op = "watchlist" /\ i \in Items[conf[c].body]}

\* A draft is approved by the first explicit message of an instant after its own.
Clocked ==
    /\ said.at <= now
    /\ \A c \in Conf : /\ conf[c].at <= now
                       /\ c \in approved => conf[c].status # "none"
                       /\ conf[c].status = "pending" /\ said.explicit /\ conf[c].at < said.at =>
                              c \in approved

\* A call that passed its check writes for an approved draft of an earlier instant.
Cleared ==
    \A k \in Call : step[k] \notin {"check", "left"} =>
        Target[k] \in approved /\ conf[Target[k]].at < now

\* What a call restores or builds on was written for approved drafts.
SeenApproved ==
    \A k \in Call :
        /\ step[k] = "replace" => seen[k].watch \subseteq ApprovedItems
        /\ step[k] \in {"schedules", "notification"} =>
               {seen[k].schedules, seen[k].notification} \subseteq approved \cup {None}
        /\ step[k] \in {"patch", "decide"} => seen[k].by \in approved \cup {None}

RowsApproved ==
    /\ {portfolio.by, prefs.schedules, prefs.notification, strategy.by} \subseteq approved \cup {None}
    /\ portfolio.watch \subseteq ApprovedItems
    /\ \A c \in Conf : written[c] > 0 => c \in approved

Approving == Clocked /\ Cleared /\ SeenApproved /\ RowsApproved

LEMMA ApprovingInit == Init => Approving
<1> SUFFICES ASSUME Init PROVE Approving
    OBVIOUS
<1>1. Clocked
    BY DEF Init, Clocked, NoConf
<1> QED
    BY <1>1 DEF Init, Approving, Cleared, SeenApproved, RowsApproved

LEMMA ApprovingOperate ==
    ASSUME Typed, Approving, NEW k \in Call, Operate(k)
    PROVE  Approving'
<1> DEFINE c == Target[k]
<1>0. \A j \in Call : Target[j] \in Conf
    BY Instance DEF Instance
<1>1. Frame(k)
    BY Framed
<1>2. /\ now' = now /\ said' = said /\ approved' = approved
      /\ \A j \in Call : j # k => step'[j] = step[j] /\ seen'[j] = seen[j]
      /\ \A d \in Conf : /\ conf'[d].op = conf[d].op /\ conf'[d].body = conf[d].body /\ conf'[d].at = conf[d].at
                         /\ conf'[d].status = "none" <=> conf[d].status = "none"
                         /\ conf'[d].status = "pending" => conf[d].status = "pending"
    BY <1>1 DEF Frame, KeptDrafts
<1>3. ApprovedItems' = ApprovedItems
    BY <1>2 DEF Typed, TypeOK, ApprovedItems
<1>4. Clocked'
    BY <1>2 DEF Approving, Clocked
<1>5. Cleared'
    <2>1. step'[k] \notin {"check", "left"} => c \in approved /\ conf[c].at < now
        <3>1. CASE CheckMessage(k)
            <4>1. step'[k] # "left" => RecentlyConfirmed(c)
                BY <3>1 DEF CheckMessage, Return, Typed, TypeOK
            <4>2. RecentlyConfirmed(c) => c \in approved /\ conf[c].at < said.at
                BY <1>0 DEF RecentlyConfirmed, Approving, Clocked
            <4>3. conf[c].at \in Int /\ said.at \in Int /\ now \in Int
                BY <1>0, Instance DEF Instance, Typed, TypeOK, Draft, Time
            <4> QED
                BY <4>1, <4>2, <4>3 DEF Approving, Clocked
        <3> QED
            BY <1>0, <3>1, Moves DEF Approving, Cleared
    <2> QED
        BY <1>0, <1>2, <2>1 DEF Approving, Cleared
<1>6. step[k] \notin {"check", "left"} => c \in approved
    BY DEF Approving, Cleared
<1>7. SeenApproved'
    <2>1. step'[k] = "replace" => seen'[k].watch \subseteq ApprovedItems
        <3>1. PlanPortfolio(k) /\ step'[k] = "replace" => seen'[k] = portfolio
            BY DEF PlanPortfolio, Typed, TypeOK, Return, Continue
        <3> QED
            BY <3>1, Moves DEF Approving, RowsApproved
    <2>2. step'[k] \in {"schedules", "notification"} =>
              {seen'[k].schedules, seen'[k].notification} \subseteq approved \cup {None}
        <3>1. ReadPreferences(k) /\ step'[k] = "schedules" => seen'[k] = prefs
            BY DEF ReadPreferences, Typed, TypeOK, Return
        <3>2. WriteSchedules(k) => seen' = seen /\ step[k] = "schedules"
            BY DEF WriteSchedules, Running
        <3> QED
            BY <3>1, <3>2, Moves DEF Approving, RowsApproved, SeenApproved
    <2>3. step'[k] \in {"patch", "decide"} => seen'[k].by \in approved \cup {None}
        <3>1. LoadStrategy(k) /\ step'[k] = "patch" => seen'[k] = strategy
            BY DEF LoadStrategy, Typed, TypeOK, Return
        <3>2. PatchStrategy(k) => seen' = seen /\ step[k] = "patch"
            BY DEF PatchStrategy, Running
        <3> QED
            BY <3>1, <3>2, Moves DEF Approving, RowsApproved, SeenApproved
    <2> QED
        BY <1>2, <1>3, <2>1, <2>2, <2>3 DEF Approving, SeenApproved
<1>8. portfolio'.by \in approved \cup {None} /\ portfolio'.watch \subseteq ApprovedItems
    <2>1. CASE ReplacePortfolio(k)
        <3>1. step[k] = "replace" /\ seen[k] \in Portfolio
            BY <2>1 DEF ReplacePortfolio, Running, Typed, SeenFits
        <3>2. portfolio' = portfolio \/ portfolio' = [seen[k] EXCEPT !.rev = now, !.by = c]
            BY <2>1 DEF ReplacePortfolio
        <3> QED
            BY <1>6, <3>1, <3>2 DEF Approving, RowsApproved, SeenApproved, Portfolio
    <2>2. CASE AddItem(k)
        <3>1. step[k] = "list" /\ Op(k) = "watchlist"
            BY <2>2 DEF AddItem, Running, Typed, StepFits
        <3>2. PICK i \in Items[conf[c].body] : portfolio' = [portfolio EXCEPT !.rev = now, !.watch = @ \cup {i}]
            BY <2>2 DEF AddItem
        <3>3. conf[c].body \in Batch
            BY <1>0, <3>1 DEF Typed, DraftFits, PhaseFits, Op, TypeOK, NoConf
        <3>4. i \in ApprovedItems
            BY <1>6, <3>1, <3>2, <3>3, Instance DEF Instance, ApprovedItems, Op
        <3> QED
            BY <3>2, <3>4 DEF Approving, RowsApproved, Typed, TypeOK, Portfolio
    <2> QED
        BY <2>1, <2>2, Effects DEF Approving, RowsApproved
<1>9. {prefs'.schedules, prefs'.notification} \subseteq approved \cup {None}
    <2>1. CASE WriteSchedules(k)
        BY <1>6, <2>1 DEF WriteSchedules, Running, Typed, TypeOK, Prefs, Approving, RowsApproved
    <2>2. CASE WriteNotification(k)
        BY <1>6, <2>2 DEF WriteNotification, Running, Typed, TypeOK, Prefs, Approving, RowsApproved
    <2>3. CASE RestorePreferences(k)
        BY <2>3 DEF RestorePreferences, Running, Approving, SeenApproved
    <2> QED
        BY <2>1, <2>2, <2>3, Effects DEF Approving, RowsApproved
<1>10. strategy'.by \in approved \cup {None}
    <2>1. CASE PatchStrategy(k)
        BY <1>6, <2>1 DEF PatchStrategy, Running
    <2>2. CASE RestoreStrategy(k)
        BY <2>2 DEF RestoreStrategy, Running, Approving, SeenApproved
    <2> QED
        BY <2>1, <2>2, Effects DEF Approving, RowsApproved
<1>11. \A d \in Conf : written'[d] > 0 => d \in approved
    BY <1>0, <1>6, Effects DEF Typed, TypeOK, Approving, RowsApproved
<1> QED
    BY <1>2, <1>3, <1>4, <1>5, <1>7, <1>8, <1>9, <1>10, <1>11 DEF Approving, RowsApproved

LEMMA ApprovingNext ==
    ASSUME Typed, Approving, [Next]_vars
    PROVE  Approving'
<1>0. \A j \in Call : Target[j] \in Conf
    BY Instance DEF Instance
<1>1. \/ UNCHANGED <<said, conf, rows, step, seen, approved, written>> /\ (now' = now \/ now' = now + 1)
      \/ \E explicit \in BOOLEAN : UserSays(explicit)
      \/ \E c \in Conf, op \in Operation :
             \E b \in Bodies(op), rev \in Bindings(op) : Register(c, op, b, rev)
      \/ \E k \in Call : Operate(k)
    BY DEF Next, vars, history, Tick, Acquire, Release
<1>2. now \in Int /\ said.at \in Int /\ \A c \in Conf : conf[c].at \in Int
    BY Instance DEF Instance, Typed, TypeOK, Draft, Time
<1>3. CASE UNCHANGED <<said, conf, rows, step, seen, approved, written>> /\ (now' = now \/ now' = now + 1)
    BY <1>0, <1>2, <1>3 DEF Approving, Clocked, Cleared, SeenApproved, RowsApproved, ApprovedItems,
       rows
<1>4. ASSUME NEW explicit \in BOOLEAN, UserSays(explicit) PROVE Approving'
    <2> DEFINE more == IF explicit THEN {c \in Conf : conf[c].status = "pending" /\ conf[c].at < now} ELSE {}
    <2>1. /\ said' = [at |-> now, explicit |-> explicit] /\ approved' = approved \cup more
          /\ UNCHANGED <<now, conf, rows, step, seen, written>>
        BY <1>4 DEF UserSays
    <2>2. ApprovedItems \subseteq ApprovedItems'
        BY <2>1 DEF ApprovedItems
    <2>3. Clocked'
        BY <1>2, <2>1 DEF Approving, Clocked
    <2> HIDE DEF more
    <2>4. Cleared' /\ SeenApproved' /\ RowsApproved'
        BY <2>1, <2>2 DEF Approving, Cleared, SeenApproved, RowsApproved, rows
    <2> QED
        BY <2>3, <2>4 DEF Approving
<1>5. ASSUME NEW c \in Conf, NEW op \in Operation, NEW b \in Bodies(op), NEW rev \in Bindings(op),
             Register(c, op, b, rev)
      PROVE  Approving'
    <2>1. /\ conf[c].status = "none" /\ conf'[c].at = now /\ conf'[c].status = "pending"
          /\ \A d \in Conf : d # c => conf'[d] = conf[d]
          /\ UNCHANGED <<now, said, rows, step, seen, approved, written>>
        BY <1>5 DEF Register, Typed, TypeOK, history
    <2>2. c \notin approved
        BY <2>1 DEF Approving, Clocked
    <2>3. ApprovedItems \subseteq ApprovedItems'
        BY <2>1, <2>2 DEF ApprovedItems, Typed, TypeOK
    <2>4. Clocked'
        BY <1>2, <2>1, <2>2 DEF Approving, Clocked
    <2>5. Cleared'
        BY <1>0, <2>1, <2>2 DEF Approving, Cleared
    <2>6. SeenApproved' /\ RowsApproved'
        BY <2>1, <2>3 DEF Approving, SeenApproved, RowsApproved, rows
    <2> QED
        BY <2>4, <2>5, <2>6 DEF Approving
<1> QED
    BY <1>1, <1>3, <1>4, <1>5, ApprovingOperate

\* Whatever the calls, their races and their failures: what is written was confirmed by the
\* user in an explicit message after the draft was registered.
THEOREM WritesAreApproved == Spec => []ApprovedBeforeWritten
<1>1. Typed /\ Approving => ApprovedBeforeWritten
    BY Instance DEF Instance, Typed, TypeOK, Approving, RowsApproved, ApprovedItems,
       ApprovedBeforeWritten, Wrote
<1> QED
    BY <1>1, TypedInit, TypedNext, ApprovingInit, ApprovingNext, PTL DEF Spec

-----------------------------------------------------------------------------
(* The consumption of a confirmation *)

\* The draft of a call that passed the validation stays pending until that call consumes
\* it, a watchlist batch's excepted; who is to consume has written; a confirmation that was
\* consumed is neither pending nor about to be.
Consuming ==
    /\ \A k \in Call :
          /\ step[k] \notin {"check", "validate", "left"} /\ Locked(Op(k)) => conf[Target[k]].status = "pending"
          /\ step[k] \in {"consume", "mark"} => written[Target[k]] > 0
    /\ \A c \in Conf :
          /\ conf[c].status \in {"none", "pending"} => consumed[c] = 0
          /\ Locked(conf[c].op) => consumed[c] <= 1
          /\ consumed[c] > 0 => written[c] > 0
          /\ portfolio.by = c => written[c] > 0

LEMMA ConsumingInit == Init => Consuming
    BY Instance DEF Instance, Init, Consuming, NoConf

LEMMA ConsumingOperate ==
    ASSUME Typed, LocksFit, Consuming, NEW k \in Call, Operate(k)
    PROVE  Consuming'
<1> DEFINE c == Target[k]
<1>0. c \in Conf /\ \A j \in Call : Target[j] \in Conf
    BY Instance DEF Instance
<1>1. Frame(k)
    BY Framed
<1>2. /\ \A j \in Call : j # k => step'[j] = step[j]
      /\ \A d \in Conf : /\ d # c => conf'[d] = conf[d]
                         /\ conf'[d].op = conf[d].op
                         /\ conf'[d].status = "none" <=> conf[d].status = "none"
                         /\ conf'[d].status = "pending" => conf[d].status = "pending"
    BY <1>1 DEF Frame, KeptDrafts
<1>3. \A d \in Conf : written[d] \in Nat /\ written'[d] \in Nat /\ written[d] <= written'[d]
    BY <1>0, Effects DEF Typed, TypeOK
<1>4. Complete(k) => written'[c] > 0 /\ written' = [written EXCEPT ![c] = @ + 1]
    BY <1>0 DEF Complete, Typed, TypeOK
<1>5. \A j \in Call : step'[j] \in {"consume", "mark"} => written'[Target[j]] > 0
    <2>1. step'[k] \in {"consume", "mark"} => written'[c] > 0
        <3>1. PlanPortfolio(k) /\ step'[k] = "consume" => portfolio.by = c
            BY DEF PlanPortfolio, Continue, Return, Typed, TypeOK
        <3>2. Consume(k) => step[k] = "consume"
            BY DEF Consume, Running
        <3> QED
            BY <1>0, <1>3, <1>4, <3>1, <3>2, Moves DEF Consuming
    <2> QED
        BY <1>0, <1>2, <1>3, <2>1 DEF Consuming
<1>6. ASSUME NEW j \in Call, step'[j] \notin {"check", "validate", "left"}, Locked(Op(j)')
      PROVE  conf'[Target[j]].status = "pending"
    <2>1. Op(j)' = Op(j) /\ Locked(Op(j))
        BY <1>0, <1>2, <1>6 DEF Op, Locked
    <2>2. CASE j = k
        <3>1. CASE Validate(k)
            BY <1>0, <1>6, <2>2, <3>1 DEF Validate, Continue, Return, Typed, TypeOK
        <3>2. CASE Consume(k)
            BY <1>0, <1>6, <2>2, <3>2 DEF Consume, Continue, Return, Typed, TypeOK
        <3>3. CASE Mark(k)
            BY <1>6, <2>2, <3>3 DEF Mark, Return, Typed, TypeOK
        <3>4. CASE conf' = conf /\ ~Validate(k)
            <4>1. step[k] \notin {"check", "validate", "left"}
                BY <1>6, <2>2, <3>4, Moves DEF CheckMessage, Validate, Continue, Return, Typed,
                   TypeOK, Running, Operate, Consume, Mark, Stop, PlanPortfolio, ReplacePortfolio,
                   AddItem, FinishItems, InsertRule, ReadPreferences, WriteSchedules,
                   WriteNotification, RestorePreferences, LoadStrategy, PatchStrategy,
                   DecideCandidate, RestoreStrategy
            <4> QED
                BY <2>1, <2>2, <3>4, <4>1 DEF Consuming
        <3> QED
            BY <3>1, <3>2, <3>3, <3>4, Effects
    <2>3. CASE j # k /\ Target[j] = c
        <3>1. phase[j] = "operating" /\ phase[k] = "operating" /\ Op(j) = Op(k)
            BY <1>1, <1>2, <1>6, <2>3, Inside DEF Frame, Op
        <3> QED
            BY <2>1, <2>3, <3>1, Exclusive
    <2>4. CASE j # k /\ Target[j] # c
        BY <1>0, <1>2, <1>6, <2>1, <2>4 DEF Consuming
    <2> QED
        BY <2>2, <2>3, <2>4
<1>7. \A d \in Conf : consumed'[d] = consumed[d] \/ (d = c /\ Mark(k) /\ consumed'[d] = consumed[d] + 1)
    BY <1>0, Effects DEF Mark, Typed, TypeOK
<1>8. Mark(k) => /\ step[k] = "mark" /\ conf'[c].status = "confirmed" /\ written[c] > 0
                 /\ Locked(conf[c].op) => consumed[c] = 0
    <2>1. Mark(k) => step[k] = "mark" /\ conf'[c].status = "confirmed"
        BY <1>0 DEF Mark, Running, Typed, TypeOK, Draft
    <2> QED
        BY <1>0, <2>1 DEF Consuming, Op
<1>9. \A d \in Conf : portfolio'.by = d => written'[d] > 0
    <2>1. CASE ReplacePortfolio(k)
        <3>1. \/ portfolio' = [seen[k] EXCEPT !.rev = now, !.by = c] /\ Complete(k)
              \/ portfolio' = portfolio
            BY <2>1 DEF ReplacePortfolio
        <3>2. seen[k] \in Portfolio
            BY <2>1 DEF ReplacePortfolio, Running, Typed, SeenFits
        <3>3. CASE portfolio' = [seen[k] EXCEPT !.rev = now, !.by = c] /\ Complete(k)
            <4>1. portfolio'.by = c
                BY <3>2, <3>3 DEF Portfolio
            <4> QED
                BY <1>4, <3>3, <4>1
        <3>4. CASE portfolio' = portfolio
            BY <1>3, <3>4 DEF Consuming
        <3> QED
            BY <3>1, <3>3, <3>4
    <2>2. CASE AddItem(k)
        BY <1>3, <2>2 DEF AddItem, Consuming, Typed, TypeOK, Portfolio
    <2> QED
        BY <1>3, <2>1, <2>2, Effects DEF Consuming
<1>10. \A d \in Conf : consumed[d] \in Nat
    BY DEF Typed, TypeOK
<1>11. \A d \in Conf : conf'[d].status \in {"none", "pending"} => consumed'[d] = 0
    BY <1>2, <1>7, <1>8 DEF Consuming
<1>12. \A d \in Conf : Locked(conf'[d].op) => consumed'[d] <= 1
    BY <1>2, <1>7, <1>8, <1>10 DEF Consuming
<1>13. \A d \in Conf : consumed'[d] > 0 => written'[d] > 0
    BY <1>3, <1>7, <1>8 DEF Consuming
<1> QED
    BY <1>5, <1>6, <1>9, <1>11, <1>12, <1>13 DEF Consuming

LEMMA ConsumingNext ==
    ASSUME Typed, LocksFit, Approving, Consuming, [Next]_vars
    PROVE  Consuming'
<1>0. \A j \in Call : Target[j] \in Conf
    BY Instance DEF Instance
<1>1. \/ UNCHANGED <<conf, rows, step, written, consumed>>
      \/ \E c \in Conf, op \in Operation :
             \E b \in Bodies(op), rev \in Bindings(op) : Register(c, op, b, rev)
      \/ \E k \in Call : Operate(k)
    BY DEF Next, vars, history, Tick, UserSays, Acquire, Release
<1>2. CASE UNCHANGED <<conf, rows, step, written, consumed>>
    BY <1>0, <1>2 DEF Consuming, Op, rows
<1>3. ASSUME NEW c \in Conf, NEW op \in Operation, NEW b \in Bodies(op), NEW rev \in Bindings(op),
             Register(c, op, b, rev)
      PROVE  Consuming'
    <2>1. /\ conf[c].status = "none" /\ conf'[c].status = "pending"
          /\ \A d \in Conf : d # c => conf'[d] = conf[d]
          /\ UNCHANGED <<rows, step, written, consumed>>
        BY <1>3 DEF Register, Typed, TypeOK, history
    <2>2. consumed[c] = 0
        BY <2>1 DEF Consuming
    <2> QED
        BY <1>0, <2>1, <2>2 DEF Consuming, Op, rows
<1> QED
    BY <1>1, <1>2, <1>3, ConsumingOperate

\* A confirmation is consumed only after its durable write succeeded, and that of a write
\* that runs under a resource lock once, whatever calls are made with it.
THEOREM ConsumptionIsOnce == Spec => []ConsumedOnce
<1>1. Typed /\ Consuming => ConsumedOnce
    <2> SUFFICES ASSUME Typed, Consuming, NEW c \in Conf, consumed[c] > 0
                 PROVE  written[c] > 0 /\ (Locked(conf[c].op) => consumed[c] = 1)
        BY DEF ConsumedOnce
    <2>1. consumed[c] \in Nat
        BY DEF Typed, TypeOK
    <2> QED
        BY <2>1 DEF Consuming
<1> QED
    BY <1>1, TypedInit, TypedNext, LocksInit, LocksNext, ApprovingInit, ApprovingNext,
       ConsumingInit, ConsumingNext, PTL DEF Spec

-----------------------------------------------------------------------------
(* Repeated writes *)

\* While a draft that was written once more than interrupted can be written again, the call
\* that wrote it last holds its locks to consume it.
Repeating ==
    \A c \in Conf : Locked(conf[c].op) =>
        /\ written[c] <= 1 + interrupted[c]
        /\ written[c] = 1 + interrupted[c] /\ conf[c].status = "pending" =>
               \E j \in Call : Target[j] = c /\ step[j] \in {"consume", "mark"}

\* A portfolio draft that was written is behind the portfolio, so that it is not validated
\* again.
PortfolioBound ==
    /\ portfolio.rev <= now
    /\ \A c \in Conf : conf[c].op = "portfolio" =>
           /\ conf[c].rev <= conf[c].at
           /\ written[c] > 0 => conf[c].rev < portfolio.rev
           /\ written[c] <= 1
    /\ \A k \in Call : step[k] \in {"plan", "replace"} => written[Target[k]] = 0

\* A method draft that was written has its candidate decided, so that it is not loaded again;
\* what a call wrote or will write of the strategy contains every decided candidate.
MethodBound ==
    /\ decided \subseteq strategy.patches
    /\ \A c \in Conf : conf[c].op = "method" =>
           /\ written[c] > 0 => conf[c].body \in decided
           /\ written[c] <= 1
    /\ \A k \in Call :
           /\ step[k] \in {"patch", "decide"} => /\ conf[Target[k]].body \notin decided
                                                 /\ decided \subseteq seen[k].patches
           /\ step[k] = "decide" => conf[Target[k]].body \in strategy.patches

Once == Repeating /\ PortfolioBound /\ MethodBound

LEMMA OnceInit == Init => Once
<1> SUFFICES ASSUME Init PROVE Once
    OBVIOUS
<1>1. Repeating
    BY DEF Init, Repeating
<1>2. PortfolioBound
    BY Instance DEF Instance, Init, PortfolioBound, NoConf
<1>3. MethodBound
    BY DEF Init, MethodBound, NoConf
<1> QED
    BY <1>1, <1>2, <1>3 DEF Once

\* The facts the three parts need of a step of an operation.
LEMMA Writes ==
    ASSUME Typed, LocksFit, NEW k \in Call, Operate(k)
    PROVE  /\ \A j \in Call : Target[j] \in Conf
           /\ \A j \in Call : j # k => step'[j] = step[j] /\ seen'[j] = seen[j]
           /\ \A d \in Conf : /\ d # Target[k] => conf'[d] = conf[d]
                              /\ conf'[d].op = conf[d].op /\ conf'[d].body = conf[d].body
                              /\ conf'[d].at = conf[d].at /\ conf'[d].rev = conf[d].rev
                              /\ conf'[d].status = "pending" => conf[d].status = "pending"
           /\ now' = now /\ torn \subseteq torn'
           /\ \A d \in Conf : interrupted[d] \in Nat /\ interrupted'[d] \in Nat /\ interrupted[d] <= interrupted'[d]
           /\ \A d \in Conf : d # Target[k] => written'[d] = written[d]
           /\ \/ written' = written
              \/ /\ written'[Target[k]] = written[Target[k]] + 1 /\ Complete(k)
                 /\ step[k] \in {"replace", "list", "insert", "notification", "decide"}
           /\ \A j \in Call : j # k /\ step[j] \notin {"check", "left"} /\ Locked(Op(k)) => Op(j) # Op(k)
           /\ \A d \in Conf : written[d] \in Nat /\ written'[d] \in Nat
<1>0. \A j \in Call : Target[j] \in Conf
    BY Instance DEF Instance
<1>1. Frame(k)
    BY Framed
<1>2. /\ \A j \in Call : j # k => step'[j] = step[j] /\ seen'[j] = seen[j]
      /\ \A d \in Conf : /\ d # Target[k] => conf'[d] = conf[d]
                         /\ conf'[d].op = conf[d].op /\ conf'[d].body = conf[d].body
                         /\ conf'[d].at = conf[d].at /\ conf'[d].rev = conf[d].rev
                         /\ conf'[d].status = "pending" => conf[d].status = "pending"
      /\ now' = now /\ phase[k] = "operating" /\ torn \subseteq torn'
      /\ \A d \in Conf : interrupted[d] <= interrupted'[d]
    BY <1>1 DEF Frame, KeptDrafts
<1>3. \A j \in Call : j # k /\ step[j] \notin {"check", "left"} /\ Locked(Op(k)) => Op(j) # Op(k)
    BY <1>2, Inside, Exclusive
<1>4. \/ written' = written
      \/ /\ written' = [written EXCEPT ![Target[k]] = @ + 1] /\ Complete(k)
         /\ step[k] \in {"replace", "list", "insert", "notification", "decide"}
    BY Effects
<1>5. written \in [Conf -> Nat] /\ interrupted \in [Conf -> Nat]
    BY DEF Typed, TypeOK
<1>6. interrupted' \in [Conf -> Nat]
    BY TypedOperate DEF Typed, TypeOK
<1> QED
    BY <1>0, <1>2, <1>3, <1>4, <1>5, <1>6

LEMMA RepeatingOperate ==
    ASSUME Typed, LocksFit, Consuming, Repeating, NEW k \in Call, Operate(k)
    PROVE  Repeating'
<1> DEFINE c == Target[k]
<1>1. ASSUME NEW d \in Conf, Locked(conf'[d].op)
      PROVE  /\ written'[d] <= 1 + interrupted'[d]
             /\ written'[d] = 1 + interrupted'[d] /\ conf'[d].status = "pending" =>
                    \E j \in Call : Target[j] = d /\ step'[j] \in {"consume", "mark"}
    <2>1. /\ Locked(conf[d].op) /\ written[d] <= 1 + interrupted[d]
          /\ written[d] = 1 + interrupted[d] /\ conf[d].status = "pending" =>
                 \E j \in Call : Target[j] = d /\ step[j] \in {"consume", "mark"}
        BY <1>1, Writes DEF Repeating
    <2>2. /\ written[d] \in Nat /\ interrupted[d] \in Nat /\ interrupted'[d] \in Nat
          /\ interrupted[d] <= interrupted'[d]
        BY Writes
    <2>3. CASE written'[d] = written[d]
        <3> SUFFICES ASSUME written[d] = 1 + interrupted'[d], conf'[d].status = "pending"
                     PROVE  \E j \in Call : Target[j] = d /\ step'[j] \in {"consume", "mark"}
            BY <2>1, <2>2, <2>3
        <3>1. written[d] = 1 + interrupted[d] /\ interrupted'[d] = interrupted[d] /\ conf[d].status = "pending"
            BY <2>1, <2>2, Writes
        <3>2. PICK j \in Call : Target[j] = d /\ step[j] \in {"consume", "mark"}
            BY <2>1, <3>1
        <3>3. CASE j # k
            BY <3>2, <3>3, Writes
        <3>4. CASE j = k
            <4>1. CASE Consume(k)
                <5>1. Continue(k, "mark") \/ interrupted' = [interrupted EXCEPT ![c] = @ + 1]
                    BY <4>1 DEF Consume
                <5>2. Continue(k, "mark") => step'[k] = "mark"
                    BY DEF Continue, Typed, TypeOK
                <5> QED
                    BY <2>2, <3>1, <3>2, <3>4, <5>1, <5>2 DEF Typed, TypeOK
            <4>2. CASE Mark(k)
                <5>1. conf'[c].status = "confirmed"
                    BY <4>2, Writes DEF Mark, Typed, TypeOK, Draft
                <5> QED
                    BY <3>2, <3>4, <5>1
            <4>3. CASE Stop(k)
                <5>1. interrupted' = [interrupted EXCEPT ![c] = @ + 1]
                    BY <3>2, <3>4, <4>3 DEF Stop
                <5> QED
                    BY <2>2, <3>1, <3>2, <3>4, <5>1 DEF Typed, TypeOK
            <4> QED
                BY <3>2, <3>4, <4>1, <4>2, <4>3 DEF Operate, Running, CheckMessage, Validate,
                   PlanPortfolio, ReplacePortfolio, AddItem, FinishItems, InsertRule,
                   ReadPreferences, WriteSchedules, WriteNotification, RestorePreferences,
                   LoadStrategy, PatchStrategy, DecideCandidate, RestoreStrategy
        <3> QED
            BY <3>3, <3>4
    <2>4. CASE /\ d = c /\ written'[c] = written[c] + 1 /\ Complete(k)
               /\ step[k] \in {"replace", "list", "insert", "notification", "decide"}
        <3>1. conf[c].status = "pending" /\ Locked(Op(k))
            BY <2>1, <2>4 DEF Consuming, Op
        <3>2. written[c] # 1 + interrupted[c]
            <4> SUFFICES ASSUME written[c] = 1 + interrupted[c] PROVE FALSE
                OBVIOUS
            <4>1. PICK j \in Call : Target[j] = c /\ step[j] \in {"consume", "mark"}
                BY <2>1, <2>4, <3>1
            <4>2. j # k /\ Op(j) = Op(k)
                BY <2>4, <4>1 DEF Op
            <4> QED
                BY <3>1, <4>1, <4>2, Writes
        <3>3. step'[k] = "consume"
            BY <2>4 DEF Complete, Continue, Typed, TypeOK
        <3> QED
            BY <2>1, <2>2, <2>4, <3>2, <3>3
    <2> QED
        BY <2>3, <2>4, Writes
<1> QED
    BY <1>1 DEF Repeating

LEMMA PortfolioOperate ==
    ASSUME Typed, LocksFit, Approving, PortfolioBound, NEW k \in Call, Operate(k)
    PROVE  PortfolioBound'
<1> DEFINE c == Target[k]
<1>0. /\ now \in Int /\ portfolio.rev \in Int
      /\ \A d \in Conf : conf[d].at \in Int /\ conf[d].rev \in Int
    BY Instance DEF Instance, Typed, TypeOK, Draft, Portfolio, Time, Unbound
<1>1. portfolio' = portfolio \/ (portfolio'.rev = now)
    <2>1. ReplacePortfolio(k) => portfolio' = portfolio \/ portfolio'.rev = now
        BY DEF ReplacePortfolio, Running, Typed, SeenFits, Portfolio
    <2>2. AddItem(k) => portfolio'.rev = now
        BY DEF AddItem, Typed, TypeOK, Portfolio
    <2> QED
        BY <2>1, <2>2, Effects
<1>2. portfolio.rev <= portfolio'.rev /\ portfolio'.rev <= now' /\ portfolio'.rev \in Int
    BY <1>0, <1>1, Writes DEF PortfolioBound
<1>3. step[k] = "replace" /\ written'[c] # written[c] => /\ portfolio'.rev = now /\ conf[c].at < now
                                                         /\ written[c] = 0
    <2> SUFFICES ASSUME step[k] = "replace", written'[c] # written[c]
                 PROVE  portfolio'.rev = now /\ conf[c].at < now /\ written[c] = 0
        OBVIOUS
    <2>1. ReplacePortfolio(k)
        BY Writes DEF Operate, Running, CheckMessage, Validate, Consume, Mark, Stop, PlanPortfolio,
           AddItem, FinishItems, InsertRule, ReadPreferences, WriteSchedules, WriteNotification,
           RestorePreferences, LoadStrategy, PatchStrategy, DecideCandidate, RestoreStrategy
    <2>2. portfolio'.rev = now
        BY <2>1 DEF ReplacePortfolio, Running, Typed, SeenFits, Portfolio, history
    <2> QED
        BY <2>2 DEF Approving, Cleared, PortfolioBound
<1>4. ASSUME NEW d \in Conf, conf'[d].op = "portfolio"
      PROVE  /\ conf'[d].rev <= conf'[d].at
             /\ written'[d] > 0 => conf'[d].rev < portfolio'.rev
             /\ written'[d] <= 1
    <2>1. /\ conf[d].rev <= conf[d].at /\ conf'[d].rev = conf[d].rev /\ conf'[d].at = conf[d].at
          /\ written[d] > 0 => conf[d].rev < portfolio.rev
          /\ written[d] <= 1
        BY <1>4, Writes DEF PortfolioBound
    <2>2. CASE written'[d] = written[d]
        BY <1>0, <1>2, <2>1, <2>2
    <2>3. CASE written'[d] # written[d]
        <3>1. d = c /\ written'[c] = written[c] + 1 /\ step[k] \in {"replace", "list", "insert", "notification", "decide"}
            BY <2>3, Writes
        <3>2. Op(k) = "portfolio"
            BY <1>4, <3>1, Writes DEF Op
        <3>3. step[k] = "replace"
            BY <3>1, <3>2 DEF Typed, StepFits
        <3> QED
            BY <1>0, <1>3, <2>1, <2>3, <3>1, <3>3
    <2> QED
        BY <2>2, <2>3
<1>5. ASSUME NEW j \in Call, step'[j] \in {"plan", "replace"} PROVE written'[Target[j]] = 0
    <2>1. CASE j = k
        <3>1. CASE Validate(k)
            <4>1. step[k] = "validate" /\ step'[k] # "left"
                BY <1>5, <2>1, <3>1 DEF Validate, Running
            <4>2. SameDigest(c) /\ step'[k] = FirstStep(conf[c].op)
                BY <3>1, <4>1 DEF Validate, Return, Continue, Typed, TypeOK
            <4>3. conf[c].op \in {"portfolio", "watchlist", "rule", "preferences", "method"}
                BY <3>1, Writes, Instance DEF Instance, Typed, PhaseFits, DraftFits, Validate,
                   Running
            <4>4. conf[c].op = "portfolio"
                BY <1>5, <2>1, <4>2, <4>3 DEF FirstStep
            <4>5. written[c] = 0
                BY <1>0, <4>2, <4>4, Writes DEF SameDigest, PortfolioBound
            <4> QED
                BY <2>1, <4>1, <4>5, Writes
        <3>2. CASE PlanPortfolio(k)
            <4>1. step[k] = "plan"
                BY <3>2 DEF PlanPortfolio, Running
            <4> QED
                BY <2>1, <4>1, Writes DEF PortfolioBound
        <3> QED
            BY <1>5, <2>1, <3>1, <3>2, Moves
    <2>2. CASE j # k /\ Target[j] = c
        <3>1. step[j] \in {"plan", "replace"} /\ Op(j) = Op(k) /\ Op(j) = "portfolio"
            BY <1>5, <2>2, Writes DEF Op, Typed, StepFits
        <3> QED
            BY <2>2, <3>1, Writes DEF Locked
    <2>3. CASE j # k /\ Target[j] # c
        BY <1>5, <2>3, Writes DEF PortfolioBound
    <2> QED
        BY <2>1, <2>2, <2>3
<1> QED
    BY <1>2, <1>4, <1>5 DEF PortfolioBound

LEMMA MethodOperate ==
    ASSUME Typed, LocksFit, MethodBound, NEW k \in Call, Operate(k)
    PROVE  MethodBound'
<1> DEFINE c == Target[k]
           b == conf[c].body
<1>0. /\ c \in Conf /\ \A j \in Call : conf'[Target[j]].body = conf[Target[j]].body
      /\ \A j \in Call : step[j] \in {"patch", "decide"} => Op(j) = "method"
    BY Writes DEF Typed, StepFits
<1>1. \A j \in Call : j # k /\ step[j] \in {"patch", "decide"} => step[k] \notin {"patch", "decide"}
    BY <1>0, Writes DEF Locked
<1>2. ASSUME PatchStrategy(k)
      PROVE  /\ step[k] = "patch" /\ step'[k] = "decide" /\ seen' = seen /\ decided' = decided
             /\ written' = written /\ strategy'.patches = seen[k].patches \cup {b}
    BY <1>2 DEF PatchStrategy, Running, Continue, Typed, TypeOK, history
<1>3. ASSUME RestoreStrategy(k)
      PROVE  /\ step[k] = "decide" /\ step'[k] = "left" /\ decided' = decided /\ written' = written
             /\ strategy' = seen[k]
    BY <1>3 DEF RestoreStrategy, Running, Return, Typed, TypeOK, history
<1>4. ASSUME DecideCandidate(k)
      PROVE  /\ step[k] = "decide" /\ step'[k] = "consume" /\ decided' = decided \cup {b}
             /\ strategy' = strategy /\ written'[c] = written[c] + 1
    BY <1>0, <1>4 DEF DecideCandidate, Running, Complete, Continue, Typed, TypeOK
<1>5. ASSUME LoadStrategy(k), step'[k] = "patch"
      PROVE  b \notin decided /\ seen'[k] = strategy /\ decided' = decided /\ strategy' = strategy
    BY <1>5 DEF LoadStrategy, Continue, Return, Typed, TypeOK, rows
<1>6. decided' \subseteq strategy'.patches
    BY <1>2, <1>3, <1>4, Effects DEF MethodBound
<1>7. ASSUME NEW d \in Conf, conf'[d].op = "method"
      PROVE  (written'[d] > 0 => conf'[d].body \in decided') /\ written'[d] <= 1
    <2>1. /\ written[d] > 0 => conf[d].body \in decided
          /\ written[d] <= 1 /\ conf'[d].body = conf[d].body /\ conf[d].op = "method"
        BY <1>7, Writes DEF MethodBound
    <2>2. decided \subseteq decided'
        BY <1>4, Effects
    <2>3. CASE written'[d] = written[d]
        BY <2>1, <2>2, <2>3
    <2>4. CASE written'[d] # written[d]
        <3>1. d = c /\ step[k] \in {"replace", "list", "insert", "notification", "decide"}
            BY <2>4, Writes
        <3>2. step[k] = "decide"
            BY <2>1, <3>1 DEF Op, Typed, StepFits
        <3>3. DecideCandidate(k)
            BY <2>4, <3>2, Writes DEF Operate, Running, CheckMessage, Validate, Consume, Mark, Stop,
               PlanPortfolio, ReplacePortfolio, AddItem, FinishItems, InsertRule, ReadPreferences,
               WriteSchedules, WriteNotification, RestorePreferences, LoadStrategy, PatchStrategy,
               RestoreStrategy, history
        <3>4. written[c] = 0
            BY <2>1, <3>1, <3>2, Writes DEF MethodBound
        <3> QED
            BY <1>4, <2>1, <3>1, <3>3, <3>4
    <2> QED
        BY <2>3, <2>4
<1>8. ASSUME NEW j \in Call
      PROVE  /\ step'[j] \in {"patch", "decide"} => /\ conf'[Target[j]].body \notin decided'
                                                    /\ decided' \subseteq seen'[j].patches
             /\ step'[j] = "decide" => conf'[Target[j]].body \in strategy'.patches
    <2>1. CASE j = k
        <3>1. CASE step'[k] = "patch"
            BY <1>0, <1>5, <2>1, <3>1, Moves DEF MethodBound
        <3>2. CASE step'[k] = "decide"
            BY <1>0, <1>2, <2>1, <3>2, Moves DEF MethodBound
        <3> QED
            BY <2>1, <3>1, <3>2
    <2>2. CASE j # k /\ step[j] \in {"patch", "decide"}
        <3>1. decided' = decided /\ strategy' = strategy
            BY <1>1, <1>2, <1>3, <1>4, <2>2, Effects
        <3> QED
            BY <1>0, <2>2, <3>1, Writes DEF MethodBound
    <2>3. CASE j # k /\ step[j] \notin {"patch", "decide"}
        BY <2>3, Writes
    <2> QED
        BY <2>1, <2>2, <2>3
<1> QED
    BY <1>6, <1>7, <1>8 DEF MethodBound

LEMMA OnceNext ==
    ASSUME Typed, LocksFit, Approving, Consuming, Once, [Next]_vars
    PROVE  Once'
<1>0. \A j \in Call : Target[j] \in Conf
    BY Instance DEF Instance
<1>1. \/ UNCHANGED <<conf, rows, step, seen, written, interrupted>> /\ (now' = now \/ now' = now + 1)
      \/ \E c \in Conf, op \in Operation :
             \E b \in Bodies(op), rev \in Bindings(op) : Register(c, op, b, rev)
      \/ \E k \in Call : Operate(k)
    BY DEF Next, vars, history, Tick, UserSays, Acquire, Release
<1>2. now \in Int /\ portfolio.rev \in Int
    BY Instance DEF Instance, Typed, TypeOK, Portfolio, Time
<1>3. CASE UNCHANGED <<conf, rows, step, seen, written, interrupted>> /\ (now' = now \/ now' = now + 1)
    <2>1. Repeating' /\ MethodBound'
        BY <1>3 DEF Once, Repeating, MethodBound, rows
    <2>2. PortfolioBound'
        BY <1>2, <1>3 DEF Once, PortfolioBound, rows
    <2> QED
        BY <2>1, <2>2 DEF Once
<1>4. ASSUME NEW c \in Conf, NEW op \in Operation, NEW b \in Bodies(op), NEW rev \in Bindings(op),
             Register(c, op, b, rev)
      PROVE  Once'
    <2>1. /\ conf[c].status = "none"
          /\ conf' = [conf EXCEPT ![c] = [status |-> "pending", op |-> op, body |-> b, at |-> now, rev |-> rev]]
          /\ UNCHANGED <<now, rows, step, seen, written, interrupted>>
        BY <1>4 DEF Register, history
    <2>2. /\ conf'[c] = [status |-> "pending", op |-> op, body |-> b, at |-> now, rev |-> rev]
          /\ \A d \in Conf : d # c => conf'[d] = conf[d]
        BY <2>1 DEF Typed, TypeOK
    <2>3. written[c] = 0
        BY <2>1 DEF Approving, Clocked, RowsApproved, Typed, TypeOK
    <2>4. op = "portfolio" => rev <= now
        BY <1>4 DEF Bindings, Once, PortfolioBound
    <2>5. \A j \in Call : step[j] \notin {"check", "left"} => Target[j] # c
        BY <2>1 DEF Approving, Clocked, Cleared
    <2>6. Repeating'
        <3>1. interrupted[c] \in Nat
            BY DEF Typed, TypeOK
        <3> QED
            BY <2>1, <2>2, <2>3, <3>1 DEF Once, Repeating
    <2>7. PortfolioBound'
        BY <2>1, <2>2, <2>3, <2>4, <2>5, <1>0 DEF Once, PortfolioBound, rows
    <2>8. MethodBound'
        BY <2>1, <2>2, <2>3, <2>5, <1>0 DEF Once, MethodBound, rows
    <2> QED
        BY <2>6, <2>7, <2>8 DEF Once
<1>5. ASSUME NEW k \in Call, Operate(k) PROVE Once'
    BY <1>5, RepeatingOperate, PortfolioOperate, MethodOperate DEF Once
<1> QED
    BY <1>1, <1>3, <1>4, <1>5

Inductive == Typed /\ LocksFit /\ Approving /\ Consuming /\ Once

LEMMA Invariance == Spec => []Inductive
<1>1. Init => Inductive
    BY TypedInit, LocksInit, ApprovingInit, ConsumingInit, OnceInit DEF Inductive
<1>2. Inductive /\ [Next]_vars => Inductive'
    BY TypedNext, LocksNext, ApprovingNext, ConsumingNext, OnceNext DEF Inductive
<1> QED
    BY <1>1, <1>2, PTL DEF Spec

\* A confirmed write is repeated no more often than a call that made it could not consume
\* the confirmation; a portfolio change or a method patch not even then.
THEOREM WritesAreOnce == Spec => []WrittenOnce
<1>1. Inductive => WrittenOnce
    BY DEF Inductive, Typed, TypeOK, Once, Repeating, PortfolioBound, MethodBound, WrittenOnce
<1> QED
    BY <1>1, Invariance, PTL

-----------------------------------------------------------------------------
(* The two documents of a write *)

\* A write of the candidate was left between its documents.
TornPatch(m) == \E c \in torn : conf[c].op = "method" /\ conf[c].body = m

\* A patch that is not decided is of the call that is about to decide it, or of a torn write;
\* what a call restores was like that before, and no other call is between.
PatchesTogether ==
    /\ \A m \in strategy.patches \ decided :
          \/ TornPatch(m)
          \/ \E k \in Call : step[k] = "decide" /\ conf[Target[k]].body = m
    /\ \A k \in Call : step[k] \in {"patch", "decide"} =>
          \A m \in seen[k].patches \ decided : TornPatch(m)

\* Schedules without their notification are of the call that is about to write it, or torn.
PrefsTogether ==
    /\ prefs.schedules # prefs.notification =>
          \/ prefs.schedules \in torn
          \/ \E k \in Call : step[k] = "notification" /\ prefs.schedules = Target[k]
    /\ \A k \in Call :
          /\ step[k] = "notification" => prefs.schedules = Target[k]
          /\ step[k] \in {"schedules", "notification"} /\ seen[k].schedules # seen[k].notification =>
                 seen[k].schedules \in torn

TornFits == \A c \in torn : conf[c].status # "none"

Together == PatchesTogether /\ PrefsTogether /\ TornFits

LEMMA TogetherInit == Init => Together
    BY DEF Init, Together, PatchesTogether, PrefsTogether, TornFits

LEMMA TornKept ==
    ASSUME Typed, LocksFit, NEW k \in Call, Operate(k), NEW m, TornPatch(m)
    PROVE  TornPatch(m)'
<1>1. PICK c \in torn : conf[c].op = "method" /\ conf[c].body = m
    BY DEF TornPatch
<1>2. c \in Conf /\ c \in torn'
    BY <1>1, Writes DEF Typed, TypeOK
<1>3. conf'[c].op = "method" /\ conf'[c].body = m
    BY <1>1, <1>2, Writes
<1> QED
    BY <1>2, <1>3 DEF TornPatch

LEMMA PatchesOperate ==
    ASSUME Typed, LocksFit, PatchesTogether, NEW k \in Call, Operate(k)
    PROVE  PatchesTogether'
<1> DEFINE c == Target[k]
           b == conf[c].body
<1>0. /\ c \in Conf /\ \A j \in Call : conf'[Target[j]].body = conf[Target[j]].body
      /\ \A j \in Call : step[j] \in {"load", "patch", "decide"} => Op(j) = "method"
    BY Writes DEF Typed, StepFits
<1>1. \A j \in Call : j # k /\ step[j] \in {"load", "patch", "decide"} => step[k] \notin {"load", "patch", "decide"}
    BY <1>0, Writes DEF Locked
<1>2. ASSUME PatchStrategy(k)
      PROVE  /\ step[k] = "patch" /\ step'[k] = "decide" /\ seen' = seen /\ decided' = decided
             /\ strategy'.patches = seen[k].patches \cup {b}
    BY <1>2 DEF PatchStrategy, Running, Continue, Typed, TypeOK, history
<1>3. ASSUME RestoreStrategy(k)
      PROVE  step[k] = "decide" /\ step'[k] = "left" /\ decided' = decided /\ strategy' = seen[k]
    BY <1>3 DEF RestoreStrategy, Running, Return, Typed, TypeOK, history
<1>4. ASSUME DecideCandidate(k)
      PROVE  /\ step[k] = "decide" /\ step'[k] = "consume" /\ decided' = decided \cup {b}
             /\ strategy' = strategy
    BY <1>4 DEF DecideCandidate, Running, Complete, Continue, Typed, TypeOK
<1>5. ASSUME LoadStrategy(k), step'[k] = "patch"
      PROVE  step[k] = "load" /\ seen'[k] = strategy /\ decided' = decided /\ strategy' = strategy
    BY <1>5 DEF LoadStrategy, Running, Continue, Return, Typed, TypeOK, rows
<1>6. decided \subseteq decided'
    BY <1>4, Effects
<1>7. ASSUME step[k] = "decide", ~DecideCandidate(k), ~RestoreStrategy(k), NEW m \in {b}
      PROVE  TornPatch(m)'
    <2>1. Stop(k)
        BY <1>7 DEF Operate, Running, CheckMessage, Validate, Consume, Mark, PlanPortfolio,
           ReplacePortfolio, AddItem, FinishItems, InsertRule, ReadPreferences, WriteSchedules,
           WriteNotification, RestorePreferences, LoadStrategy, PatchStrategy
    <2>2. c \in torn' /\ conf' = conf
        BY <1>7, <2>1 DEF Stop, Between
    <2>3. conf[c].op = "method" /\ conf[c].body = m
        BY <1>0, <1>7 DEF Op
    <2> QED
        BY <2>2, <2>3 DEF TornPatch
<1>8. ASSUME NEW m \in strategy'.patches \ decided'
      PROVE  \/ TornPatch(m)'
             \/ \E j \in Call : step'[j] = "decide" /\ conf'[Target[j]].body = m
    <2>1. CASE PatchStrategy(k)
        <3>1. CASE m = b
            BY <1>0, <1>2, <2>1, <3>1
        <3>2. CASE m # b
            BY <1>2, <1>8, <2>1, <3>2, TornKept DEF PatchesTogether
        <3> QED
            BY <3>1, <3>2
    <2>2. CASE RestoreStrategy(k)
        BY <1>3, <1>8, <2>2, TornKept DEF PatchesTogether
    <2>3. CASE ~PatchStrategy(k) /\ ~RestoreStrategy(k)
        <3>1. m \in strategy.patches \ decided
            BY <1>6, <1>8, <2>3, Effects
        <3>2. CASE TornPatch(m)
            BY <3>2, TornKept
        <3>3. ASSUME NEW j \in Call, step[j] = "decide", conf[Target[j]].body = m
              PROVE  TornPatch(m)' \/ step'[j] = "decide"
            <4>1. CASE j # k
                BY <3>3, <4>1, Writes
            <4>2. CASE j = k
                BY <1>4, <1>7, <1>8, <2>3, <3>3, <4>2
            <4> QED
                BY <4>1, <4>2
        <3> QED
            BY <1>0, <3>1, <3>2, <3>3 DEF PatchesTogether
    <2> QED
        BY <2>1, <2>2, <2>3
<1>9. ASSUME NEW j \in Call, step'[j] \in {"patch", "decide"}, NEW m \in seen'[j].patches \ decided'
      PROVE  TornPatch(m)'
    <2>1. CASE j = k /\ step'[k] = "patch"
        <3>1. LoadStrategy(k)
            BY <2>1, Moves
        <3>2. m \in strategy.patches \ decided
            BY <1>5, <1>9, <2>1, <3>1
        <3>3. ~\E i \in Call : step[i] = "decide"
            BY <1>1, <1>5, <2>1, <3>1
        <3> QED
            BY <3>2, <3>3, TornKept DEF PatchesTogether
    <2>2. CASE j = k /\ step'[k] = "decide"
        <3>1. PatchStrategy(k)
            BY <2>2, Moves
        <3> QED
            BY <1>2, <1>9, <2>2, <3>1, TornKept DEF PatchesTogether
    <2>3. CASE j # k
        <3>1. step'[j] = step[j] /\ seen'[j] = seen[j]
            BY <2>3, Writes
        <3> QED
            BY <1>6, <1>9, <3>1, TornKept DEF PatchesTogether
    <2> QED
        BY <1>9, <2>1, <2>2, <2>3
<1> QED
    BY <1>8, <1>9 DEF PatchesTogether

LEMMA PrefsOperate ==
    ASSUME Typed, LocksFit, PrefsTogether, NEW k \in Call, Operate(k)
    PROVE  PrefsTogether'
<1> DEFINE c == Target[k]
<1>1. \A j \in Call : step[j] \in {"read", "schedules", "notification"} => Op(j) = "preferences"
    BY DEF Typed, StepFits
<1>2. \A j \in Call : j # k /\ step[j] \in {"read", "schedules", "notification"} =>
          step[k] \notin {"read", "schedules", "notification"}
    BY <1>1, Writes DEF Locked
<1>3. ASSUME WriteSchedules(k)
      PROVE  /\ step[k] = "schedules" /\ step'[k] = "notification" /\ seen' = seen
             /\ prefs'.schedules = c
    BY <1>3 DEF WriteSchedules, Running, Continue, Typed, TypeOK, Prefs
<1>4. ASSUME WriteNotification(k)
      PROVE  /\ step[k] = "notification" /\ prefs'.schedules = prefs.schedules
             /\ prefs'.notification = c
    BY <1>4 DEF WriteNotification, Running, Typed, TypeOK, Prefs
<1>5. ASSUME RestorePreferences(k) PROVE step[k] = "notification" /\ prefs' = seen[k]
    BY <1>5 DEF RestorePreferences, Running
<1>6. ASSUME ReadPreferences(k), step'[k] = "schedules"
      PROVE  step[k] = "read" /\ seen'[k] = prefs
    BY <1>6 DEF ReadPreferences, Running, Return, Typed, TypeOK
<1>7. ASSUME prefs'.schedules # prefs'.notification
      PROVE  \/ prefs'.schedules \in torn'
             \/ \E j \in Call : step'[j] = "notification" /\ prefs'.schedules = Target[j]
    <2>1. CASE WriteSchedules(k)
        BY <1>3, <2>1
    <2>2. CASE WriteNotification(k)
        BY <1>4, <1>7, <2>2 DEF PrefsTogether
    <2>3. CASE RestorePreferences(k)
        BY <1>5, <1>7, <2>3, Writes DEF PrefsTogether
    <2>4. CASE prefs' = prefs /\ ~WriteNotification(k) /\ ~RestorePreferences(k)
        <3>1. CASE prefs.schedules \in torn
            BY <2>4, <3>1, Writes
        <3>2. ASSUME NEW j \in Call, step[j] = "notification", prefs.schedules = Target[j]
              PROVE  Target[j] \in torn' \/ step'[j] = "notification"
            <4>1. CASE j # k
                BY <3>2, <4>1, Writes
            <4>2. CASE j = k
                <5>1. Stop(k)
                    BY <2>4, <3>2, <4>2 DEF Operate, Running, CheckMessage, Validate, Consume, Mark,
                       PlanPortfolio, ReplacePortfolio, AddItem, FinishItems, InsertRule,
                       ReadPreferences, WriteSchedules, LoadStrategy, PatchStrategy,
                       DecideCandidate, RestoreStrategy
                <5> QED
                    BY <3>2, <4>2, <5>1 DEF Stop, Between
            <4> QED
                BY <4>1, <4>2
        <3> QED
            BY <1>7, <2>4, <3>1, <3>2 DEF PrefsTogether
    <2> QED
        BY <2>1, <2>2, <2>3, <2>4, Effects
<1>8. ASSUME NEW j \in Call, step'[j] = "notification" PROVE prefs'.schedules = Target[j]
    <2>1. CASE j = k
        BY <1>3, <1>8, <2>1, Moves
    <2>2. CASE j # k
        <3>1. step[j] = "notification"
            BY <1>8, <2>2, Writes
        <3>2. prefs' = prefs
            BY <1>2, <1>3, <1>4, <1>5, <2>2, <3>1, Effects
        <3> QED
            BY <3>1, <3>2 DEF PrefsTogether
    <2> QED
        BY <2>1, <2>2
<1>9. ASSUME NEW j \in Call, step'[j] \in {"schedules", "notification"},
             seen'[j].schedules # seen'[j].notification
      PROVE  seen'[j].schedules \in torn'
    <2>1. CASE j = k /\ step'[k] = "schedules"
        <3>1. ReadPreferences(k)
            BY <2>1, Moves
        <3>2. step[k] = "read" /\ seen'[k] = prefs
            BY <1>6, <2>1, <3>1
        <3>3. ~\E i \in Call : step[i] = "notification"
            BY <1>2, <3>2
        <3> QED
            BY <1>9, <2>1, <3>2, <3>3, Writes DEF PrefsTogether
    <2>2. CASE j = k /\ step'[k] = "notification"
        <3>1. WriteSchedules(k)
            BY <2>2, Moves
        <3> QED
            BY <1>3, <1>9, <2>2, <3>1, Writes DEF PrefsTogether
    <2>3. CASE j # k
        <3>1. step'[j] = step[j] /\ seen'[j] = seen[j]
            BY <2>3, Writes
        <3> QED
            BY <1>9, <3>1, Writes DEF PrefsTogether
    <2> QED
        BY <1>9, <2>1, <2>2, <2>3
<1> QED
    BY <1>7, <1>8, <1>9 DEF PrefsTogether

LEMMA TogetherNext ==
    ASSUME Typed, LocksFit, Together, [Next]_vars
    PROVE  Together'
<1>0. \A j \in Call : Target[j] \in Conf
    BY Instance DEF Instance
<1>1. \/ UNCHANGED <<conf, rows, step, seen, torn>>
      \/ \E c \in Conf, op \in Operation :
             \E b \in Bodies(op), rev \in Bindings(op) : Register(c, op, b, rev)
      \/ \E k \in Call : Operate(k)
    BY DEF Next, vars, history, Tick, UserSays, Acquire, Release
<1>2. CASE UNCHANGED <<conf, rows, step, seen, torn>>
    BY <1>2 DEF Together, PatchesTogether, PrefsTogether, TornFits, TornPatch, rows
<1>3. ASSUME NEW c \in Conf, NEW op \in Operation, NEW b \in Bodies(op), NEW rev \in Bindings(op),
             Register(c, op, b, rev)
      PROVE  Together'
    <2>1. /\ conf[c].status = "none" /\ UNCHANGED <<rows, step, seen, torn>>
          /\ \A d \in Conf : d # c => conf'[d] = conf[d]
        BY <1>3 DEF Register, history, Typed, TypeOK
    <2>2. \A d \in torn : d \in Conf /\ conf'[d] = conf[d]
        BY <2>1 DEF Together, TornFits, Typed, TypeOK
    <2>3. \A j \in Call : step[j] \in {"decide"} => conf'[Target[j]] = conf[Target[j]]
        BY <1>0, <2>1, Inside DEF Typed, PhaseFits
    <2>4. \A m : TornPatch(m)' <=> TornPatch(m)
        BY <2>1, <2>2 DEF TornPatch
    <2>5. PatchesTogether'
        BY <2>1, <2>3, <2>4 DEF Together, PatchesTogether, rows
    <2>6. PrefsTogether' /\ TornFits'
        BY <2>1, <2>2 DEF Together, PrefsTogether, TornFits, rows
    <2> QED
        BY <2>5, <2>6 DEF Together
<1>4. ASSUME NEW k \in Call, Operate(k) PROVE Together'
    <2>1. TornFits'
        <3>1. torn' \subseteq torn \cup {Target[k]}
            BY <1>4, Effects DEF Stop
        <3>2. conf[Target[k]].status # "none" /\ KeptDrafts
            BY <1>4, Framed DEF Frame, Typed, PhaseFits
        <3> QED
            BY <1>0, <3>1, <3>2 DEF Together, TornFits, KeptDrafts, Typed, TypeOK
    <2> QED
        BY <1>4, <2>1, PatchesOperate, PrefsOperate DEF Together
<1> QED
    BY <1>1, <1>2, <1>3, <1>4

\* A method candidate is confirmed only with its patch in the strategy; a patch that is not
\* confirmed, or schedules without their notification, are of a write whose call is between
\* the two documents, or was stopped there: a step that fails is undone completely.
THEOREM WritesAreTogether == Spec => []WrittenTogether
<1>1. Inductive /\ Together => WrittenTogether
    <2> SUFFICES ASSUME Inductive, Together PROVE WrittenTogether
        OBVIOUS
    <2>1. decided \subseteq strategy.patches
        BY DEF Inductive, Once, MethodBound
    <2>2. ASSUME NEW k \in Call, step[k] \in Between PROVE Target[k] \in Halfway
        BY <2>2, Inside DEF Inductive, Halfway, Between
    <2>3. \A m \in strategy.patches \ decided :
              \E c \in Halfway : conf[c].op = "method" /\ conf[c].body = m
        <3> SUFFICES ASSUME NEW m \in strategy.patches \ decided
                     PROVE  \E c \in Halfway : conf[c].op = "method" /\ conf[c].body = m
            OBVIOUS
        <3>1. CASE TornPatch(m)
            BY <3>1 DEF TornPatch, Halfway
        <3>2. ASSUME NEW k \in Call, step[k] = "decide", conf[Target[k]].body = m
              PROVE  \E c \in Halfway : conf[c].op = "method" /\ conf[c].body = m
            BY <2>2, <3>2 DEF Between, Inductive, Typed, StepFits, Op
        <3> QED
            BY <3>1, <3>2 DEF Together, PatchesTogether
    <2>4. prefs.schedules # prefs.notification => prefs.schedules \in Halfway
        BY <2>2 DEF Together, PrefsTogether, Halfway, Between
    <2> QED
        BY <2>1, <2>3, <2>4 DEF WrittenTogether
<1>2. Inductive /\ Together /\ [Next]_vars => Together'
    BY TogetherNext DEF Inductive
<1> QED
    BY <1>1, <1>2, TogetherInit, Invariance, PTL DEF Spec

-----------------------------------------------------------------------------
(* The portfolio as the abstract book *)

\* The portfolio a plan was made on has an earlier revision than any that is written now:
\* as long as it is the portfolio's, the watchlist has not changed.
SnapshotFits ==
    \A k \in Call : step[k] = "replace" /\ ~tied =>
        /\ seen[k].rev < now
        /\ seen[k].rev = portfolio.rev => seen[k].watch = portfolio.watch

LEMMA SnapshotOperate ==
    ASSUME Inductive, SnapshotFits, NEW k \in Call, Operate(k)
    PROVE  SnapshotFits'
<1>0. Typed /\ LocksFit /\ portfolio.rev \in Int /\ now \in Int
    BY Instance DEF Instance, Inductive, Typed, TypeOK, Portfolio, Time
<1>1. SUFFICES ASSUME NEW j \in Call, step'[j] = "replace", ~tied'
               PROVE  seen'[j].rev < now /\ (seen'[j].rev = portfolio'.rev => seen'[j].watch = portfolio'.watch)
    BY <1>0, Writes DEF SnapshotFits
<1>2. Op(k) = "portfolio" => Locked(Op(k))
    BY DEF Locked
<1>3. CASE j = k
    <2>1. PlanPortfolio(k)
        BY <1>0, <1>1, <1>3, Moves
    <2>2. /\ seen' = [seen EXCEPT ![k] = portfolio] /\ tied' = (tied \/ portfolio.rev = now)
          /\ portfolio' = portfolio
        BY <1>0, <1>1, <1>3, <2>1 DEF PlanPortfolio, Continue, Return, Typed, TypeOK, rows
    <2>3. seen'[k] = portfolio
        BY <1>0, <2>2 DEF Typed, TypeOK
    <2>4. portfolio.rev # now
        BY <1>1, <2>2
    <2> QED
        BY <1>0, <1>3, <2>2, <2>3, <2>4 DEF Inductive, Once, PortfolioBound
<1>4. CASE j # k
    <2>1. step[j] = "replace" /\ seen'[j] = seen[j]
        BY <1>0, <1>1, <1>4, Writes
    <2>2. ~tied
        BY <1>0, <1>1, Framed DEF Frame
    <2>3. seen[j].rev < now /\ (seen[j].rev = portfolio.rev => seen[j].watch = portfolio.watch)
        BY <2>1, <2>2 DEF SnapshotFits
    <2>4. seen[j].rev \in Int
        BY <1>0, <2>1, Instance DEF Instance, Typed, SeenFits, Portfolio, Time
    <2>5. ~ReplacePortfolio(k)
        <3>1. ReplacePortfolio(k) => Op(k) = "portfolio"
            BY <1>0 DEF ReplacePortfolio, Running, Typed, StepFits
        <3>2. Op(j) = "portfolio"
            BY <1>0, <2>1 DEF Typed, StepFits
        <3> QED
            BY <1>0, <1>2, <1>4, <2>1, <3>1, <3>2, Writes
    <2>6. CASE AddItem(k)
        <3>1. portfolio'.rev = now
            BY <1>0, <2>6 DEF AddItem, Typed, TypeOK, Portfolio
        <3> QED
            BY <1>0, <2>1, <2>3, <2>4, <3>1
    <2>7. CASE portfolio' = portfolio
        BY <2>1, <2>3, <2>7
    <2> QED
        BY <1>0, <2>5, <2>6, <2>7, Effects
<1> QED
    BY <1>3, <1>4

LEMMA SnapshotNext ==
    ASSUME Inductive, SnapshotFits, [Next]_vars
    PROVE  SnapshotFits'
<1>1. \/ UNCHANGED <<rows, step, seen, tied>> /\ (now' = now \/ now' = now + 1)
      \/ \E k \in Call : Operate(k)
    BY DEF Next, vars, history, Tick, UserSays, Register, Acquire, Release
<1>2. now \in Int /\ \A k \in Call : step[k] = "replace" => seen[k].rev \in Int
    BY Instance DEF Instance, Inductive, Typed, TypeOK, SeenFits, Portfolio, Time
<1>3. CASE UNCHANGED <<rows, step, seen, tied>> /\ (now' = now \/ now' = now + 1)
    BY <1>2, <1>3 DEF SnapshotFits, rows
<1> QED
    BY <1>1, <1>3, SnapshotOperate

Times == [c \in Conf |-> IF conf[c].op = "portfolio" THEN written[c] ELSE 0]

LEMMA BookOperate ==
    ASSUME Inductive, SnapshotFits, NEW k \in Call, Operate(k)
    PROVE  \/ tied'
           \/ portfolio'.watch = portfolio.watch /\ Times' = Times
           \/ \E i \in Code : /\ i \notin portfolio.watch /\ portfolio'.watch = portfolio.watch \cup {i}
                              /\ Times' = Times
           \/ \E c \in Conf : /\ Times[c] = 0 /\ Times' = [Times EXCEPT ![c] = 1]
                              /\ portfolio'.watch = portfolio.watch
<1> DEFINE c == Target[k]
<1>0. Typed /\ LocksFit /\ c \in Conf
    BY Instance DEF Instance, Inductive
<1>1. SUFFICES ASSUME ~tied'
               PROVE  \/ portfolio'.watch = portfolio.watch /\ Times' = Times
                      \/ \E i \in Code : /\ i \notin portfolio.watch /\ portfolio'.watch = portfolio.watch \cup {i}
                                         /\ Times' = Times
                      \/ \E d \in Conf : /\ Times[d] = 0 /\ Times' = [Times EXCEPT ![d] = 1]
                                         /\ portfolio'.watch = portfolio.watch
    OBVIOUS
<1>2. ASSUME ReplacePortfolio(k)
      PROVE  /\ step[k] = "replace" /\ Op(k) = "portfolio"
             /\ \/ portfolio' = portfolio /\ written' = written
                \/ /\ portfolio'.watch = portfolio.watch /\ written'[c] = 1 /\ written[c] = 0
                   /\ \A d \in Conf : d # c => written'[d] = written[d]
    <2>1. step[k] = "replace" /\ Op(k) = "portfolio" /\ seen[k] \in Portfolio
        BY <1>0, <1>2 DEF ReplacePortfolio, Running, Typed, StepFits, SeenFits
    <2>2. CASE portfolio' = [seen[k] EXCEPT !.rev = now, !.by = c] /\ SameRevision(k) /\ Complete(k)
        <3>1. ~tied
            BY <1>0, <1>1, Framed DEF Frame
        <3>2. seen[k].watch = portfolio.watch
            BY <2>1, <2>2, <3>1 DEF SnapshotFits, SameRevision
        <3>3. portfolio'.watch = seen[k].watch
            BY <2>1, <2>2 DEF Portfolio
        <3>4. written[c] = 0
            BY <2>1 DEF Inductive, Once, PortfolioBound
        <3>5. written' = [written EXCEPT ![c] = @ + 1]
            BY <2>2 DEF Complete
        <3> QED
            BY <1>0, <2>1, <3>2, <3>3, <3>4, <3>5 DEF Typed, TypeOK
    <2>3. CASE portfolio' = portfolio /\ written' = written
        BY <2>1, <2>3
    <2> QED
        BY <1>2, <2>2, <2>3 DEF ReplacePortfolio, history
<1>3. ASSUME NEW d \in Conf, ~ReplacePortfolio(k), conf[d].op = "portfolio"
      PROVE  written'[d] = written[d]
    <2> SUFFICES ASSUME written'[d] # written[d] PROVE FALSE
        OBVIOUS
    <2>1. d = c /\ step[k] \in {"replace", "list", "insert", "notification", "decide"} /\ Complete(k)
        BY <1>0, Writes
    <2>2. step[k] = "replace"
        BY <1>0, <1>3, <2>1 DEF Op, Typed, StepFits
    <2> QED
        BY <1>3, <2>2 DEF Operate, Running, CheckMessage, Validate, Consume, Mark, Stop,
           PlanPortfolio, AddItem, FinishItems, InsertRule, ReadPreferences, WriteSchedules,
           WriteNotification, RestorePreferences, LoadStrategy, PatchStrategy, DecideCandidate,
           RestoreStrategy
<1>4. \A d \in Conf : conf'[d].op = conf[d].op
    BY <1>0, Writes
<1>5. CASE ReplacePortfolio(k)
    <2>1. CASE portfolio' = portfolio /\ written' = written
        BY <1>4, <2>1 DEF Times
    <2>2. CASE /\ portfolio'.watch = portfolio.watch /\ written'[c] = 1 /\ written[c] = 0
               /\ \A d \in Conf : d # c => written'[d] = written[d]
        <3>1. Times[c] = 0 /\ Times' = [Times EXCEPT ![c] = 1]
            BY <1>0, <1>2, <1>4, <1>5, <2>2 DEF Times, Op
        <3> QED
            BY <1>0, <2>2, <3>1
    <2> QED
        BY <1>2, <1>5, <2>1, <2>2
<1>6. CASE ~ReplacePortfolio(k)
    <2>1. Times' = Times
        BY <1>3, <1>4, <1>6 DEF Times
    <2>2. CASE AddItem(k)
        <3>1. step[k] = "list" /\ Op(k) = "watchlist"
            BY <1>0, <2>2 DEF AddItem, Running, Typed, StepFits
        <3>2. conf[c].body \in Batch
            BY <1>0, <3>1 DEF Typed, DraftFits, Op, NoConf
        <3>3. PICK i \in Items[conf[c].body] \ portfolio.watch :
                  portfolio' = [portfolio EXCEPT !.rev = now, !.watch = @ \cup {i}]
            BY <2>2 DEF AddItem
        <3>4. i \in Code
            BY <3>2, <3>3, Instance DEF Instance
        <3>5. portfolio'.watch = portfolio.watch \cup {i}
            BY <1>0, <3>3 DEF Typed, TypeOK, Portfolio
        <3> QED
            BY <2>1, <3>3, <3>4, <3>5
    <2>3. CASE portfolio' = portfolio
        BY <2>1, <2>3
    <2> QED
        BY <1>0, <1>6, <2>2, <2>3, Effects
<1> QED
    BY <1>5, <1>6

LEMMA BookNextStep ==
    ASSUME Inductive, SnapshotFits, [Next]_vars
    PROVE  [Book!BookNext \/ tied']_(Book!bookVars)
<1>1. ASSUME UNCHANGED <<conf, rows, written>> PROVE UNCHANGED Book!bookVars
    BY <1>1 DEF Book!bookVars, rows
<1>2. ASSUME NEW c \in Conf, NEW op \in Operation, NEW b \in Bodies(op), NEW rev \in Bindings(op),
             Register(c, op, b, rev)
      PROVE  UNCHANGED Book!bookVars
    <2>1. /\ conf[c].status = "none" /\ UNCHANGED <<portfolio, written>>
          /\ \A d \in Conf : d # c => conf'[d] = conf[d]
        BY <1>2 DEF Register, rows, history, Inductive, Typed, TypeOK
    <2>2. written[c] = 0
        BY <2>1 DEF Inductive, Approving, Clocked, RowsApproved, Typed, TypeOK
    <2>3. Times' = Times
        BY <2>1, <2>2 DEF Times
    <2> QED
        BY <2>1, <2>3 DEF Book!bookVars, Times
<1>3. ASSUME NEW k \in Call, Operate(k) PROVE [Book!BookNext \/ tied']_(Book!bookVars)
    BY <1>3, BookOperate DEF Book!bookVars, Book!BookNext, Book!AddItem, Book!ApplyChange, Times
<1>4. \/ UNCHANGED <<conf, rows, written>>
      \/ \E c \in Conf, op \in Operation :
             \E b \in Bodies(op), rev \in Bindings(op) : Register(c, op, b, rev)
      \/ \E k \in Call : Operate(k)
    BY DEF Next, vars, history, Tick, UserSays, Acquire, Release
<1> QED
    BY <1>1, <1>2, <1>3, <1>4

\* The calls change the portfolio as the abstract book does, a confirmed change at most once
\* and no watchlist item lost, until a plan is made in the very millisecond in which the
\* portfolio was written.
THEOREM BookImplemented == Spec => ImplementsBook
<1>1. Init => Book!BookInit /\ SnapshotFits
    BY DEF Init, Book!BookInit, SnapshotFits, NoConf
<1>2. Inductive /\ SnapshotFits /\ [Next]_vars => SnapshotFits'
    BY SnapshotNext
<1>3. Inductive /\ SnapshotFits /\ [Next]_vars => [Book!BookNext \/ tied']_(Book!bookVars)
    BY BookNextStep
<1> QED
    BY <1>1, <1>2, <1>3, Invariance, PTL DEF Spec, ImplementsBook
=============================================================================
