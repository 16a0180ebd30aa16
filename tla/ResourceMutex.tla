---------------------------- MODULE ResourceMutex ----------------------------
(***************************************************************************)
(* What withResourceMutationLock promises, without directories, owners or  *)
(* ages: a resource has at most one holder, an operation runs only while   *)
(* its call holds every resource it asked for, and a call that ended holds *)
(* nothing.                                                                *)
(***************************************************************************)
CONSTANTS Task, Key

VARIABLES Wants, holding, phase

mutexVars == <<holding, phase>>

MutexInit ==
    /\ holding = [t \in Task |-> {}]
    /\ phase = [t \in Task |-> "acquiring"]

Take(t, k) ==
    /\ phase[t] = "acquiring"
    /\ k \in Wants[t]
    /\ \A u \in Task : k \notin holding[u]
    /\ holding' = [holding EXCEPT ![t] = @ \cup {k}]
    /\ phase' = [phase EXCEPT ![t] = IF Wants[t] \subseteq holding'[t] THEN "operating" ELSE @]

\* A call with nothing to lock goes to its operation at once.
RunUnlocked(t) ==
    /\ phase[t] = "acquiring" /\ Wants[t] = {}
    /\ phase' = [phase EXCEPT ![t] = "operating"]
    /\ UNCHANGED holding

\* The operation ended, or the acquisition was given up.
Leave(t) ==
    /\ phase[t] \in {"acquiring", "operating"}
    /\ phase' = [phase EXCEPT ![t] = "releasing"]
    /\ UNCHANGED holding

Drop(t, k) ==
    /\ phase[t] = "releasing" /\ k \in holding[t]
    /\ holding' = [holding EXCEPT ![t] = @ \ {k}]
    /\ UNCHANGED phase

End(t) ==
    /\ phase[t] = "releasing" /\ holding[t] = {}
    /\ phase' = [phase EXCEPT ![t] = "ended"]
    /\ UNCHANGED holding

MutexNext ==
    \E t \in Task : \/ RunUnlocked(t) \/ Leave(t) \/ End(t)
                    \/ \E k \in Key : Take(t, k) \/ Drop(t, k)

MutexSpec == MutexInit /\ [][MutexNext]_mutexVars
=============================================================================
