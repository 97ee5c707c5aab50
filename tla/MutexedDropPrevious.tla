------------------------ MODULE MutexedDropPrevious ------------------------
(***************************************************************************)
(* The class MutexedDropPrevious of web.concurrency                        *)
(* (src/addons/web/static/src/js/core/concurrency.js): one action at a     *)
(* time, and of the calls that come meanwhile only the last is kept.       *)
(*                                                                         *)
(* A call that had to wait has two promises: the one its caller holds      *)
(* (prom) and the one of the exec that unlock calls for it (inner), which  *)
(* settles the first.                                                      *)
(***************************************************************************)
EXTENDS Promises

VARIABLES
    locked,
    current,     \* currentProm: the call it was made for,
    isInner,     \*   and whether it is the promise of unlock's exec
    pending,     \* the call of pendingAction and pendingProm
    prom,        \* Calls -> the promise given to the caller
    inner,       \* Calls -> the promise of unlock's exec
    running,     \* the call whose action is in progress
    last,        \* the last call of exec (history)
    overtaken    \* calls of exec followed by another one before their action ended (history)

mdpVars == <<locked, current, isInner, pending, prom, inner, running, last, overtaken>>

MDPTypeOK ==
    /\ locked \in BOOLEAN /\ isInner \in BOOLEAN
    /\ {current, pending, running, last} \subseteq Calls \cup {Nobody}
    /\ prom \in [Calls -> PromiseStates]
    /\ inner \in [Calls -> PromiseStates]
    /\ overtaken \subseteq Calls

MDPInit ==
    /\ locked = FALSE /\ isInner = FALSE
    /\ current = Nobody /\ pending = Nobody /\ running = Nobody /\ last = Nobody
    /\ prom = [c \in Calls |-> "none"]
    /\ inner = [c \in Calls |-> "none"]
    /\ overtaken = {}

-----------------------------------------------------------------------------

(* exec of an idle helper: the action is called at once.                   *)
ExecFree(c) ==
    /\ prom[c] = "none"
    /\ ~locked
    /\ locked' = TRUE
    /\ current' = c /\ isInner' = FALSE
    /\ running' = c
    /\ prom' = [prom EXCEPT ![c] = "pending"]
    /\ last' = c
    /\ UNCHANGED <<pending, inner, overtaken>>

(* Mutant: the current promise is left alone.                          *)
MutExecLocked(c) ==
    /\ prom[c] = "none"
    /\ locked
    /\ pending' = c
    /\ prom' = [d \in Calls |-> IF d = c THEN "pending"
                                ELSE IF d = pending THEN Settle(prom[d], "rejected")
                                ELSE prom[d]]
    /\ last' = c
    /\ overtaken' = overtaken \cup (({pending, running} \cap Calls) \ {c})
    /\ UNCHANGED <<locked, current, isInner, inner, running>>

(* Mutant: the first of the pending calls is kept.                     *)
MutExecLockedFirst(c) ==
    /\ prom[c] = "none"
    /\ locked
    /\ pending' = IF pending = Nobody THEN c ELSE pending
    /\ prom' = [d \in Calls |->
                  IF d = c THEN "pending"
                  ELSE IF d = pending \/ (d = current /\ ~isInner)
                       THEN Settle(prom[d], "rejected")
                  ELSE prom[d]]
    /\ inner' = [d \in Calls |-> IF d = current /\ isInner THEN Settle(inner[d], "rejected")
                                 ELSE inner[d]]
    /\ last' = c
    /\ overtaken' = overtaken \cup (({pending, running} \cap Calls) \ {c})
    /\ UNCHANGED <<locked, current, isInner, running>>

(* exec while an action is in progress: the pending call and the current   *)
(* promise are rejected.                                                   *)
ExecLocked(c) ==
    /\ prom[c] = "none"
    /\ locked
    /\ pending' = c
    /\ prom' = [d \in Calls |->
                  IF d = c THEN "pending"
                  ELSE IF d = pending \/ (d = current /\ ~isInner)
                       THEN Settle(prom[d], "rejected")
                  ELSE prom[d]]
    /\ inner' = [d \in Calls |-> IF d = current /\ isInner THEN Settle(inner[d], "rejected")
                                 ELSE inner[d]]
    /\ last' = c
    /\ overtaken' = overtaken \cup (({pending, running} \cap Calls) \ {c})
    /\ UNCHANGED <<locked, current, isInner, running>>

(* The action's promise settles: the current promise follows, and unlock   *)
(* calls exec for the pending action, if there is one.                     *)
EndAction(outcome) ==
    /\ running # Nobody
    /\ IF isInner
       THEN prom' = prom
       ELSE prom' = [prom EXCEPT ![current] = Settle(@, outcome)]
    /\ inner' = [d \in Calls |->
                   IF d = pending THEN "pending"
                   ELSE IF d = current /\ isInner THEN Settle(inner[d], outcome)
                   ELSE inner[d]]
    /\ IF pending = Nobody
       THEN /\ locked' = FALSE /\ running' = Nobody
            /\ UNCHANGED <<current, isInner, pending>>
       ELSE /\ locked' = TRUE /\ running' = pending
            /\ current' = pending /\ isInner' = TRUE
            /\ pending' = Nobody
    /\ UNCHANGED <<last, overtaken>>

(* It is rejected with an Error, or the action throws (then the Promise    *)
(* constructor rejects the current promise): unlock is not called, now or  *)
(* ever, and guardedCatch does not pass the Error on to the caller.        *)
CrashAction ==
    /\ running # Nobody
    /\ running' = Nobody
    /\ \/ UNCHANGED <<prom, inner>>
       \/ /\ ~isInner
          /\ prom' = [prom EXCEPT ![current] = Settle(@, "rejected")]
          /\ UNCHANGED inner
    /\ UNCHANGED <<locked, current, isInner, pending, last, overtaken>>

(* Mutant: prom.reject is not passed on.                               *)
MutRelayInner(c) ==
    /\ inner[c] = "resolved"
    /\ prom[c] = "pending"
    /\ prom' = [prom EXCEPT ![c] = inner[c]]
    /\ UNCHANGED <<locked, current, isInner, pending, inner, running, last, overtaken>>

(* self.exec(action).then(prom.resolve).guardedCatch(prom.reject)          *)
RelayInner(c) ==
    /\ inner[c] \in {"resolved", "rejected"}
    /\ prom[c] = "pending"
    /\ prom' = [prom EXCEPT ![c] = inner[c]]
    /\ UNCHANGED <<locked, current, isInner, pending, inner, running, last, overtaken>>

MDPNext ==
    \/ \E c \in Calls : ExecFree(c) \/ ExecLocked(c) \/ RelayInner(c)
    \/ \E outcome \in {"resolved", "rejected"} : EndAction(outcome)
    \/ CrashAction

MDPSpec == MDPInit /\ [][MDPNext]_mdpVars

MDPFairness ==
    /\ \A c \in Calls : WF_mdpVars(RelayInner(c))
    /\ WF_mdpVars(CrashAction \/ \E outcome \in {"resolved", "rejected"} : EndAction(outcome))

Crashed == locked /\ running = Nobody

-----------------------------------------------------------------------------

(* "only the promise returned by the last exec call will be resolved (the  *)
(* other are rejected)": a call that was followed by another before its    *)
(* action ended is not resolved.                                           *)
OvertakenNotResolved ==
    \A c \in overtaken : prom[c] # "resolved"

(* The actions that are skipped are the useless ones: an action is called  *)
(* only for the last call of exec.                                         *)
StartsLastOnly ==
    [][running' \notin {running, Nobody} => running' = last']_mdpVars

(* Every caller gets an answer, the overtaken ones too, unless an action   *)
(* crashes.                                                                *)
EveryCallSettles ==
    \A c \in Calls : prom[c] = "pending" ~> prom[c] # "pending" \/ Crashed
=============================================================================
