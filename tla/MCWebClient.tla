----------------------------- MODULE MCWebClient -----------------------------
(* A client with one of the helpers of web.concurrency, calls of it, and   *)
(* for the mutex two waiters; or a form view of a record with two fields,  *)
(* one of them with an onchange, saved by click and by keyboard.           *)
EXTENDS Mutex, DropPrevious, MutexedDropPrevious, Form

CONSTANTS c1, c2, c3, c4, w1, w2, field1, field2, enter

VARIABLE part   \* what the behaviour is about

vars == <<part, mutexVars, dropVars, mdpVars, formVars>>

Init == /\ MutexInit /\ DropInit /\ MDPInit /\ FormInit
        /\ part \in {"Mutex", "DropMisordered", "DropPrevious", "MutexedDropPrevious", "Form"}
        /\ failMisordered => part = "DropMisordered"

UseMutex == /\ part = "Mutex"
            /\ MutexNext
            /\ UNCHANGED <<part, dropVars, mdpVars, formVars>>

UseDropMisordered == /\ part = "DropMisordered"
                     /\ OrderedNext
                     /\ UNCHANGED <<part, mutexVars, mdpVars, formVars>>

UseDropPrevious == /\ part = "DropPrevious"
                   /\ ReplacingNext
                   /\ UNCHANGED <<part, mutexVars, mdpVars, formVars>>

UseMutexedDropPrevious == /\ part = "MutexedDropPrevious"
                          /\ MDPNext
                          /\ UNCHANGED <<part, mutexVars, dropVars, formVars>>

UseForm == /\ part = "Form"
           /\ FormNext
           /\ UNCHANGED <<part, mutexVars, dropVars, mdpVars>>

Next == UseMutex \/ UseDropMisordered \/ UseDropPrevious \/ UseMutexedDropPrevious \/ UseForm

Spec == Init /\ [][Next]_vars /\ MutexFairness /\ MDPFairness

TypeOK == MutexTypeOK /\ DropTypeOK /\ MDPTypeOK /\ FormTypeOK
=============================================================================
