----------------------------- MODULE MCServices -----------------------------
(* Services of the server that database transactions share with what no    *)
(* transaction undoes: files, PostgreSQL sequences, NOTIFY.  Each          *)
(* behaviour is about one of them.                                         *)
EXTENDS Filestore, NumberSequence, BusDispatch, TLC

VARIABLE service

allVars == <<service, fileVars, sequenceVars, busVars>>

MCInit == /\ service \in {"filestore", "sequence", "bus"}
          /\ FilestoreInit /\ SequenceInit /\ BusInit
          /\ service # "sequence" =>
                sequence = [implementation |-> "no_gap", useDateRange |-> FALSE]

UseFilestore ==
    service = "filestore" /\ FilestoreNext /\ UNCHANGED <<service, sequenceVars, busVars>>
UseSequence ==
    service = "sequence" /\ SequenceNext /\ UNCHANGED <<service, fileVars, busVars>>
UseBus == service = "bus" /\ BusNext /\ UNCHANGED <<service, fileVars, sequenceVars>>

MCNext == UseFilestore \/ UseSequence \/ UseBus

MCSpec == MCInit /\ [][MCNext]_allVars

TypesOK == FilestoreTypeOK /\ SequenceTypeOK /\ BusTypeOK

MCSymmetry == Permutations(Attachments) \cup Permutations(Files) \cup Permutations(Transactions)
              \cup Permutations(Pollers)
=============================================================================
