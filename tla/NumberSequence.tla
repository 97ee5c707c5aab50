--------------------------- MODULE NumberSequence ---------------------------
(***************************************************************************)
(* Numbers drawn from an ir.sequence (src/autanac/addons/base/models/      *)
(* ir_sequence.py), for documents that are committed with them.  A number  *)
(* comes from a row with the column number_next (implementation no_gap) or *)
(* from a PostgreSQL sequence (standard), of the ir.sequence itself or of  *)
(* its ir.sequence.date_range that contains the date.                      *)
(*                                                                         *)
(* Transactions are REPEATABLE READ: all they read, in the record cache or *)
(* not, is of one snapshot, and a row that changed since cannot be locked. *)
(***************************************************************************)
EXTENDS Integers, Sequences, Functions, FiniteSets

CONSTANTS
    Requests,         \* transactions that draw numbers
    Main,             \* the row of the ir.sequence
    Ranges,           \* rows of ir.sequence.date_range, for one date
    NoRow,
    MaxDraws,         \* bound: numbers drawn in a transaction
    MaxIssued         \* bound: numbers of committed documents, and nextval

ASSUME SequenceAssumption ==
    /\ Main \notin Ranges
    /\ NoRow \notin Ranges \cup {Main}
    /\ MaxDraws \in Nat /\ MaxIssued \in Nat

VARIABLES
    sequence,     \* implementation and use_date_range
    numberNext,   \* rows -> number_next as committed (0: no such row)
    nextval,      \* rows -> what their PostgreSQL sequence gives next (0: none)
    request,      \* Requests -> the transaction
    issued        \* <<row, number>> of committed documents (history)

sequenceVars == <<sequence, numberNext, nextval, request, issued>>

Rows == Ranges \cup {Main}

(* snapshot includes the transaction's own changes, of the rows in         *)
(* written; stale are the rows that others have changed since.             *)
NoRequest == [pc |-> "idle", snapshot |-> [r \in Rows |-> 0], written |-> {}, stale |-> {},
              row |-> NoRow, number |-> 0, drawn |-> <<>>]

SequenceInit ==
    /\ sequence \in [implementation : {"standard", "no_gap"}, useDateRange : BOOLEAN]
    /\ numberNext = [r \in Rows |-> IF r = Main THEN 1 ELSE 0]
    /\ nextval = [r \in Rows |->
                    IF r = Main /\ sequence.implementation = "standard" THEN 1 ELSE 0]
    /\ request = [t \in Requests |-> NoRequest]
    /\ issued = <<>>

SequenceTypeOK ==
    /\ sequence \in [implementation : {"standard", "no_gap"}, useDateRange : BOOLEAN]
    /\ numberNext \in [Rows -> Nat]
    /\ nextval \in [Rows -> Nat]
    /\ \A t \in Requests :
          /\ request[t].pc \in {"idle", "begun", "read"}
          /\ request[t].snapshot \in [Rows -> Nat]
          /\ request[t].written \cup request[t].stale \subseteq Rows
          /\ request[t].row \in Rows \cup {NoRow}
          /\ Len(request[t].drawn) <= MaxDraws

LockedByOther(t, r) == \E u \in Requests \ {t} : r \in request[u].written

-----------------------------------------------------------------------------

Begin(t) ==
    /\ request[t].pc = "idle"
    /\ Len(issued) + Cardinality(Requests) * MaxDraws <= MaxIssued
    /\ request' = [request EXCEPT ![t] = [NoRequest EXCEPT !.pc = "begun",
                                                           !.snapshot = numberNext]]
    /\ UNCHANGED <<sequence, numberNext, nextval, issued>>

InRange(t) == {r \in Ranges : request[t].snapshot[r] # 0}
Created == {r \in Ranges : numberNext[r] # 0 \/ \E t \in Requests : r \in request[t].written}

(* _create_date_range_seq: no row of the snapshot contains the date.       *)
CreateRange(t) ==
    /\ request[t].pc = "begun"
    /\ sequence.useDateRange
    /\ InRange(t) = {}
    /\ \E r \in Ranges \ Created :
          /\ request' = [request EXCEPT ![t].snapshot[r] = 1, ![t].written = @ \cup {r}]
          /\ nextval' = [nextval EXCEPT
                             ![r] = IF sequence.implementation = "standard" THEN 1 ELSE 0]
    /\ UNCHANGED <<sequence, numberNext, issued>>

(* The row a number is drawn from: _next, up to _next_do.                  *)
CurrentRows(t) == IF sequence.useDateRange THEN InRange(t) ELSE {Main}

(* _select_nextval, which no rollback undoes.                              *)
SelectNextval(t) ==
    /\ request[t].pc = "begun"
    /\ sequence.implementation = "standard"
    /\ Len(request[t].drawn) < MaxDraws
    /\ \E r \in CurrentRows(t) :
          /\ nextval[r] <= MaxIssued
          /\ nextval' = [nextval EXCEPT ![r] = @ + 1]
          /\ request' = [request EXCEPT ![t].drawn = Append(@, <<r, nextval[r]>>)]
    /\ UNCHANGED <<sequence, numberNext, issued>>

(* _update_nogap reads number_next ...                                     *)
ReadNumberNext(t) ==
    /\ request[t].pc = "begun"
    /\ sequence.implementation = "no_gap"
    /\ Len(request[t].drawn) < MaxDraws
    /\ \E r \in CurrentRows(t) :
          request' = [request EXCEPT ![t].pc = "read", ![t].row = r,
                                     ![t].number = request[t].snapshot[r]]
    /\ UNCHANGED <<sequence, numberNext, nextval, issued>>

Drawn(t) ==
    LET q == request[t]
        r == q.row
    IN  [request EXCEPT ![t] = [q EXCEPT !.pc = "begun", !.row = NoRow, !.number = 0,
                                         !.snapshot[r] = q.snapshot[r] + 1,
                                         !.written = q.written \cup {r},
                                         !.drawn = Append(q.drawn, <<r, q.number>>)]]

(* Mutant: the transaction is READ COMMITTED: the lock is granted on the   *)
(* row as it is now.                                                       *)
MutUpdateNumberNext(t) ==
    /\ request[t].pc = "read"
    /\ ~LockedByOther(t, request[t].row)
    /\ request' = Drawn(t)
    /\ UNCHANGED <<sequence, numberNext, nextval, issued>>

(* ... then locks the row, or fails, and increments it.                    *)
UpdateNumberNext(t) ==
    /\ request[t].pc = "read"
    /\ ~LockedByOther(t, request[t].row)
    /\ request[t].row \notin request[t].stale
    /\ request' = Drawn(t)
    /\ UNCHANGED <<sequence, numberNext, nextval, issued>>

CommitRequest(t) ==
    /\ request[t].pc = "begun"
    /\ numberNext' = [r \in Rows |-> IF r \in request[t].written THEN request[t].snapshot[r]
                                     ELSE numberNext[r]]
    /\ issued' = issued \o request[t].drawn
    /\ request' = [u \in Requests |->
                     IF u = t \/ request[u].pc = "idle" THEN NoRequest
                     ELSE [request[u] EXCEPT !.stale = @ \cup request[t].written]]
    /\ UNCHANGED <<sequence, nextval>>

(* UserError (the row is locked), serialization failure, or any other      *)
(* error or crash.                                                         *)
RollbackRequest(t) ==
    /\ request[t].pc # "idle"
    /\ request' = [request EXCEPT ![t] = NoRequest]
    /\ nextval' = [r \in Rows |->
                     IF r \in Ranges /\ r \in request[t].written THEN 0 ELSE nextval[r]]
    /\ UNCHANGED <<sequence, numberNext, issued>>

SequenceNext ==
    \E t \in Requests :
        \/ Begin(t) \/ CreateRange(t) \/ SelectNextval(t) \/ ReadNumberNext(t)
        \/ UpdateNumberNext(t) \/ CommitRequest(t) \/ RollbackRequest(t)

SequenceSpec == SequenceInit /\ [][SequenceNext]_sequenceVars

-----------------------------------------------------------------------------

NumbersOf(docs, r) == {docs[i][2] : i \in {j \in DOMAIN docs : docs[j][1] = r}}

InOrder(docs) ==
    \A i, j \in DOMAIN docs : i < j /\ docs[i][1] = docs[j][1] => docs[i][2] < docs[j][2]

(* Of a no_gap sequence, the documents committed bear the numbers 1, 2 ... *)
(* in the order of the commits, and none is missing; of a standard one, no *)
(* number is borne twice.  This holds of the row the numbers come from.    *)
NumbersInLine ==
    IF sequence.implementation = "no_gap"
    THEN InOrder(issued) /\ \A r \in Rows : NumbersOf(issued, r) = 1 .. numberNext[r] - 1
    ELSE IsInjective(issued)
=============================================================================
