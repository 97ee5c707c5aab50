--------------------------- MODULE FilestoreProofs ---------------------------
(***************************************************************************)
(* For any attachments, files and transactions: a collection removes       *)
(* garbage only, and the garbage that is left is in the checklist but for  *)
(* the windows the model names (unlisted).                                 *)
(*                                                                         *)
(* The lock splits time: while a collection is at work no transaction has  *)
(* stored or will commit anything (GcAlone), so the whitelist stays what   *)
(* the table says.  For the checklist, what an attachment gives up must be *)
(* listed before the commit that gives it up (OldListed), and it is still  *)
(* what the committed row says then (OldIsCommitted).                      *)
(***************************************************************************)
EXTENDS Filestore, TLAPS

Marking == {tx[t].new : t \in {u \in Transactions : tx[u].pc = "mark"}}
Listed == checklist \cup unlisted \cup Marking

TxOK ==
    \A t \in Transactions :
        /\ tx[t].op = "create" => tx[t].old = None /\ tx[t].pc # "delete"
        /\ tx[t].op \in {"write", "unlink"} => tx[t].old # None
        /\ tx[t].pc \in {"write", "mark"} => tx[t].new # None
        /\ tx[t].pc = "done" => tx[t].flushed
        /\ tx[t].flushed => ~tx[t].conflict
        /\ tx[t].flushed => tx[t].pc \in {"delete", "done"}

RowsApart ==
    \A t, u \in Transactions :
        tx[t].flushed /\ tx[u].flushed /\ tx[t].row = tx[u].row => t = u

OldIsCommitted ==
    \A t \in Transactions :
        tx[t].pc # "idle" /\ ~tx[t].conflict => tx[t].old = storeFname[tx[t].row]

GcAlone ==
    /\ gc.pc # "idle" => \A t \in Transactions : ~tx[t].flushed
    /\ gc.swept # None => gc.pc = "sweeping"
    /\ gc.pc = "sweeping" => gc.whitelist \subseteq Range(storeFname)
    /\ gc.pc = "sweeping" => (gc.list \cap Range(storeFname)) \subseteq gc.whitelist

AllAccounted == disk \subseteq Range(storeFname) \cup Listed

OldListed ==
    \A t \in Transactions :
        tx[t].pc = "done" \/ (tx[t].op = "write" /\ tx[t].pc = "flush") =>
            (tx[t].old \in disk => tx[t].old \in Listed)

IInv == /\ FilestoreTypeOK
        /\ TxOK /\ RowsApart /\ OldIsCommitted /\ GcAlone
        /\ AllAccounted /\ OldListed


-----------------------------------------------------------------------------
(* Initially there is nothing.                                             *)
LEMMA InitIInv == FilestoreInit => IInv
  <1> SUFFICES ASSUME FilestoreInit PROVE IInv
      OBVIOUS
  <1> USE DEF FilestoreInit
  <1>1. FilestoreTypeOK
        BY DEF FilestoreTypeOK, MaybeFile, GcIdle
  <1>2. TxOK /\ RowsApart /\ OldIsCommitted
        BY DEF TxOK, RowsApart, OldIsCommitted, Idle
  <1>3. GcAlone /\ AllAccounted /\ OldListed
        BY DEF GcAlone, AllAccounted, OldListed, GcIdle, Idle
  <1> QED
      BY <1>1, <1>2, <1>3 DEF IInv

(* What a transaction that runs is.                                        *)
LEMMA RunningIsTx ==
    ASSUME FilestoreTypeOK, NEW t \in Transactions, tx[t].pc # "idle"
    PROVE  /\ tx[t] \in Tx
           /\ tx[t].op \in {"create", "write", "unlink"}
           /\ tx[t].pc \in {"write", "mark", "flush", "delete", "done"}
           /\ tx[t].row \in Attachments
           /\ tx[t].old \in MaybeFile
           /\ tx[t].new \in MaybeFile
           /\ tx[t].flushed \in BOOLEAN
           /\ tx[t].conflict \in BOOLEAN
  <1>1. tx[t] # Idle
        BY DEF Idle
  <1>2. tx[t] \in Tx
        BY <1>1 DEF FilestoreTypeOK
  <1> QED
      BY <1>2 DEF Tx

(* A transaction goes on to its next step: nothing else of it changes.     *)
LEMMA MoveOn ==
    ASSUME FilestoreTypeOK, NEW t \in Transactions, tx[t].pc # "idle",
           NEW pc \in {"write", "mark", "flush", "delete", "done"}, At(t, pc)
    PROVE  /\ tx' \in [Transactions -> Tx \cup {Idle}]
           /\ \A u \in Transactions :
                 /\ u # t => tx'[u] = tx[u]
                 /\ tx'[u].op = tx[u].op
                 /\ tx'[u].row = tx[u].row
                 /\ tx'[u].old = tx[u].old
                 /\ tx'[u].new = tx[u].new
                 /\ tx'[u].flushed = tx[u].flushed
                 /\ tx'[u].conflict = tx[u].conflict
           /\ tx'[t].pc = pc
  <1> DEFINE r == [tx[t] EXCEPT !.pc = pc]
  <1>1. tx[t] \in Tx
        BY RunningIsTx
  <1>2. /\ r \in Tx /\ r.pc = pc
        /\ r.op = tx[t].op /\ r.row = tx[t].row /\ r.old = tx[t].old
        /\ r.new = tx[t].new /\ r.flushed = tx[t].flushed
        /\ r.conflict = tx[t].conflict
        BY <1>1 DEF Tx
  <1>3. tx \in [Transactions -> Tx \cup {Idle}]
        BY DEF FilestoreTypeOK
  <1>4. tx' = [tx EXCEPT ![t] = r]
        BY DEF At
  <1> HIDE DEF r
  <1> QED
      BY <1>2, <1>3, <1>4

(***************************************************************************)
(* Every step preserves the invariant.                                     *)
(***************************************************************************)
LEMMA StartIInv ==
    ASSUME IInv, NEW t \in Transactions, tx[t] = Idle, NEW r \in Tx,
           tx' = [tx EXCEPT ![t] = r],
           r.flushed = FALSE, r.old = storeFname[r.row],
           r.op = "create" <=> r.old = None,
           \/ r.pc = "write" /\ r.new # None
           \/ r.pc = "flush" /\ r.op = "unlink",
           UNCHANGED <<disk, checklist, storeFname, gc, unlisted>>
    PROVE  IInv'
  <1> USE DEF IInv
  <1>1. /\ tx' \in [Transactions -> Tx \cup {Idle}]
        /\ tx'[t] = r
        /\ \A u \in Transactions \ {t} : tx'[u] = tx[u]
        BY DEF FilestoreTypeOK
  <1>2. FilestoreTypeOK'
        BY <1>1 DEF FilestoreTypeOK
  <1>3. TxOK' /\ RowsApart' /\ OldIsCommitted'
    <2>1. TxOK'
          BY <1>1 DEF TxOK
    <2>2. RowsApart'
          BY <1>1 DEF RowsApart
    <2>3. OldIsCommitted'
          BY <1>1 DEF OldIsCommitted
    <2> QED
        BY <2>1, <2>2, <2>3
  <1>4. GcAlone'
        BY <1>1 DEF GcAlone
  <1>5. Marking' = Marking
        BY <1>1 DEF Marking, Idle
  <1>6. AllAccounted' /\ OldListed'
        BY <1>1, <1>5 DEF AllAccounted, OldListed, Listed
  <1> QED
      BY <1>2, <1>3, <1>4, <1>6

LEMMA CreateIInv ==
    ASSUME IInv, NEW t \in Transactions, Create(t)
    PROVE  IInv'
  <1>1. PICK a \in Attachments, f \in Files :
            /\ storeFname[a] = None
            /\ tx' = [tx EXCEPT ![t] = [Idle EXCEPT !.op = "create", !.pc = "write",
                                                    !.row = a, !.new = f]]
        BY DEF Create
  <1> DEFINE r == [Idle EXCEPT !.op = "create", !.pc = "write", !.row = a, !.new = f]
  <1>2. /\ r \in Tx /\ r.flushed = FALSE /\ r.old = None /\ r.row = a
        /\ r.op = "create" /\ r.pc = "write"
        BY DEF Idle, Tx, MaybeFile
  <1>3. /\ tx[t] = Idle
        /\ UNCHANGED <<disk, checklist, storeFname, gc, unlisted>>
        BY DEF Create
  <1>4. tx' = [tx EXCEPT ![t] = r]
        BY <1>1
  <1>5. r.old = storeFname[r.row] /\ r.new # None
        BY <1>1, <1>2, NoneAssumption DEF Idle
  <1> HIDE DEF r
  <1> QED
      BY <1>2, <1>3, <1>4, <1>5, StartIInv

LEMMA WriteIInv ==
    ASSUME IInv, NEW t \in Transactions, Write(t)
    PROVE  IInv'
  <1>1. PICK a \in Attachments, f \in Files :
            /\ storeFname[a] # None
            /\ tx' = [tx EXCEPT ![t] = [Idle EXCEPT !.op = "write", !.pc = "write", !.row = a,
                                                    !.old = storeFname[a], !.new = f]]
        BY DEF Write
  <1> DEFINE r == [Idle EXCEPT !.op = "write", !.pc = "write", !.row = a,
                               !.old = storeFname[a], !.new = f]
  <1>2. storeFname[a] \in MaybeFile
        BY DEF IInv, FilestoreTypeOK
  <1>3. /\ r \in Tx /\ r.flushed = FALSE /\ r.old = storeFname[a] /\ r.row = a
        /\ r.op = "write" /\ r.pc = "write" /\ r.new # None
        BY <1>2, NoneAssumption DEF Idle, Tx, MaybeFile
  <1>4. /\ tx[t] = Idle
        /\ UNCHANGED <<disk, checklist, storeFname, gc, unlisted>>
        BY DEF Write
  <1>5. tx' = [tx EXCEPT ![t] = r]
        BY <1>1
  <1> HIDE DEF r
  <1>6. r.old # None
        BY <1>1, <1>3
  <1> QED
      BY <1>3, <1>4, <1>5, <1>6, StartIInv

LEMMA UnlinkIInv ==
    ASSUME IInv, NEW t \in Transactions, Unlink(t)
    PROVE  IInv'
  <1>1. PICK a \in Attachments :
            /\ storeFname[a] # None
            /\ tx' = [tx EXCEPT ![t] = [Idle EXCEPT !.op = "unlink", !.pc = "flush", !.row = a,
                                                    !.old = storeFname[a]]]
        BY DEF Unlink
  <1> DEFINE r == [Idle EXCEPT !.op = "unlink", !.pc = "flush", !.row = a,
                               !.old = storeFname[a]]
  <1>2. storeFname[a] \in MaybeFile
        BY DEF IInv, FilestoreTypeOK
  <1>3. /\ r \in Tx /\ r.flushed = FALSE /\ r.old = storeFname[a] /\ r.row = a
        /\ r.op = "unlink" /\ r.pc = "flush"
        BY <1>2 DEF Idle, Tx, MaybeFile
  <1>4. /\ tx[t] = Idle
        /\ UNCHANGED <<disk, checklist, storeFname, gc, unlisted>>
        BY DEF Unlink
  <1>5. tx' = [tx EXCEPT ![t] = r]
        BY <1>1
  <1> HIDE DEF r
  <1>6. r.old # None
        BY <1>1, <1>3
  <1> QED
      BY <1>3, <1>4, <1>5, <1>6, StartIInv

(* Going on to the next step disturbs neither the rows nor the collection. *)
LEMMA MoveOnIInv ==
    ASSUME IInv, NEW t \in Transactions, tx[t].pc # "idle",
           NEW pc \in {"write", "mark", "flush", "delete", "done"}, At(t, pc),
           pc = "done" => tx[t].flushed,
           pc = "delete" => tx[t].op # "create",
           pc \in {"write", "mark"} => tx[t].new # None,
           tx[t].flushed => pc \in {"delete", "done"},
           UNCHANGED <<storeFname, gc>>
    PROVE  TxOK' /\ RowsApart' /\ OldIsCommitted' /\ GcAlone'
  <1> USE DEF IInv
  <1>1. /\ \A u \in Transactions :
              /\ u # t => tx'[u] = tx[u]
              /\ tx'[u].op = tx[u].op
              /\ tx'[u].row = tx[u].row
              /\ tx'[u].old = tx[u].old
              /\ tx'[u].new = tx[u].new
              /\ tx'[u].flushed = tx[u].flushed
              /\ tx'[u].conflict = tx[u].conflict
        /\ tx'[t].pc = pc
        BY MoveOn
  <1>2. TxOK'
        BY <1>1 DEF TxOK
  <1>3. RowsApart'
        BY <1>1 DEF RowsApart
  <1>4. OldIsCommitted'
        BY <1>1 DEF OldIsCommitted
  <1>5. GcAlone'
        BY <1>1 DEF GcAlone
  <1> QED
      BY <1>2, <1>3, <1>4, <1>5

LEMMA FileWriteIInv ==
    ASSUME IInv, NEW t \in Transactions, FileWrite(t)
    PROVE  IInv'
  <1> USE DEF IInv
  <1> DEFINE f == tx[t].new
             pc == IF f \in disk THEN AfterFileWrite(t) ELSE "mark"
  <1>1. /\ tx[t].pc = "write"
        /\ disk' = disk \cup {f}
        /\ At(t, pc)
        /\ UNCHANGED <<checklist, storeFname, gc, unlisted>>
        BY DEF FileWrite
  <1>2. /\ f \in Files
        /\ ~tx[t].flushed
        /\ pc \in {"mark", "flush", "delete"}
        /\ pc = "mark" <=> f \notin disk
        /\ pc = "flush" => tx[t].op = "create"
        /\ pc = "delete" => tx[t].op # "create"
        BY <1>1, RunningIsTx DEF TxOK, MaybeFile, AfterFileWrite
  <1>3. /\ tx' \in [Transactions -> Tx \cup {Idle}]
        /\ \A u \in Transactions :
              /\ u # t => tx'[u] = tx[u]
              /\ tx'[u].op = tx[u].op
              /\ tx'[u].old = tx[u].old
              /\ tx'[u].new = tx[u].new
        /\ tx'[t].pc = pc
        BY <1>1, <1>2, MoveOn
  <1> HIDE DEF pc
  <1>4. FilestoreTypeOK'
        BY <1>1, <1>2, <1>3 DEF FilestoreTypeOK
  <1>5. TxOK' /\ RowsApart' /\ OldIsCommitted' /\ GcAlone'
    <2>1. pc \in {"mark"} => tx[t].new # None
          BY <1>1 DEF TxOK
    <2> QED
        BY <1>1, <1>2, <2>1, MoveOnIInv
  <1>6. Marking' = IF f \in disk THEN Marking ELSE Marking \cup {f}
        BY <1>1, <1>2, <1>3 DEF Marking
  <1>7. AllAccounted'
        BY <1>1, <1>6 DEF AllAccounted, Listed
  <1>8. OldListed'
        BY <1>1, <1>2, <1>3, <1>6 DEF OldListed, Listed
  <1> QED
      BY <1>4, <1>5, <1>7, <1>8

(* A file written in part is left without a mark; its name goes on.        *)
LEMMA WriteFailsIInv ==
    ASSUME IInv, NEW t \in Transactions, WriteFails(t)
    PROVE  IInv'
  <1> USE DEF IInv
  <1> DEFINE f == tx[t].new
             pc == AfterFileWrite(t)
  <1>1. /\ tx[t].pc = "write"
        /\ disk \subseteq disk' /\ disk' \subseteq disk \cup {f}
        /\ unlisted \subseteq unlisted' /\ unlisted' \subseteq unlisted \cup {f}
        /\ f \in disk' \ disk => f \in checklist \cup unlisted'
        /\ At(t, pc)
        /\ UNCHANGED <<checklist, storeFname, gc>>
        BY DEF WriteFails, LeftUnmarked
  <1>2. /\ f \in Files
        /\ ~tx[t].flushed
        /\ pc \in {"flush", "delete"}
        /\ pc = "flush" => tx[t].op = "create"
        /\ pc = "delete" => tx[t].op # "create"
        BY <1>1, RunningIsTx DEF TxOK, MaybeFile, AfterFileWrite
  <1>3. /\ tx' \in [Transactions -> Tx \cup {Idle}]
        /\ \A u \in Transactions :
              /\ u # t => tx'[u] = tx[u]
              /\ tx'[u].op = tx[u].op
              /\ tx'[u].old = tx[u].old
              /\ tx'[u].new = tx[u].new
        /\ tx'[t].pc = pc
        BY <1>1, <1>2, MoveOn
  <1> HIDE DEF pc
  <1>4. FilestoreTypeOK'
        BY <1>1, <1>2, <1>3 DEF FilestoreTypeOK
  <1>5. TxOK' /\ RowsApart' /\ OldIsCommitted' /\ GcAlone'
        BY <1>1, <1>2, MoveOnIInv
  <1>6. Marking' = Marking
        BY <1>1, <1>2, <1>3 DEF Marking
  <1>7. Listed \subseteq Listed' /\ disk' \ disk \subseteq Listed'
        BY <1>1, <1>6 DEF Listed
  <1>8. AllAccounted'
        BY <1>1, <1>7 DEF AllAccounted
  <1>9. OldListed'
        BY <1>1, <1>2, <1>3, <1>7 DEF OldListed
  <1> QED
      BY <1>4, <1>5, <1>8, <1>9

LEMMA MarkWrittenIInv ==
    ASSUME IInv, NEW t \in Transactions, MarkWritten(t)
    PROVE  IInv'
  <1> USE DEF IInv
  <1> DEFINE f == tx[t].new
             pc == AfterFileWrite(t)
  <1>1. /\ tx[t].pc = "mark"
        /\ MarkForGc(f)
        /\ At(t, pc)
        /\ UNCHANGED <<disk, storeFname, gc>>
        BY DEF MarkWritten
  <1>2. /\ f \in Files
        /\ ~tx[t].flushed
        /\ pc \in {"flush", "delete"}
        /\ pc = "flush" => tx[t].op = "create"
        /\ pc = "delete" => tx[t].op # "create"
        BY <1>1, RunningIsTx DEF TxOK, MaybeFile, AfterFileWrite
  <1>3. /\ tx' \in [Transactions -> Tx \cup {Idle}]
        /\ \A u \in Transactions :
              /\ u # t => tx'[u] = tx[u]
              /\ tx'[u].op = tx[u].op
              /\ tx'[u].old = tx[u].old
              /\ tx'[u].new = tx[u].new
        /\ tx'[t].pc = pc
        BY <1>1, <1>2, MoveOn
  <1> HIDE DEF pc
  <1>4. FilestoreTypeOK'
        BY <1>1, <1>2, <1>3 DEF FilestoreTypeOK, MarkForGc
  <1>5. TxOK' /\ RowsApart' /\ OldIsCommitted' /\ GcAlone'
        BY <1>1, <1>2, MoveOnIInv
  <1>6. Marking \ {f} \subseteq Marking' /\ Marking' \subseteq Marking
        BY <1>1, <1>2, <1>3 DEF Marking
  <1>7. Listed \subseteq Listed'
        BY <1>1, <1>6 DEF MarkForGc, Listed
  <1>8. AllAccounted'
        BY <1>1, <1>7 DEF AllAccounted
  <1>9. OldListed'
        BY <1>1, <1>2, <1>3, <1>7 DEF OldListed
  <1> QED
      BY <1>4, <1>5, <1>8, <1>9

LEMMA MarkFailsIInv ==
    ASSUME IInv, NEW t \in Transactions, MarkFails(t)
    PROVE  IInv'
  <1> USE DEF IInv
  <1> DEFINE f == tx[t].new
             pc == AfterFileWrite(t)
  <1>1. /\ tx[t].pc = "mark"
        /\ unlisted' = unlisted \cup ({f} \ checklist)
        /\ At(t, pc)
        /\ UNCHANGED <<disk, checklist, storeFname, gc>>
        BY DEF MarkFails, LeftUnmarked
  <1>2. /\ f \in Files
        /\ ~tx[t].flushed
        /\ pc \in {"flush", "delete"}
        /\ pc = "flush" => tx[t].op = "create"
        /\ pc = "delete" => tx[t].op # "create"
        BY <1>1, RunningIsTx DEF TxOK, MaybeFile, AfterFileWrite
  <1>3. /\ tx' \in [Transactions -> Tx \cup {Idle}]
        /\ \A u \in Transactions :
              /\ u # t => tx'[u] = tx[u]
              /\ tx'[u].op = tx[u].op
              /\ tx'[u].old = tx[u].old
              /\ tx'[u].new = tx[u].new
        /\ tx'[t].pc = pc
        BY <1>1, <1>2, MoveOn
  <1> HIDE DEF pc
  <1>4. FilestoreTypeOK'
        BY <1>1, <1>2, <1>3 DEF FilestoreTypeOK
  <1>5. TxOK' /\ RowsApart' /\ OldIsCommitted' /\ GcAlone'
        BY <1>1, <1>2, MoveOnIInv
  <1>6. Marking \ {f} \subseteq Marking' /\ Marking' \subseteq Marking
        BY <1>1, <1>2, <1>3 DEF Marking
  <1>7. Listed \subseteq Listed'
        BY <1>1, <1>6 DEF Listed
  <1>8. AllAccounted'
        BY <1>1, <1>7 DEF AllAccounted
  <1>9. OldListed'
        BY <1>1, <1>2, <1>3, <1>7 DEF OldListed
  <1> QED
      BY <1>4, <1>5, <1>8, <1>9

LEMMA FileDeleteIInv ==
    ASSUME IInv, NEW t \in Transactions, FileDelete(t)
    PROVE  IInv'
  <1> USE DEF IInv
  <1> DEFINE f == tx[t].old
             pc == IF tx[t].flushed THEN "done" ELSE "flush"
  <1>1. /\ tx[t].pc = "delete"
        /\ MarkForGc(f)
        /\ At(t, pc)
        /\ UNCHANGED <<disk, storeFname, gc>>
        BY DEF FileDelete
  <1>2. /\ f \in Files
        /\ pc \in {"flush", "done"}
        BY <1>1, RunningIsTx DEF TxOK, MaybeFile
  <1>3. /\ tx' \in [Transactions -> Tx \cup {Idle}]
        /\ \A u \in Transactions :
              /\ u # t => tx'[u] = tx[u]
              /\ tx'[u].op = tx[u].op
              /\ tx'[u].old = tx[u].old
              /\ tx'[u].new = tx[u].new
        /\ tx'[t].pc = pc
        BY <1>1, <1>2, MoveOn
  <1>4. FilestoreTypeOK'
        BY <1>1, <1>2, <1>3 DEF FilestoreTypeOK, MarkForGc
  <1>5. TxOK' /\ RowsApart' /\ OldIsCommitted' /\ GcAlone'
        BY <1>1, <1>2, MoveOnIInv
  <1>6. Marking' = Marking
        BY <1>1, <1>2, <1>3 DEF Marking
  <1>7. Listed \subseteq Listed' /\ f \in Listed'
        BY <1>1, <1>6 DEF MarkForGc, Listed
  <1>8. AllAccounted'
        BY <1>1, <1>7 DEF AllAccounted
  <1>9. OldListed'
        BY <1>1, <1>3, <1>7 DEF OldListed
  <1> QED
      BY <1>4, <1>5, <1>8, <1>9

(* The statement waits for the collection and for the other changes of the *)
(* row; what it replaces is listed by then.                                *)
LEMMA FlushIInv ==
    ASSUME IInv, NEW t \in Transactions, Flush(t)
    PROVE  IInv'
  <1> USE DEF IInv
  <1> DEFINE pc == IF tx[t].op = "unlink" THEN "delete" ELSE "done"
             r == [tx[t] EXCEPT !.flushed = TRUE, !.pc = pc]
  <1>1. /\ tx[t].pc = "flush" /\ gc.pc = "idle" /\ ~tx[t].conflict
        /\ \A u \in Flushed : tx[u].row # tx[t].row
        /\ tx' = [tx EXCEPT ![t] = r]
        /\ UNCHANGED <<disk, checklist, storeFname, gc, unlisted>>
        BY DEF Flush
  <1>2. /\ tx[t] \in Tx
        /\ tx[t].op \in {"create", "write", "unlink"}
        BY <1>1, RunningIsTx
  <1>3. /\ r \in Tx /\ r.pc = pc /\ r.flushed = TRUE
        /\ r.op = tx[t].op /\ r.row = tx[t].row /\ r.old = tx[t].old
        /\ r.new = tx[t].new /\ r.conflict = tx[t].conflict
        BY <1>2 DEF Tx
  <1> HIDE DEF r
  <1>4. /\ tx' \in [Transactions -> Tx \cup {Idle}]
        /\ tx'[t] = r
        /\ \A u \in Transactions \ {t} : tx'[u] = tx[u]
        BY <1>1, <1>3 DEF FilestoreTypeOK
  <1>5. FilestoreTypeOK'
        BY <1>1, <1>4 DEF FilestoreTypeOK
  <1>6. TxOK'
        BY <1>1, <1>3, <1>4 DEF TxOK
  <1>7. RowsApart'
    <2>1. \A u \in Transactions : tx[u].flushed => u \in Flushed
          BY DEF TxOK, Flushed, Running
    <2> QED
        BY <1>1, <1>3, <1>4, <2>1 DEF RowsApart
  <1>8. OldIsCommitted'
        BY <1>1, <1>3, <1>4 DEF OldIsCommitted
  <1>9. GcAlone'
        BY <1>1 DEF GcAlone
  <1>10. Marking' = Marking
         BY <1>1, <1>3, <1>4 DEF Marking
  <1>11. AllAccounted'
         BY <1>1, <1>10 DEF AllAccounted, Listed
  <1>12. OldListed'
    <2>1. tx[t].op = "create" => tx[t].old \notin disk
          BY NoneAssumption DEF TxOK, FilestoreTypeOK
    <2> QED
        BY <1>1, <1>2, <1>3, <1>4, <1>10, <2>1 DEF OldListed, Listed
  <1> QED
      BY <1>5, <1>6, <1>7, <1>8, <1>9, <1>11, <1>12

(* What the commit gives up is the old file, which is listed.              *)
LEMMA CommitIInv ==
    ASSUME IInv, NEW t \in Transactions, Commit(t)
    PROVE  IInv'
  <1> USE DEF IInv
  <1> DEFINE a == tx[t].row
  <1>1. /\ tx[t].pc = "done"
        /\ storeFname' = [storeFname EXCEPT ![a] = tx[t].new]
        /\ tx' = [u \in Transactions |->
                    IF u = t THEN Idle
                    ELSE IF tx[u].row = a THEN [tx[u] EXCEPT !.conflict = TRUE]
                    ELSE tx[u]]
        /\ UNCHANGED <<disk, checklist, gc, unlisted>>
        BY DEF Commit
  <1>2. /\ a \in Attachments /\ tx[t].new \in MaybeFile
        /\ tx[t].flushed /\ ~tx[t].conflict
        /\ tx[t].old = storeFname[a]
        BY <1>1, RunningIsTx DEF TxOK, OldIsCommitted
  <1>3. \A u \in Transactions : tx[u].row = a => tx[u] \in Tx
        BY <1>2, NoneAssumption, RunningIsTx DEF FilestoreTypeOK, Idle
  <1>4. \A u \in Transactions \ {t} :
            /\ tx'[u] \in Tx \cup {Idle}
            /\ tx'[u].pc = tx[u].pc
            /\ tx'[u].op = tx[u].op
            /\ tx'[u].row = tx[u].row
            /\ tx'[u].old = tx[u].old
            /\ tx'[u].new = tx[u].new
            /\ tx'[u].flushed = tx[u].flushed
            /\ tx[u].row = a => tx'[u].conflict
            /\ tx[u].row # a => tx'[u].conflict = tx[u].conflict
    <2> SUFFICES ASSUME NEW u \in Transactions \ {t}
                 PROVE  /\ tx'[u] \in Tx \cup {Idle}
                        /\ tx'[u].pc = tx[u].pc
                        /\ tx'[u].op = tx[u].op
                        /\ tx'[u].row = tx[u].row
                        /\ tx'[u].old = tx[u].old
                        /\ tx'[u].new = tx[u].new
                        /\ tx'[u].flushed = tx[u].flushed
                        /\ tx[u].row = a => tx'[u].conflict
                        /\ tx[u].row # a => tx'[u].conflict = tx[u].conflict
        OBVIOUS
    <2>1. CASE tx[u].row = a
      <3>1. tx'[u] = [tx[u] EXCEPT !.conflict = TRUE]
            BY <1>1, <2>1
      <3>2. tx[u] \in Tx
            BY <1>3, <2>1
      <3> QED
          BY <2>1, <3>1, <3>2 DEF Tx
    <2>2. CASE tx[u].row # a
          BY <1>1, <2>2 DEF FilestoreTypeOK
    <2> QED
        BY <2>1, <2>2
  <1>5. tx'[t] = Idle
        BY <1>1
  <1>6. FilestoreTypeOK'
    <2>1. tx' \in [Transactions -> Tx \cup {Idle}]
          BY <1>1, <1>4, <1>5
    <2>2. storeFname' \in [Attachments -> MaybeFile]
          BY <1>1, <1>2 DEF FilestoreTypeOK
    <2> QED
        BY <1>1, <2>1, <2>2 DEF FilestoreTypeOK
  <1>7. TxOK'
    <2>1. \A u \in Transactions \ {t} : tx[u].flushed => tx[u].row # a
          BY <1>2 DEF RowsApart
    <2> QED
        BY <1>4, <1>5, <2>1 DEF TxOK, Idle
  <1>8. RowsApart'
        BY <1>4, <1>5 DEF RowsApart, Idle
  <1>9. OldIsCommitted'
    <2>1. \A b : b # a => storeFname'[b] = storeFname[b] \/ b \notin Attachments
          BY <1>1 DEF FilestoreTypeOK
    <2>2. \A u \in Transactions : tx[u].pc # "idle" => tx[u].row \in Attachments
          BY RunningIsTx
    <2> QED
        BY <1>4, <1>5, <2>1, <2>2 DEF OldIsCommitted, Idle
  <1>10. GcAlone'
         BY <1>1, <1>2, <1>4, <1>5 DEF GcAlone
  <1>11. Marking' = Marking
    <2>1. \A u \in Transactions : tx'[u].pc = "mark" <=> tx[u].pc = "mark"
          BY <1>1, <1>4, <1>5 DEF Idle
    <2>2. \A u \in Transactions : tx[u].pc = "mark" => tx'[u].new = tx[u].new
          BY <1>1, <1>4
    <2> QED
        BY <2>1, <2>2 DEF Marking
  <1>12. AllAccounted'
    <2> SUFFICES ASSUME NEW f \in disk, f \notin Listed
                 PROVE  f \in Range(storeFname')
        BY <1>1, <1>11 DEF AllAccounted, Listed
    <2>1. f # storeFname[a]
          BY <1>1, <1>2 DEF OldListed
    <2>2. PICK b \in Attachments : f = storeFname[b]
          BY DEF AllAccounted, Range, FilestoreTypeOK
    <2> QED
        BY <1>1, <1>6, <2>1, <2>2 DEF Range, FilestoreTypeOK
  <1>13. OldListed'
         BY <1>1, <1>4, <1>5, <1>11 DEF OldListed, Listed, Idle
  <1> QED
      BY <1>6, <1>7, <1>8, <1>9, <1>10, <1>12, <1>13

(* A transaction that fails gives up nothing, but for a mark not yet made. *)
LEMMA RollbackIInv ==
    ASSUME IInv, NEW t \in Transactions, Rollback(t)
    PROVE  IInv'
  <1> USE DEF IInv
  <1>1. /\ tx[t].pc # "idle"
        /\ tx' = [tx EXCEPT ![t] = Idle]
        /\ unlisted' = IF tx[t].pc = "mark" THEN unlisted \cup ({tx[t].new} \ checklist)
                                            ELSE unlisted
        /\ UNCHANGED <<disk, checklist, storeFname, gc>>
        BY DEF Rollback, Running, LeftUnmarked
  <1>2. /\ tx' \in [Transactions -> Tx \cup {Idle}]
        /\ tx'[t] = Idle
        /\ \A u \in Transactions \ {t} : tx'[u] = tx[u]
        BY <1>1 DEF FilestoreTypeOK
  <1>3. FilestoreTypeOK'
    <2>1. tx[t].pc = "mark" => tx[t].new \in Files
          BY <1>1, RunningIsTx DEF TxOK, MaybeFile
    <2> QED
        BY <1>1, <1>2, <2>1 DEF FilestoreTypeOK
  <1>4. TxOK' /\ RowsApart' /\ OldIsCommitted'
    <2>1. TxOK'
          BY <1>2 DEF TxOK, Idle
    <2>2. RowsApart'
          BY <1>2 DEF RowsApart, Idle
    <2>3. OldIsCommitted'
          BY <1>1, <1>2 DEF OldIsCommitted, Idle
    <2> QED
        BY <2>1, <2>2, <2>3
  <1>5. GcAlone'
        BY <1>1, <1>2 DEF GcAlone, Idle
  <1>6. Listed \subseteq Listed'
    <2>1. \A u \in Transactions \ {t} : tx[u].pc = "mark" => tx[u].new \in Marking'
          BY <1>2 DEF Marking
    <2> QED
        BY <1>1, <2>1 DEF Listed, Marking
  <1>7. AllAccounted' /\ OldListed'
        BY <1>1, <1>2, <1>6 DEF AllAccounted, OldListed, Idle
  <1> QED
      BY <1>3, <1>4, <1>5, <1>7

(* Most steps of a collection change its own variable only.                *)
LEMMA GcIInv ==
    ASSUME IInv, GcLock \/ GcList \/ GcSelect \/ GcUncheckFails \/ GcEnd \/ GcCrash
    PROVE  IInv'
  <1> USE DEF IInv
  <1>1. UNCHANGED <<disk, checklist, storeFname, tx, unlisted>>
        BY DEF GcLock, GcList, GcSelect, GcUncheckFails, GcEnd, GcCrash
  <1> DEFINE GcType == [pc : {"idle", "locked", "listed", "sweeping"}, list : SUBSET Files,
                        whitelist : SUBSET Files, swept : MaybeFile]
  <1>2. gc \in GcType /\ checklist \subseteq Files
        BY DEF FilestoreTypeOK
  <1>3. gc' \in GcType /\ GcAlone'
    <2>1. CASE GcLock
      <3>1. \A t \in Transactions : ~tx[t].flushed
            BY <2>1 DEF GcLock, Flushed, Running, TxOK
      <3>2. gc' = [GcIdle EXCEPT !.pc = "locked"]
            BY <2>1 DEF GcLock
      <3>3. gc' \in GcType /\ gc'.pc = "locked" /\ gc'.swept = None
            BY <3>2 DEF GcIdle, MaybeFile
      <3> QED
          BY <1>1, <3>1, <3>3 DEF GcAlone
    <2>2. CASE GcList
      <3>1. gc.pc = "locked" /\ gc' = [gc EXCEPT !.pc = "listed", !.list = checklist]
            BY <2>2 DEF GcList
      <3>2. gc' \in GcType /\ gc'.pc = "listed" /\ gc'.swept = gc.swept
            BY <1>2, <3>1
      <3> QED
          BY <1>1, <3>1, <3>2 DEF GcAlone
    <2>3. CASE GcSelect
      <3> DEFINE w == gc.list \cap Range(storeFname)
      <3>1. gc.pc = "listed" /\ gc' = [gc EXCEPT !.pc = "sweeping", !.whitelist = w]
            BY <2>3 DEF GcSelect
      <3>2. w \in SUBSET Files
            BY <1>2
      <3> HIDE DEF w
      <3>3. /\ gc' \in GcType /\ gc'.pc = "sweeping"
            /\ gc'.list = gc.list /\ gc'.whitelist = w
            BY <1>2, <3>1, <3>2
      <3>4. \A t \in Transactions : ~tx[t].flushed
            BY <3>1 DEF GcAlone
      <3> USE DEF w
      <3> QED
          BY <1>1, <3>3, <3>4 DEF GcAlone
    <2>4. CASE GcEnd \/ GcCrash
      <3>1. gc' = GcIdle
            BY <2>4 DEF GcEnd, GcCrash
      <3> QED
          BY <3>1 DEF GcAlone, GcIdle, MaybeFile
    <2>5. CASE GcUncheckFails
      <3>1. gc' = [gc EXCEPT !.list = gc.list \ {gc.swept}, !.swept = None]
            BY <2>5 DEF GcUncheckFails
      <3>2. /\ gc' \in GcType /\ gc'.pc = gc.pc /\ gc'.swept = None
            /\ gc'.list \subseteq gc.list /\ gc'.whitelist = gc.whitelist
            BY <1>2, <3>1 DEF MaybeFile
      <3> QED
          BY <1>1, <3>2 DEF GcAlone
    <2> QED
        BY <2>1, <2>2, <2>3, <2>4, <2>5
  <1>4. FilestoreTypeOK'
        BY <1>1, <1>3 DEF FilestoreTypeOK
  <1>5. /\ TxOK' /\ RowsApart' /\ OldIsCommitted'
        /\ AllAccounted' /\ OldListed'
        BY <1>1 DEF TxOK, RowsApart, OldIsCommitted, AllAccounted, OldListed, Listed, Marking
  <1> QED
      BY <1>3, <1>4, <1>5

LEMMA GcUnlinkIInv ==
    ASSUME IInv, GcUnlink
    PROVE  IInv'
  <1> USE DEF IInv
  <1>1. PICK f \in gc.list :
            /\ disk' \subseteq disk
            /\ gc' = [gc EXCEPT !.swept = f]
        BY DEF GcUnlink
  <1>2. gc.pc = "sweeping" /\ UNCHANGED <<checklist, storeFname, tx, unlisted>>
        BY DEF GcUnlink
  <1>3. /\ gc' \in [pc : {"idle", "locked", "listed", "sweeping"}, list : SUBSET Files,
                    whitelist : SUBSET Files, swept : MaybeFile]
        /\ gc'.pc = gc.pc /\ gc'.list = gc.list /\ gc'.whitelist = gc.whitelist
        BY <1>1 DEF FilestoreTypeOK, MaybeFile
  <1>4. FilestoreTypeOK'
        BY <1>1, <1>2, <1>3 DEF FilestoreTypeOK
  <1>5. TxOK' /\ RowsApart' /\ OldIsCommitted'
        BY <1>2 DEF TxOK, RowsApart, OldIsCommitted
  <1>6. GcAlone'
        BY <1>2, <1>3 DEF GcAlone
  <1>7. AllAccounted' /\ OldListed'
        BY <1>1, <1>2 DEF AllAccounted, OldListed, Listed, Marking
  <1> QED
      BY <1>4, <1>5, <1>6, <1>7

LEMMA GcUncheckIInv ==
    ASSUME IInv, GcUncheck
    PROVE  IInv'
  <1> USE DEF IInv
  <1> DEFINE f == gc.swept
             Slips == /\ f \in disk
                      /\ f \in gc.whitelist =>
                           \E t \in Running : tx[t].op = "write" /\ tx[t].old = f
  <1>1. /\ f # None
        /\ checklist' = checklist \ {f}
        /\ gc' = [gc EXCEPT !.list = gc.list \ {f}, !.swept = None]
        /\ unlisted' = IF Slips THEN unlisted \cup {f} ELSE unlisted
        /\ UNCHANGED <<disk, storeFname, tx>>
        BY DEF GcUncheck
  <1>2. /\ gc.pc = "sweeping" /\ f \in Files
        /\ \A t \in Transactions : ~tx[t].flushed
        BY <1>1 DEF GcAlone, FilestoreTypeOK, MaybeFile
  <1>3. /\ gc' \in [pc : {"idle", "locked", "listed", "sweeping"}, list : SUBSET Files,
                    whitelist : SUBSET Files, swept : MaybeFile]
        /\ gc'.pc = gc.pc /\ gc'.list = gc.list \ {f} /\ gc'.whitelist = gc.whitelist
        /\ gc'.swept = None
        BY <1>1 DEF FilestoreTypeOK, MaybeFile
  <1>4. FilestoreTypeOK'
        BY <1>1, <1>2, <1>3 DEF FilestoreTypeOK
  <1>5. TxOK' /\ RowsApart' /\ OldIsCommitted'
        BY <1>1 DEF TxOK, RowsApart, OldIsCommitted
  <1>6. GcAlone'
        BY <1>1, <1>2, <1>3 DEF GcAlone
  <1>7. /\ Listed \ {f} \subseteq Listed'
        /\ Slips => f \in Listed'
        BY <1>1 DEF Listed, Marking
  <1>8. AllAccounted'
    <2>1. f \in disk /\ ~Slips => f \in Range(storeFname)
          BY <1>2 DEF GcAlone
    <2> QED
        BY <1>1, <1>7, <2>1 DEF AllAccounted
  <1>9. OldListed'
    <2> SUFFICES ASSUME NEW t \in Transactions, tx[t].op = "write", tx[t].pc = "flush",
                        tx[t].old \in disk
                 PROVE  tx[t].old \in Listed'
        BY <1>1, <1>2 DEF OldListed, TxOK
    <2>1. tx[t].old = f => Slips
          BY DEF Running
    <2> QED
        BY <1>7, <2>1 DEF OldListed
  <1> QED
      BY <1>4, <1>5, <1>6, <1>8, <1>9

LEMMA StepIInv == IInv /\ [FilestoreNext]_fileVars => IInv'
  <1> SUFFICES ASSUME IInv, [FilestoreNext]_fileVars
               PROVE  IInv'
      OBVIOUS
  <1>1. CASE UNCHANGED fileVars
    <2>1. UNCHANGED <<disk, checklist, storeFname, tx, gc, unlisted>>
          BY <1>1 DEF fileVars
    <2>2. FilestoreTypeOK' /\ TxOK' /\ RowsApart' /\ OldIsCommitted'
          BY <2>1 DEF IInv, FilestoreTypeOK, TxOK, RowsApart, OldIsCommitted
    <2>3. GcAlone' /\ AllAccounted' /\ OldListed'
          BY <2>1 DEF IInv, GcAlone, AllAccounted, OldListed, Listed, Marking
    <2> QED
        BY <2>2, <2>3 DEF IInv
  <1>2. CASE \E t \in Transactions :
                \/ Create(t) \/ Write(t) \/ Unlink(t)
                \/ FileWrite(t) \/ WriteFails(t) \/ MarkWritten(t) \/ MarkFails(t)
                \/ FileDelete(t) \/ Flush(t) \/ Commit(t) \/ Rollback(t)
        BY <1>2, CreateIInv, WriteIInv, UnlinkIInv, FileWriteIInv, WriteFailsIInv,
           MarkWrittenIInv, MarkFailsIInv, FileDeleteIInv, FlushIInv, CommitIInv, RollbackIInv
  <1>3. CASE \/ GcLock \/ GcList \/ GcSelect \/ GcUnlink \/ GcUncheck \/ GcUncheckFails
             \/ GcEnd \/ GcCrash
        BY <1>3, GcIInv, GcUnlinkIInv, GcUncheckIInv
  <1> QED
      BY <1>1, <1>2, <1>3 DEF FilestoreNext

(* The inductive invariant holds in every state.                           *)
THEOREM Invariance == FilestoreSpec => []IInv
  <1> QED
      BY InitIInv, StepIInv, PTL DEF FilestoreSpec

-----------------------------------------------------------------------------

(* GarbageListed: a file on the disk that nothing uses is in the checklist *)
(* or has slipped from it through a window the model names.                *)
THEOREM GarbageIsListed == FilestoreSpec => []GarbageListed
  <1>1. IInv => GarbageListed
    <2> SUFFICES ASSUME IInv, NEW f \in disk \ (Used \cup checklist \cup unlisted)
                 PROVE  \E t \in Running : f \in {tx[t].new, tx[t].old}
        BY DEF GarbageListed
    <2>1. f # None
          BY NoneAssumption DEF IInv, FilestoreTypeOK
    <2>2. f \in Marking
          BY <2>1 DEF IInv, AllAccounted, Listed, Used
    <2> QED
        BY <2>2 DEF Marking, Running
  <1> QED
      BY <1>1, Invariance, PTL

(* RemovesOnlyGarbage: the lock of the table keeps _file_gc from removing  *)
(* a file that an attachment, committed or just stored, uses.              *)
THEOREM CollectionIsSafe == FilestoreSpec => RemovesOnlyGarbage
  <1>1. IInv /\ [FilestoreNext]_fileVars => [(disk \ disk') \cap Used = {}]_fileVars
    <2> SUFFICES ASSUME IInv, FilestoreNext
                 PROVE  (disk \ disk') \cap Used = {}
        OBVIOUS
    <2>1. CASE GcUnlink
      <3>1. PICK f \in gc.list : disk' = disk \ ({f} \ gc.whitelist) \/ disk' = disk
            BY <2>1 DEF GcUnlink
      <3>2. gc.pc = "sweeping"
            BY <2>1 DEF GcUnlink
      <3>3. Flushed = {}
            BY <3>2 DEF IInv, GcAlone, Flushed, Running
      <3>4. f \in Range(storeFname) => f \in gc.whitelist
            BY <3>1, <3>2 DEF IInv, GcAlone
      <3> QED
          BY <3>1, <3>3, <3>4 DEF Used
    <2>2. CASE ~GcUnlink
      <3>1. disk \subseteq disk'
            BY <2>2 DEF FilestoreNext, Create, Write, Unlink, FileWrite, WriteFails,
                        MarkWritten, MarkFails, FileDelete, Flush, Commit, Rollback,
                        GcLock, GcList, GcSelect, GcUncheck, GcUncheckFails, GcEnd, GcCrash
      <3> QED
          BY <3>1
    <2> QED
        BY <2>1, <2>2
  <1> QED
      BY <1>1, Invariance, PTL DEF FilestoreSpec, RemovesOnlyGarbage
=============================================================================
