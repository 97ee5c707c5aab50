----------------------------- MODULE Filestore -----------------------------
(***************************************************************************)
(* Attachments and their files (src/autanac/addons/base/models/            *)
(* ir_attachment.py).  The content of an attachment is a file named by its *)
(* checksum, shared by the attachments with the same content.  Database    *)
(* transactions roll back, file operations do not: files that may be       *)
(* garbage are entered in a checklist, which a collection (_file_gc) goes  *)
(* through now and then under a lock of the table.                         *)
(*                                                                         *)
(* The database is PostgreSQL with REPEATABLE READ transactions: a         *)
(* statement that changes a row takes the ROW EXCLUSIVE lock of the table, *)
(* waits for the transactions that have changed the same row and fails if  *)
(* one of them committed.                                                  *)
(***************************************************************************)
EXTENDS Naturals, Functions, FiniteSets

CONSTANTS
    Attachments,      \* rows of ir_attachment
    Files,            \* names (hence contents) of files
    Transactions,     \* requests that run concurrently
    IOErrors,         \* whether calls of the file system may fail
    None

ASSUME NoneAssumption == None \notin Attachments \cup Files
ASSUME IOErrorsAssumption == IOErrors \in BOOLEAN

VARIABLES
    disk,         \* files of the filestore, whole or in part
    checklist,    \* names in the directory checklist
    storeFname,   \* Attachments -> store_fname as committed (None: no such row)
    tx,           \* Transactions -> what the transaction is at
    gc,           \* the collection
    unlisted      \* garbage known to have left the checklist (history)

fileVars == <<disk, checklist, storeFname, tx, gc, unlisted>>

MaybeFile == Files \cup {None}

(* pc: "write" (_file_write tests and writes the file), "mark" (then marks *)
(* it), "flush" (the SQL statement is to be executed), "delete"            *)
(* (_file_delete is to be called), "done" (commit is next).                *)
Idle == [op |-> "none", pc |-> "idle", row |-> None, old |-> None, new |-> None,
         flushed |-> FALSE, conflict |-> FALSE]
Tx == [op : {"create", "write", "unlink"}, pc : {"write", "mark", "flush", "delete", "done"},
       row : Attachments, old : MaybeFile, new : MaybeFile, flushed : BOOLEAN,
       conflict : BOOLEAN]

(* list: names that remain of the checklist read; swept: the one whose     *)
(* file is dealt with, and that is still in the checklist.                 *)
GcIdle == [pc |-> "idle", list |-> {}, whitelist |-> {}, swept |-> None]

FilestoreTypeOK ==
    /\ disk \subseteq Files
    /\ checklist \subseteq Files
    /\ storeFname \in [Attachments -> MaybeFile]
    /\ tx \in [Transactions -> Tx \cup {Idle}]
    /\ gc \in [pc : {"idle", "locked", "listed", "sweeping"}, list : SUBSET Files,
               whitelist : SUBSET Files, swept : MaybeFile]
    /\ unlisted \subseteq Files

FilestoreInit ==
    /\ disk = {}
    /\ checklist = {}
    /\ storeFname = [a \in Attachments |-> None]
    /\ tx = [t \in Transactions |-> Idle]
    /\ gc = GcIdle
    /\ unlisted = {}

Running == {t \in Transactions : tx[t].pc # "idle"}
Flushed == {t \in Running : tx[t].flushed}

MarkForGc(f) == checklist' = checklist \cup {f} /\ unlisted' = unlisted \ {f}

(* The file that t has written stays without a mark of its own.            *)
LeftUnmarked(t) == unlisted' = unlisted \cup ({tx[t].new} \ checklist)

At(t, pc) == tx' = [tx EXCEPT ![t].pc = pc]

-----------------------------------------------------------------------------
(* Transactions.                                                           *)

Create(t) ==
    /\ tx[t] = Idle
    /\ \E a \in Attachments, f \in Files :
          /\ storeFname[a] = None
          /\ \A u \in Running : tx[u].row # a
          /\ tx' = [tx EXCEPT ![t] = [Idle EXCEPT !.op = "create", !.pc = "write",
                                                  !.row = a, !.new = f]]
    /\ UNCHANGED <<disk, checklist, storeFname, gc, unlisted>>

(* datas is written: _inverse_datas.                                       *)
Write(t) ==
    /\ tx[t] = Idle
    /\ \E a \in Attachments, f \in Files :
          /\ storeFname[a] # None
          /\ tx' = [tx EXCEPT ![t] = [Idle EXCEPT !.op = "write", !.pc = "write", !.row = a,
                                                  !.old = storeFname[a], !.new = f]]
    /\ UNCHANGED <<disk, checklist, storeFname, gc, unlisted>>

Unlink(t) ==
    /\ tx[t] = Idle
    /\ \E a \in Attachments :
          /\ storeFname[a] # None
          /\ tx' = [tx EXCEPT ![t] = [Idle EXCEPT !.op = "unlink", !.pc = "flush", !.row = a,
                                                  !.old = storeFname[a]]]
    /\ UNCHANGED <<disk, checklist, storeFname, gc, unlisted>>

(* After _file_write: create inserts the row at once; a write stays in the *)
(* cache, where it is flushed from after _file_delete.                     *)
AfterFileWrite(t) == IF tx[t].op = "create" THEN "flush" ELSE "delete"

FileWrite(t) ==
    /\ tx[t].pc = "write"
    /\ disk' = disk \cup {tx[t].new}
    /\ At(t, IF tx[t].new \in disk THEN AfterFileWrite(t) ELSE "mark")
    /\ UNCHANGED <<checklist, storeFname, gc, unlisted>>

(* The file cannot be created or is written in part; the error is logged   *)
(* and the transaction goes on with the name.                              *)
WriteFails(t) ==
    /\ IOErrors
    /\ tx[t].pc = "write"
    /\ tx[t].new \notin disk
    /\ \/ UNCHANGED <<disk, unlisted>>
       \/ disk' = disk \cup {tx[t].new} /\ LeftUnmarked(t)
    /\ At(t, AfterFileWrite(t))
    /\ UNCHANGED <<checklist, storeFname, gc>>

MarkWritten(t) ==
    /\ tx[t].pc = "mark"
    /\ MarkForGc(tx[t].new)
    /\ At(t, AfterFileWrite(t))
    /\ UNCHANGED <<disk, storeFname, gc>>

(* This error is logged by the same handler.                               *)
MarkFails(t) ==
    /\ IOErrors
    /\ tx[t].pc = "mark"
    /\ LeftUnmarked(t)
    /\ At(t, AfterFileWrite(t))
    /\ UNCHANGED <<disk, checklist, storeFname, gc>>

(* Mutant: unlink leaves the file to those that still use it.              *)
MutFileDelete(t) ==
    /\ tx[t].pc = "delete"
    /\ IF tx[t].op = "unlink" THEN UNCHANGED <<checklist, unlisted>> ELSE MarkForGc(tx[t].old)
    /\ At(t, IF tx[t].flushed THEN "done" ELSE "flush")
    /\ UNCHANGED <<disk, storeFname, gc>>

(* _file_delete: by a write before the UPDATE is flushed, by unlink after  *)
(* the DELETE.                                                             *)
FileDelete(t) ==
    /\ tx[t].pc = "delete"
    /\ MarkForGc(tx[t].old)
    /\ At(t, IF tx[t].flushed THEN "done" ELSE "flush")
    /\ UNCHANGED <<disk, storeFname, gc>>

(* INSERT, UPDATE or DELETE, which waits for the lock of a collection.     *)
Flush(t) ==
    /\ tx[t].pc = "flush"
    /\ gc.pc = "idle"
    /\ ~tx[t].conflict
    /\ \A u \in Flushed : tx[u].row # tx[t].row
    /\ tx' = [tx EXCEPT ![t].flushed = TRUE,
                        ![t].pc = IF tx[t].op = "unlink" THEN "delete" ELSE "done"]
    /\ UNCHANGED <<disk, checklist, storeFname, gc, unlisted>>

Commit(t) ==
    /\ tx[t].pc = "done"
    /\ storeFname' = [storeFname EXCEPT ![tx[t].row] = tx[t].new]
    /\ tx' = [u \in Transactions |->
                IF u = t THEN Idle
                ELSE IF tx[u].row = tx[t].row THEN [tx[u] EXCEPT !.conflict = TRUE]
                ELSE tx[u]]
    /\ UNCHANGED <<disk, checklist, gc, unlisted>>

(* The request fails, for whatever reason (as when _file_delete raises),   *)
(* or its process dies: between the writing of the file and its mark, only *)
(* a crash can end it.                                                     *)
Rollback(t) ==
    /\ t \in Running
    /\ tx' = [tx EXCEPT ![t] = Idle]
    /\ IF tx[t].pc = "mark" THEN LeftUnmarked(t) ELSE UNCHANGED unlisted
    /\ UNCHANGED <<disk, checklist, storeFname, gc>>

-----------------------------------------------------------------------------
(* The collection, _file_gc.                                               *)

(* Mutant: the collection does not lock the table.                         *)
MutGcLock ==
    /\ gc.pc = "idle"
    /\ gc' = [GcIdle EXCEPT !.pc = "locked"]
    /\ UNCHANGED <<disk, checklist, storeFname, tx, unlisted>>

(* LOCK ... IN SHARE MODE, after a commit.                                 *)
GcLock ==
    /\ gc.pc = "idle"
    /\ Flushed = {}
    /\ gc' = [GcIdle EXCEPT !.pc = "locked"]
    /\ UNCHANGED <<disk, checklist, storeFname, tx, unlisted>>

GcList ==
    /\ gc.pc = "locked"
    /\ gc' = [gc EXCEPT !.pc = "listed", !.list = checklist]
    /\ UNCHANGED <<disk, checklist, storeFname, tx, unlisted>>

GcSelect ==
    /\ gc.pc = "listed"
    /\ gc' = [gc EXCEPT !.pc = "sweeping", !.whitelist = gc.list \cap Range(storeFname)]
    /\ UNCHANGED <<disk, checklist, storeFname, tx, unlisted>>

(* A file that cannot be unlinked is logged, and its name leaves the       *)
(* checklist like the others.                                              *)
GcUnlink ==
    /\ gc.pc = "sweeping"
    /\ gc.swept = None
    /\ \E f \in gc.list :
          /\ \/ disk' = disk \ ({f} \ gc.whitelist)
             \/ IOErrors /\ disk' = disk
          /\ gc' = [gc EXCEPT !.swept = f]
    /\ UNCHANGED <<checklist, storeFname, tx, unlisted>>

(* The name leaves the checklist.  The file may be left, or in the meantime *)
(* a transaction may have written it again, or marked it for a change still *)
(* in its cache.                                                            *)
GcUncheck ==
    /\ gc.swept # None
    /\ checklist' = checklist \ {gc.swept}
    /\ gc' = [gc EXCEPT !.list = @ \ {gc.swept}, !.swept = None]
    /\ unlisted' = IF gc.swept \in disk
                      /\ (gc.swept \in gc.whitelist =>
                            \E t \in Running : tx[t].op = "write" /\ tx[t].old = gc.swept)
                   THEN unlisted \cup {gc.swept} ELSE unlisted
    /\ UNCHANGED <<disk, storeFname, tx>>

(* tools.ignore: the name stays in the checklist.                          *)
GcUncheckFails ==
    /\ IOErrors
    /\ gc.swept # None
    /\ gc' = [gc EXCEPT !.list = @ \ {gc.swept}, !.swept = None]
    /\ UNCHANGED <<disk, checklist, storeFname, tx, unlisted>>

GcEnd ==
    /\ gc.pc = "sweeping"
    /\ gc.list = {}
    /\ gc' = GcIdle
    /\ UNCHANGED <<disk, checklist, storeFname, tx, unlisted>>

(* The collection fails or dies.                                           *)
GcCrash ==
    /\ gc.pc # "idle"
    /\ gc' = GcIdle
    /\ UNCHANGED <<disk, checklist, storeFname, tx, unlisted>>

-----------------------------------------------------------------------------

FilestoreNext ==
    \/ \E t \in Transactions :
          \/ Create(t) \/ Write(t) \/ Unlink(t)
          \/ FileWrite(t) \/ WriteFails(t) \/ MarkWritten(t) \/ MarkFails(t)
          \/ FileDelete(t) \/ Flush(t) \/ Commit(t) \/ Rollback(t)
    \/ GcLock \/ GcList \/ GcSelect \/ GcUnlink \/ GcUncheck \/ GcUncheckFails
    \/ GcEnd \/ GcCrash

FilestoreSpec == FilestoreInit /\ [][FilestoreNext]_fileVars

-----------------------------------------------------------------------------

Used == (Range(storeFname) \cup {tx[t].new : t \in Flushed}) \ {None}

(* A collection removes no file of an attachment that is committed or that *)
(* a running transaction has stored: this is what the lock is taken for.   *)
RemovesOnlyGarbage == [][(disk \ disk') \cap Used = {}]_fileVars

(* A file that no attachment and no running transaction uses will be found *)
(* by a collection, whatever failed, except those that slipped through:    *)
(* the process died, or the file system refused, before the file written   *)
(* was marked; or a collection removed from the checklist the name of a    *)
(* file it could not unlink, or that was just written again, or a name     *)
(* just entered.                                                           *)
GarbageListed ==
    \A f \in disk \ (Used \cup checklist \cup unlisted) :
        \E t \in Running : f \in {tx[t].new, tx[t].old}

(* Every attachment has its file.                                          *)
AttachmentsHaveFiles == Range(storeFname) \ {None} \subseteq disk
=============================================================================
