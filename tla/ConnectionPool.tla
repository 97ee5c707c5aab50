--------------------------- MODULE ConnectionPool ---------------------------
(***************************************************************************)
(* The pool of PostgreSQL connections of one server process                *)
(* (src/autanac/sql_db.py, classes ConnectionPool and Cursor).             *)
(*                                                                         *)
(* Threads open cursors; a cursor borrows a connection, runs a             *)
(* transaction on it and gives it back.  borrow, give_back and close_all   *)
(* run under the pool's lock, so each is one step; what a cursor does      *)
(* between two of them (its construction, its queries, the rollback of     *)
(* close()) is not locked, and interleaves with the other threads, with    *)
(* close_db()/close_all() and with backends that die.                      *)
(***************************************************************************)
EXTENDS Naturals, FiniteSets

CONSTANTS Cnx,        \* identities of connection objects
          Cursors,    \* identities of cursor objects
          Dbs,        \* connection infos (one database each)
          Templates,  \* the databases whose connections are not kept
          MaxConn,    \* tools.config['db_maxconn']
          None

ASSUME MaxConnAssumption == MaxConn \in Nat \ {0}
ASSUME NoneAssumption == None \notin Cnx
ASSUME CursorsAssumption == IsFiniteSet(Cursors)

VARIABLES
    slot,    \* Cnx -> is it in ConnectionPool._connections, and used?
    before,  \* the order of that list: <<a, b>> if a's entry precedes b's
    conn,    \* Cnx -> "open", "dead" (its backend is gone, the client does
             \* not know yet), "closed" (cnx.closed; also: never connected)
    dsn,     \* Cnx -> cnx._original_dsn
    leaked,  \* the entries whose connection has the attribute 'leaked'
    pc,      \* Cursors -> where the cursor is in its life
    held,    \* Cursors -> cursor._cnx
    db       \* Cursors -> cursor.dbname

vars == <<slot, before, conn, dsn, leaked, pc, held, db>>

(***************************************************************************)
(* pc of a cursor: "none" (no such object, or it is closed), "borrowed"    *)
(* (in __init__, after borrow), "open" (usable, no transaction begun),     *)
(* "tx" (in a transaction), "giving" (in _close, after the rollback),      *)
(* "exited" (the with statement is over, the cursor still open).           *)
(***************************************************************************)
PCs == {"none", "borrowed", "open", "tx", "giving", "exited"}

TypeOK ==
    /\ slot \in [Cnx -> {"none", "idle", "used"}]
    /\ before \subseteq Cnx \X Cnx
    /\ conn \in [Cnx -> {"open", "dead", "closed"}]
    /\ dsn \in [Cnx -> Dbs \cup {None}]
    /\ leaked \subseteq Cnx
    /\ pc \in [Cursors -> PCs]
    /\ held \in [Cursors -> Cnx \cup {None}]
    /\ db \in [Cursors -> Dbs \cup {None}]
    /\ \A c \in Cursors : pc[c] = "none" <=> held[c] = None

Init ==
    /\ slot = [k \in Cnx |-> "none"]
    /\ before = {}
    /\ conn = [k \in Cnx |-> "closed"]
    /\ dsn = [k \in Cnx |-> None]
    /\ leaked = {}
    /\ pc = [c \in Cursors |-> "none"]
    /\ held = [c \in Cursors |-> None]
    /\ db = [c \in Cursors |-> None]

-----------------------------------------------------------------------------
(* The list of entries *)

Entries == {k \in Cnx : slot[k] # "none"}

\* pop: the list without the entries of S.
Drop(list, S) == {p \in list : p[1] \notin S /\ p[2] \notin S}

\* append: the list of the entries of S with k's moved, or added, to its end.
AtEnd(list, S, k) == Drop(list, {k}) \cup ((S \ {k}) \X {k})

Oldest(S, list) == {k \in S : \A m \in S \ {k} : <<k, m>> \in list}

\* Connections some cursor object still refers to.
Referenced == {held[c] : c \in Cursors}

(* borrow's first loop: drop what is closed, free what was leaked.         *)
Swept == {k \in Entries : conn[k] = "closed"}

MutFreed == {} \* mutant: leaked connections are never freed

Freed == {k \in Entries \ Swept : k \in leaked}

SweptSlot ==
    [k \in Cnx |-> IF k \in Swept THEN "none"
                   ELSE IF k \in Freed THEN "idle" ELSE slot[k]]

SweptEntries == Entries \ Swept
MutSweptBefore == \* mutant: appended without having been popped
    Drop(before, Swept) \cup SweptEntries \X Freed

\* The walk goes from the newest entry to the oldest and appends as it goes,
\* so freed entries end up last, in reverse order.
SweptBefore ==
    Drop(before, Swept \cup Freed)
      \cup (SweptEntries \ Freed) \X Freed
      \cup {p \in Freed \X Freed : <<p[2], p[1]>> \in before}

(* borrow's second loop: unused entries of this database, in order; reset()*)
(* succeeds on a live backend, and a connection it fails on is closed but  *)
(* keeps its entry.                                                        *)
Candidates(d) == {k \in Cnx : SweptSlot[k] = "idle" /\ dsn[k] = d}
Reusable(d) == Oldest({k \in Candidates(d) : conn[k] = "open"}, SweptBefore)

\* The candidates the loop meets before it returns k.
TriedBefore(k, d) == {m \in Candidates(d) : <<m, k>> \in SweptBefore}

Close(S) == [k \in Cnx |-> IF k \in S THEN "closed" ELSE conn[k]]

SweptCount == Cardinality(SweptEntries)
SweptIdle == {k \in Cnx : SweptSlot[k] = "idle"}

\* The states of the pool in which borrow raises PoolError.
PoolIsFull == SweptCount >= MaxConn /\ SweptIdle = {}

-----------------------------------------------------------------------------
(* Cursor.__init__ up to pool.borrow(dsn), by outcome *)

MutBorrowReuse(c, d) == \* mutant: the attribute 'leaked' stays (no delattr)
    /\ pc[c] = "none"
    /\ \E k \in Reusable(d) :
        /\ conn' = Close(TriedBefore(k, d))
        /\ slot' = [SweptSlot EXCEPT ![k] = "used"]
        /\ before' = AtEnd(SweptBefore, SweptEntries, k)
        /\ held' = [held EXCEPT ![c] = k]
    /\ leaked' = leaked \ Swept
    /\ pc' = [pc EXCEPT ![c] = "borrowed"]
    /\ db' = [db EXCEPT ![c] = d]
    /\ UNCHANGED dsn

BorrowReuse(c, d) ==
    /\ pc[c] = "none"
    /\ \E k \in Reusable(d) :
        /\ conn' = Close(TriedBefore(k, d))
        /\ slot' = [SweptSlot EXCEPT ![k] = "used"]
        /\ before' = AtEnd(SweptBefore, SweptEntries, k)
        /\ held' = [held EXCEPT ![c] = k]
    /\ leaked' = leaked \ (Swept \cup Freed)
    /\ pc' = [pc EXCEPT ![c] = "borrowed"]
    /\ db' = [db EXCEPT ![c] = d]
    /\ UNCHANGED dsn

\* mutant: > for >= in the comparison with the limit
MutVictims == IF SweptCount <= MaxConn THEN {None}
                                       ELSE Oldest(SweptIdle, SweptBefore)

\* mutant: the oldest entry is evicted, used or not
MutVictimsUsed == IF SweptCount < MaxConn THEN {None}
                                          ELSE Oldest(SweptEntries, SweptBefore)

\* The entry that makes room: none below the limit, else the oldest unused.
Victims == IF SweptCount < MaxConn THEN {None}
                                   ELSE Oldest(SweptIdle, SweptBefore)

\* Room is made (the victim's entry leaves the list, its connection is
\* closed) before psycopg2.connect() is called.  The new connection takes an
\* identity nothing refers to.
BorrowNew(c, d) ==
    /\ pc[c] = "none"
    /\ Candidates(d) \cap {k \in Cnx : conn[k] = "open"} = {}
    /\ leaked' = leaked \ (Swept \cup Freed)
    /\ \E v \in Victims : \E k \in Cnx \ (Referenced \cup (SweptEntries \ {v})) :
        /\ conn' = [Close(Candidates(d) \cup {v}) EXCEPT ![k] = "open"]
        /\ slot' = [x \in Cnx |-> IF x = k THEN "used"
                                  ELSE IF x = v THEN "none" ELSE SweptSlot[x]]
        /\ before' = AtEnd(Drop(SweptBefore, {v}), SweptEntries \ {v}, k)
        /\ dsn' = [dsn EXCEPT ![k] = d]
        /\ held' = [held EXCEPT ![c] = k]
    /\ pc' = [pc EXCEPT ![c] = "borrowed"]
    /\ db' = [db EXCEPT ![c] = d]

\* psycopg2.connect() raises: the victim is gone all the same.
BorrowConnectFails(c, d) ==
    /\ pc[c] = "none"
    /\ Candidates(d) \cap {k \in Cnx : conn[k] = "open"} = {}
    /\ leaked' = leaked \ (Swept \cup Freed)
    /\ \E v \in Victims :
        /\ conn' = Close(Candidates(d) \cup {v})
        /\ slot' = [x \in Cnx |-> IF x = v THEN "none" ELSE SweptSlot[x]]
        /\ before' = Drop(SweptBefore, {v})
    /\ UNCHANGED <<dsn, pc, held, db>>

BorrowFull(c) ==
    /\ pc[c] = "none"
    /\ PoolIsFull
    /\ slot' = SweptSlot
    /\ before' = SweptBefore
    /\ leaked' = leaked \ (Swept \cup Freed)
    /\ UNCHANGED <<conn, dsn, pc, held, db>>

-----------------------------------------------------------------------------
(* The life of a cursor between borrow and give_back *)

MutGone(c) == \* mutant: a closed cursor keeps its connection
    /\ pc' = [pc EXCEPT ![c] = "none"]
    /\ UNCHANGED <<held, db>>

Gone(c) == /\ pc' = [pc EXCEPT ![c] = "none"]
           /\ held' = [held EXCEPT ![c] = None]
           /\ db' = [db EXCEPT ![c] = None]

\* The rest of __init__: cnx.cursor() and set_isolation_level() raise if
\* close_all() closed the connection meanwhile; the server is not contacted.
CursorInit(c) ==
    /\ pc[c] = "borrowed"
    /\ IF conn[held[c]] = "closed"
         THEN Gone(c)
         ELSE pc' = [pc EXCEPT ![c] = "open"] /\ UNCHANGED <<held, db>>
    /\ UNCHANGED <<slot, before, conn, dsn, leaked>>

\* A query begins a transaction, or finds that the backend is gone (the
\* client then marks the connection closed), or that it is closed already.
Execute(c) ==
    /\ pc[c] \in {"open", "tx"}
    /\ IF conn[held[c]] = "open"
         THEN pc' = [pc EXCEPT ![c] = "tx"] /\ UNCHANGED conn
         ELSE conn' = Close({held[c]}) /\ UNCHANGED pc
    /\ UNCHANGED <<slot, before, dsn, leaked, held, db>>

\* COMMIT or ROLLBACK on the open cursor: the next query begins anew.
EndTransaction(c) ==
    /\ pc[c] = "tx"
    /\ conn[held[c]] = "open"
    /\ pc' = [pc EXCEPT ![c] = "open"]
    /\ UNCHANGED <<slot, before, conn, dsn, leaked, held, db>>

\* Does cnx.rollback() raise?  On a closed connection always, on a dead one
\* when there is a transaction to roll back (the server is then contacted).
RollbackFails(c) ==
    \/ conn[held[c]] = "closed"
    \/ conn[held[c]] = "dead" /\ pc[c] = "tx"

\* _close(): roll the connection back; if that raises, give_back is not
\* called and the cursor, already marked closed, is lost.
CloseCursor(c) ==
    /\ pc[c] \in {"open", "tx", "exited"}
    /\ IF RollbackFails(c)
         THEN Gone(c) /\ conn' = Close({held[c]})
         ELSE pc' = [pc EXCEPT ![c] = "giving"] /\ UNCHANGED <<held, db, conn>>
    /\ UNCHANGED <<slot, before, dsn, leaked>>

\* give_back(cnx, keep_in_pool); PoolError if close_all() took the entry.
GiveBack(c) ==
    /\ pc[c] = "giving"
    /\ Gone(c)
    /\ LET k == held[c] IN
         IF slot[k] = "none"
           THEN UNCHANGED <<slot, before, conn>>
           ELSE IF db[c] \in Templates
           THEN /\ slot' = [slot EXCEPT ![k] = "none"]
                /\ before' = Drop(before, {k})
                /\ conn' = Close({k})
           ELSE /\ slot' = [slot EXCEPT ![k] = "idle"]
                /\ before' = AtEnd(before, Entries, k)
                /\ UNCHANGED conn
    /\ UNCHANGED <<dsn, leaked>>

\* The end of a with block: commit(), then close().  When the commit raises
\* (flush, constraint, serialization, dead backend), close() is not called.
ExitCommitFails(c) ==
    /\ pc[c] \in {"open", "tx"}
    /\ pc' = [pc EXCEPT ![c] = "exited"]
    /\ conn' = IF conn[held[c]] = "dead" /\ pc[c] = "tx"
                 THEN Close({held[c]}) ELSE conn
    /\ UNCHANGED <<slot, before, dsn, leaked, held, db>>

MutLeak(c) == \* mutant: __del__ does not mark the connection
    /\ pc[c] \in {"open", "tx", "exited"}
    /\ Gone(c)
    /\ IF RollbackFails(c) THEN conn' = Close({held[c]}) ELSE UNCHANGED conn
    /\ UNCHANGED <<slot, before, dsn, leaked>>

\* The last reference to an open cursor goes: __del__ rolls back and marks
\* the connection leaked, unless it is closed or the rollback raises.
Leak(c) ==
    /\ pc[c] \in {"open", "tx", "exited"}
    /\ Gone(c)
    /\ IF RollbackFails(c)
         THEN conn' = Close({held[c]}) /\ UNCHANGED leaked
         ELSE leaked' = leaked \cup {held[c]} /\ UNCHANGED conn
    /\ UNCHANGED <<slot, before, dsn>>

-----------------------------------------------------------------------------
(* The rest of the process, and the server *)

\* close_db(name) closes the connections of one database, close_all() all.
CloseAll(D) ==
    LET K == {k \in Entries : dsn[k] \in D} IN
    /\ conn' = Close(K)
    /\ slot' = [k \in Cnx |-> IF k \in K THEN "none" ELSE slot[k]]
    /\ before' = Drop(before, K)
    /\ leaked' = leaked \ K
    /\ UNCHANGED <<dsn, pc, held, db>>

\* The server ends a backend (restart, administrator, network).
BackendDies(k) ==
    /\ conn[k] = "open"
    /\ conn' = [conn EXCEPT ![k] = "dead"]
    /\ UNCHANGED <<slot, before, dsn, leaked, pc, held, db>>

Borrow(c) ==
    \/ BorrowFull(c)
    \/ \E d \in Dbs : \/ BorrowReuse(c, d)
                      \/ BorrowNew(c, d)
                      \/ BorrowConnectFails(c, d)

Next ==
    \/ \E c \in Cursors :
        \/ Borrow(c)
        \/ CursorInit(c)
        \/ Execute(c)
        \/ EndTransaction(c)
        \/ CloseCursor(c)
        \/ GiveBack(c)
        \/ ExitCommitFails(c)
        \/ Leak(c)
    \/ \E d \in Dbs : CloseAll({d})
    \/ CloseAll(Dbs)
    \/ \E k \in Cnx : BackendDies(k)

Spec == Init /\ [][Next]_vars

-----------------------------------------------------------------------------
(* Properties *)

Holding(c) == held[c] # None

(* No two cursors run on one connection, and a connection in a cursor's    *)
(* hands is never up for reuse or eviction: whatever mix of leaks, failed  *)
(* rollbacks, dead backends and close_db() came before.                    *)
NoSharing ==
    \A c \in Cursors : Holding(c) =>
        /\ \A e \in Cursors \ {c} : held[e] # held[c]
        /\ slot[held[c]] # "idle"
        /\ slot[held[c]] = "used" => held[c] \notin leaked

(* The process never has more than db_maxconn connections open on the      *)
(* server: there is no open connection the pool has lost track of.         *)
OpenBound ==
    /\ \A k \in Cnx : conn[k] # "closed" => slot[k] # "none"
    /\ Cardinality(Entries) <= MaxConn

(* An entry marked used can come back: it is in the hands of a cursor, or  *)
(* the next borrow frees it (leaked) or drops it (closed).                 *)
NoLostSlot ==
    \A k \in Cnx : slot[k] = "used" =>
        k \in Referenced \cup leaked \/ conn[k] = "closed"

(* borrow raises "The Connection Pool Is Full" only when db_maxconn        *)
(* cursors hold a connection at that very moment.                          *)
FullOnlyWhenBusy ==
    PoolIsFull => Cardinality({c \in Cursors : Holding(c)}) >= MaxConn

(* However the list is popped, walked and appended to, its entries are in  *)
(* one line: the oldest unused one, the one borrow evicts, is well defined.*)
EntriesInLine ==
    /\ before \subseteq Entries \X Entries
    /\ \A a, b \in Entries : a # b => (<<a, b>> \in before <=> <<b, a>> \notin before)
    /\ \A a \in Entries : <<a, a>> \notin before
    /\ \A a, b, e \in Entries :
          <<a, b>> \in before /\ <<b, e>> \in before => <<a, e>> \in before

Pool == INSTANCE Leases WITH lease <- held, open <- {k \in Cnx : conn[k] # "closed"}

(* All the pool does amounts to leases: each cursor gets, and keeps for    *)
(* itself, a connection to its database; no borrow, give_back or failed    *)
(* close of another cursor ever closes it, nor close_db of another         *)
(* database; and whoever takes one finds at most db_maxconn open.          *)
GivesLeases == Pool!LeasesSpec

(* The docstring of __enter__: "cr is closed in any case" once the with    *)
(* block is over.                                                          *)
WithBlockCloses == \A c \in Cursors : pc[c] # "exited"
=============================================================================
