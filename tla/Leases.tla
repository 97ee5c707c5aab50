------------------------------- MODULE Leases -------------------------------
(***************************************************************************)
(* What the connection pool promises its callers: a cursor takes a         *)
(* connection to its own database and keeps it, alone, until it gives it   *)
(* up.  Whatever the pool closes on its own account, to reuse a slot or to *)
(* make room, is in nobody's hands; only close_db and close_all take a     *)
(* connection from under a cursor, and only those they name.               *)
(***************************************************************************)
EXTENDS FiniteSets, Naturals

CONSTANTS Cnx, Cursors, Dbs,
          MaxConn,    \* how many connections may be open when one is taken
          None

VARIABLES
    lease,   \* Cursors -> the connection it runs on, or None
    db,      \* Cursors -> the database it was opened for, or None
    dsn,     \* Cnx -> the database it goes to, or None
    open     \* the connections not closed on this side

leaseVars == <<lease, db, dsn, open>>

Leased == {lease[c] : c \in Cursors} \ {None}

LeasesInit == /\ lease = [c \in Cursors |-> None]
              /\ db = [c \in Cursors |-> None]
              /\ dsn = [k \in Cnx |-> None]
              /\ open = {}

\* No connection that is leased is closed.
SparesLeases == open \cap Leased \subseteq open'

Take(c, d) ==
    /\ lease[c] = None
    /\ \E k \in Cnx \ Leased :
        /\ lease' = [lease EXCEPT ![c] = k]
        /\ db' = [db EXCEPT ![c] = d]
        /\ dsn' = [dsn EXCEPT ![k] = d]
        /\ k \in open' /\ open' \subseteq open \cup {k}
    /\ SparesLeases
    /\ Cardinality(open') <= MaxConn

\* An attempt to take that fails may have closed what nobody uses.
Trim == /\ open' \subseteq open
        /\ SparesLeases
        /\ UNCHANGED <<lease, db, dsn>>

\* The cursor is done: its own connection is closed or kept for another.
Give(c) == /\ lease[c] # None
           /\ lease' = [lease EXCEPT ![c] = None]
           /\ db' = [db EXCEPT ![c] = None]
           /\ open' \in {open, open \ {lease[c]}}
           /\ UNCHANGED dsn

\* The cursor finds its server gone, and goes on holding the connection.
Break(c) == /\ lease[c] # None
            /\ open' = open \ {lease[c]}
            /\ UNCHANGED <<lease, db, dsn>>

CloseDbs(D) == /\ open' = {k \in open : dsn[k] \notin D}
               /\ UNCHANGED <<lease, db, dsn>>

LeasesNext ==
    \/ \E c \in Cursors : Give(c) \/ Break(c) \/ \E d \in Dbs : Take(c, d)
    \/ Trim
    \/ \E D \in SUBSET Dbs : CloseDbs(D)

LeasesSpec == LeasesInit /\ [][LeasesNext]_leaseVars
=============================================================================
