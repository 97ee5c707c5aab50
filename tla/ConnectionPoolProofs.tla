------------------------ MODULE ConnectionPoolProofs ------------------------
(***************************************************************************)
(* For every number of connections, cursors and databases: the safety      *)
(* properties of ConnectionPool, from an inductive invariant, and that it  *)
(* implements Leases.                                                      *)
(***************************************************************************)
EXTENDS ConnectionPool, FiniteSetTheorems, TLAPS

(* A cursor's connection goes to the database the cursor was opened for.   *)
RightDatabase ==
    \A c \in Cursors : Holding(c) => dsn[held[c]] = db[c]

(* A connection is marked leaked only while its entry is in use.           *)
LeakedUsed == \A k \in leaked : slot[k] = "used"

(***************************************************************************)
(* The properties support each other.  That a held connection is never     *)
(* idle (NoSharing) needs LeakedUsed: a borrow turns leaked entries idle.  *)
(* That a reused connection is not held needs NoSharing; that the entries  *)
(* are all the open connections (OpenBound) needs that only entries are    *)
(* handed out.                                                             *)
(***************************************************************************)
IInv ==
    /\ TypeOK
    /\ NoSharing
    /\ RightDatabase
    /\ OpenBound
    /\ IsFiniteSet(Entries)
    /\ NoLostSlot
    /\ LeakedUsed

-----------------------------------------------------------------------------

(* Removing entries keeps the pool within its limit.                       *)
LEMMA FewerEntries ==
    ASSUME NEW S, NEW T \in SUBSET S, IsFiniteSet(S), Cardinality(S) <= MaxConn
    PROVE  IsFiniteSet(T) /\ Cardinality(T) <= MaxConn
  <1>1. /\ IsFiniteSet(T)
        /\ Cardinality(T) <= Cardinality(S)
    BY FS_Subset
  <1>2. Cardinality(T) \in Nat /\ Cardinality(S) \in Nat
    BY <1>1, FS_CardinalityType
  <1> QED
    BY <1>1, <1>2, MaxConnAssumption

(* borrow adds an entry below the limit, or in the place of its victim.    *)
LEMMA OneMoreEntry ==
    ASSUME NEW S, NEW T \in SUBSET S, NEW v, NEW k, IsFiniteSet(S),
           Cardinality(S) <= MaxConn,
           Cardinality(T) < MaxConn \/ v \in T
    PROVE  /\ IsFiniteSet((T \ {v}) \cup {k})
           /\ Cardinality((T \ {v}) \cup {k}) <= MaxConn
  <1> DEFINE U == T \ {v}
  <1>1. /\ IsFiniteSet(T)
        /\ Cardinality(T) <= MaxConn
    BY FewerEntries
  <1>2. /\ IsFiniteSet(U)
        /\ Cardinality(U) = IF v \in T THEN Cardinality(T) - 1 ELSE Cardinality(T)
    BY <1>1, FS_RemoveElement
  <1>3. Cardinality(T) \in Nat /\ Cardinality(U) \in Nat
    BY <1>1, <1>2, FS_CardinalityType
  <1>4. Cardinality(U) < MaxConn
    BY <1>1, <1>2, <1>3, MaxConnAssumption
  <1>5. /\ IsFiniteSet(U \cup {k})
        /\ Cardinality(U \cup {k}) = IF k \in U THEN Cardinality(U)
                                               ELSE Cardinality(U) + 1
    BY <1>2, FS_AddElement
  <1> QED
    BY <1>3, <1>4, <1>5, MaxConnAssumption

(* What borrow's first loop establishes: the entries that remain are of    *)
(* open connections, and the unused ones are in nobody's hands.            *)
LEMMA SweepLemma ==
    ASSUME IInv
    PROVE  /\ SweptSlot \in [Cnx -> {"none", "idle", "used"}]
           /\ SweptEntries = {k \in Cnx : SweptSlot[k] # "none"}
           /\ \A k \in SweptEntries : conn[k] # "closed"
           /\ \A k \in Cnx : SweptSlot[k] = "idle" => k \notin Referenced
           /\ \A k \in Cnx : SweptSlot[k] = "used" =>
                  slot[k] = "used" /\ k \in Referenced /\ k \notin leaked
           /\ \A k \in Cnx : slot[k] = "none" => SweptSlot[k] = "none"
           /\ \A k \in leaked : k \in Swept \cup Freed
           /\ IsFiniteSet(SweptEntries) /\ Cardinality(SweptEntries) <= MaxConn
  <1>1. SweptEntries \subseteq Entries
    BY DEF SweptEntries
  <1>2. IsFiniteSet(SweptEntries) /\ Cardinality(SweptEntries) <= MaxConn
    BY <1>1, FewerEntries DEF IInv, OpenBound
  <1>3. leaked \subseteq Entries
    BY DEF IInv, TypeOK, LeakedUsed, Entries
  <1>4. SweptSlot \in [Cnx -> {"none", "idle", "used"}]
    BY DEF IInv, TypeOK, SweptSlot
  <1>5. /\ SweptEntries = {k \in Cnx : SweptSlot[k] # "none"}
        /\ \A k \in SweptEntries : conn[k] # "closed"
    BY <1>4 DEF SweptSlot, SweptEntries, Entries, Swept, Freed
  <1>6. ASSUME NEW k \in Cnx, SweptSlot[k] = "idle"
        PROVE  k \notin Referenced
    <2>1. slot[k] = "idle" \/ (k \in leaked /\ slot[k] = "used")
      BY <1>6 DEF SweptSlot, Freed, IInv, LeakedUsed
    <2> QED
      BY <2>1, NoneAssumption DEF IInv, NoSharing, Holding, Referenced
  <1>7. ASSUME NEW k \in Cnx, SweptSlot[k] = "used"
        PROVE  slot[k] = "used" /\ k \in Referenced /\ k \notin leaked
    <2>1. slot[k] = "used" /\ k \notin Swept /\ k \notin Freed
      BY <1>7 DEF SweptSlot
    <2>2. conn[k] # "closed" /\ k \notin leaked
      BY <2>1, <1>3 DEF Swept, Freed, Entries
    <2> QED
      BY <2>1, <2>2 DEF IInv, NoLostSlot
  <1>8. \A k \in Cnx : slot[k] = "none" => SweptSlot[k] = "none"
    BY DEF SweptSlot, Swept, Freed, Entries
  <1>9. \A k \in leaked : k \in Swept \cup Freed
    BY <1>3 DEF Freed
  <1> QED
    BY <1>2, <1>4, <1>5, <1>6, <1>7, <1>8, <1>9

THEOREM InitInv == Init => IInv
  <1> SUFFICES ASSUME Init PROVE IInv
    OBVIOUS
  <1>1. Entries = {}
    BY DEF Init, Entries
  <1>2. IsFiniteSet(Entries) /\ Cardinality(Entries) <= MaxConn
    BY <1>1, FS_EmptySet, MaxConnAssumption
  <1> QED
    BY <1>2 DEF Init, IInv, TypeOK, NoSharing, RightDatabase, OpenBound,
       NoLostSlot, LeakedUsed, Holding, PCs

-----------------------------------------------------------------------------

(* The order of the list stays a relation on connections.                  *)
LEMMA ListTypes ==
    ASSUME TypeOK
    PROVE  /\ SweptBefore \subseteq Cnx \X Cnx
           /\ \A S : \A list \in SUBSET (Cnx \X Cnx) : Drop(list, S) \subseteq Cnx \X Cnx
           /\ \A list \in SUBSET (Cnx \X Cnx), S \in SUBSET Cnx, k \in Cnx :
                 AtEnd(list, S, k) \subseteq Cnx \X Cnx
  <1>1. \A S : \A list \in SUBSET (Cnx \X Cnx) : Drop(list, S) \subseteq Cnx \X Cnx
    BY DEF Drop
  <1>2. Freed \subseteq Cnx /\ SweptEntries \subseteq Cnx
    BY DEF Freed, SweptEntries, Entries
  <1>3. SweptBefore \subseteq Cnx \X Cnx
    BY <1>1, <1>2 DEF SweptBefore, TypeOK
  <1>4. \A list \in SUBSET (Cnx \X Cnx), S \in SUBSET Cnx, k \in Cnx :
           AtEnd(list, S, k) \subseteq Cnx \X Cnx
    BY <1>1 DEF AtEnd
  <1> QED
    BY <1>1, <1>3, <1>4

LEMMA BorrowReuseInv ==
    ASSUME IInv, NEW c \in Cursors, NEW d \in Dbs, BorrowReuse(c, d)
    PROVE  IInv'
  <1>1. PICK k \in Reusable(d) :
           /\ conn' = Close(TriedBefore(k, d))
           /\ slot' = [SweptSlot EXCEPT ![k] = "used"]
           /\ before' = AtEnd(SweptBefore, SweptEntries, k)
           /\ held' = [held EXCEPT ![c] = k]
    BY DEF BorrowReuse
  <1>2. k \in Cnx /\ SweptSlot[k] = "idle" /\ dsn[k] = d /\ conn[k] = "open"
    BY DEF Reusable, Oldest, Candidates
  <1>3. leaked' = {}
    BY SweepLemma DEF BorrowReuse, IInv, TypeOK
  <1>4. Entries' = SweptEntries
    BY <1>1, <1>2, SweepLemma DEF Entries
  <1>5. TypeOK'
    <2>1. SweptEntries \subseteq Cnx
      BY DEF SweptEntries, Entries
    <2>2. before' \subseteq Cnx \X Cnx
      BY <1>1, <1>2, <2>1, ListTypes DEF IInv
    <2> QED
      BY <1>1, <1>2, <1>3, <2>2, SweepLemma, NoneAssumption
      DEF TypeOK, BorrowReuse, IInv, Close, PCs
  <1>6. NoSharing'
    BY <1>1, <1>2, <1>3, SweepLemma, NoneAssumption
    DEF NoSharing, Holding, IInv, TypeOK, Referenced
  <1>7. RightDatabase'
    BY <1>1, <1>2 DEF RightDatabase, Holding, BorrowReuse, IInv, TypeOK
  <1>8. OpenBound' /\ IsFiniteSet(Entries)'
    BY <1>1, <1>4, SweepLemma DEF OpenBound, IInv, TypeOK, Close, SweptEntries, Swept, Entries
  <1>9. NoLostSlot'
    <2> SUFFICES ASSUME NEW m \in Cnx, slot'[m] = "used", m # k
                 PROVE  m \in Referenced'
      BY <1>1 DEF NoLostSlot, Referenced, IInv, TypeOK
    <2>1. m \in Referenced
      BY <1>1, <1>2, SweepLemma
    <2> QED
      BY <1>1, <2>1, NoneAssumption DEF Referenced, BorrowReuse, IInv, TypeOK
  <1> QED
    BY <1>3, <1>5, <1>6, <1>7, <1>8, <1>9 DEF IInv, LeakedUsed

(* The victim of a full pool is an unused entry.                           *)
LEMMA VictimLemma ==
    ASSUME IInv, NEW v \in Victims
    PROVE  /\ Cardinality(SweptEntries) < MaxConn \/ v \in SweptEntries
           /\ v = None \/ (v \in Cnx /\ SweptSlot[v] = "idle" /\ v \notin Referenced)
  <1>1. v = None \/ (v \in Cnx /\ SweptSlot[v] = "idle")
    BY DEF Victims, Oldest, SweptIdle
  <1>2. Cardinality(SweptEntries) < MaxConn \/ v \in SweptIdle
    BY DEF Victims, Oldest, SweptCount
  <1>3. SweptIdle \subseteq SweptEntries
    BY SweepLemma DEF SweptIdle
  <1> QED
    BY <1>1, <1>2, <1>3, SweepLemma

LEMMA BorrowNewInv ==
    ASSUME IInv, NEW c \in Cursors, NEW d \in Dbs, BorrowNew(c, d)
    PROVE  IInv'
  <1>1. PICK v \in Victims : \E k \in Cnx \ (Referenced \cup (SweptEntries \ {v})) :
           /\ conn' = [Close(Candidates(d) \cup {v}) EXCEPT ![k] = "open"]
           /\ slot' = [x \in Cnx |-> IF x = k THEN "used"
                                     ELSE IF x = v THEN "none" ELSE SweptSlot[x]]
           /\ before' = AtEnd(Drop(SweptBefore, {v}), SweptEntries \ {v}, k)
           /\ dsn' = [dsn EXCEPT ![k] = d]
           /\ held' = [held EXCEPT ![c] = k]
    BY DEF BorrowNew
  <1>2. PICK k \in Cnx \ (Referenced \cup (SweptEntries \ {v})) :
           /\ conn' = [Close(Candidates(d) \cup {v}) EXCEPT ![k] = "open"]
           /\ slot' = [x \in Cnx |-> IF x = k THEN "used"
                                     ELSE IF x = v THEN "none" ELSE SweptSlot[x]]
           /\ before' = AtEnd(Drop(SweptBefore, {v}), SweptEntries \ {v}, k)
           /\ dsn' = [dsn EXCEPT ![k] = d]
           /\ held' = [held EXCEPT ![c] = k]
    BY <1>1
  <1>3. /\ Cardinality(SweptEntries) < MaxConn \/ v \in SweptEntries
        /\ v = None \/ (v \in Cnx /\ SweptSlot[v] = "idle" /\ v \notin Referenced)
    BY VictimLemma
  <1>4. leaked' = {}
    BY SweepLemma DEF BorrowNew, IInv, TypeOK
  <1>5. Entries' = (SweptEntries \ {v}) \cup {k}
    BY <1>2, SweepLemma DEF Entries
  <1>6. TypeOK'
    <2>1. SweptEntries \subseteq Cnx
      BY DEF SweptEntries, Entries
    <2>2. before' \subseteq Cnx \X Cnx
      BY <1>2, <2>1, ListTypes DEF IInv
    <2>3. slot' \in [Cnx -> {"none", "idle", "used"}]
      BY <1>2, SweepLemma
    <2>4. conn' \in [Cnx -> {"open", "dead", "closed"}]
      BY <1>2 DEF Close, IInv, TypeOK
    <2>5. /\ dsn' \in [Cnx -> Dbs \cup {None}]
          /\ held' \in [Cursors -> Cnx \cup {None}]
          /\ db' \in [Cursors -> Dbs \cup {None}]
      BY <1>2 DEF TypeOK, BorrowNew, IInv
    <2>6. /\ pc' \in [Cursors -> PCs]
          /\ \A e \in Cursors : pc'[e] = "none" <=> held'[e] = None
      BY <1>2, NoneAssumption DEF TypeOK, BorrowNew, IInv, PCs
    <2> QED
      BY <1>4, <2>2, <2>3, <2>4, <2>5, <2>6 DEF TypeOK
  <1>7. NoSharing'
    BY <1>2, <1>3, <1>4, SweepLemma, NoneAssumption
    DEF NoSharing, Holding, IInv, TypeOK, Referenced
  <1>8. RightDatabase'
    <2> SUFFICES ASSUME NEW e \in Cursors, e # c, held[e] # None
                 PROVE  dsn'[held[e]] = db[e]
      BY <1>2 DEF RightDatabase, Holding, BorrowNew, IInv, TypeOK
    <2> QED
      BY <1>2 DEF RightDatabase, Holding, Referenced, IInv, TypeOK
  <1>9. OpenBound'
    <2>1. Cardinality(Entries') <= MaxConn
      BY <1>3, <1>5, OneMoreEntry, SweepLemma
    <2>2. ASSUME NEW m \in Cnx, conn'[m] # "closed", m # k
          PROVE  slot'[m] # "none"
      <3>1. conn[m] # "closed" /\ m # v
        BY <1>2, <2>2 DEF Close, IInv, TypeOK
      <3>2. m \in SweptEntries
        BY <3>1 DEF SweptEntries, Swept, Entries, IInv, OpenBound
      <3> QED
        BY <1>2, <2>2, <3>1, <3>2, SweepLemma
    <2> QED
      BY <1>2, <2>1, <2>2 DEF OpenBound
  <1>10. IsFiniteSet(Entries)'
    BY <1>3, <1>5, OneMoreEntry, SweepLemma
  <1>11. NoLostSlot'
    <2> SUFFICES ASSUME NEW m \in Cnx, slot'[m] = "used", m # k
                 PROVE  m \in Referenced'
      BY <1>2 DEF NoLostSlot, Referenced, IInv, TypeOK
    <2>1. m \in Referenced
      BY <1>2, SweepLemma
    <2> QED
      BY <1>2, <2>1, NoneAssumption DEF Referenced, BorrowNew, IInv, TypeOK
  <1> QED
    BY <1>4, <1>6, <1>7, <1>8, <1>9, <1>10, <1>11 DEF IInv, LeakedUsed

(* After the sweep, and possibly an eviction, with nothing borrowed.       *)
LEMMA NothingBorrowed ==
    ASSUME IInv, NEW S, NEW v, v = None \/ (v \in Cnx /\ SweptSlot[v] = "idle"),
           S \subseteq {k \in Cnx : SweptSlot[k] = "idle"} \cup {v},
           conn' = Close(S), v \in Cnx => v \in S,
           slot' = [x \in Cnx |-> IF x = v THEN "none" ELSE SweptSlot[x]],
           before' \subseteq Cnx \X Cnx,
           leaked' = leaked \ (Swept \cup Freed),
           UNCHANGED <<dsn, pc, held, db>>
    PROVE  IInv'
  <1>1. leaked' = {}
    BY SweepLemma DEF IInv, TypeOK
  <1>2. Entries' = SweptEntries \ {v}
    BY SweepLemma DEF Entries
  <1>3. TypeOK'
    <2>1. slot' \in [Cnx -> {"none", "idle", "used"}]
      BY SweepLemma
    <2>2. conn' \in [Cnx -> {"open", "dead", "closed"}]
      BY DEF Close, IInv, TypeOK
    <2> QED
      BY <1>1, <2>1, <2>2 DEF TypeOK, IInv
  <1>4. NoSharing'
    BY <1>1, SweepLemma, NoneAssumption DEF NoSharing, Holding, IInv, TypeOK, Referenced
  <1>5. RightDatabase'
    BY DEF RightDatabase, Holding, IInv
  <1>6. OpenBound' /\ IsFiniteSet(Entries)'
    <2>1. Cardinality(Entries') <= MaxConn /\ IsFiniteSet(Entries')
      BY <1>2, SweepLemma, FewerEntries
    <2>2. ASSUME NEW m \in Cnx, conn'[m] # "closed"
          PROVE  slot'[m] # "none"
      <3>1. conn[m] # "closed" /\ m # v
        BY <2>2, NoneAssumption DEF Close, IInv, TypeOK
      <3>2. m \in SweptEntries
        BY <3>1 DEF SweptEntries, Swept, Entries, IInv, OpenBound
      <3> QED
        BY <3>1, <3>2, SweepLemma
    <2> QED
      BY <2>1, <2>2 DEF OpenBound
  <1>7. NoLostSlot'
    BY SweepLemma DEF NoLostSlot, Referenced
  <1> QED
    BY <1>1, <1>3, <1>4, <1>5, <1>6, <1>7 DEF IInv, LeakedUsed

LEMMA BorrowConnectFailsInv ==
    ASSUME IInv, NEW c \in Cursors, NEW d \in Dbs, BorrowConnectFails(c, d)
    PROVE  IInv'
  <1>1. PICK v \in Victims :
           /\ conn' = Close(Candidates(d) \cup {v})
           /\ slot' = [x \in Cnx |-> IF x = v THEN "none" ELSE SweptSlot[x]]
           /\ before' = Drop(SweptBefore, {v})
    BY DEF BorrowConnectFails
  <1>2. v = None \/ (v \in Cnx /\ SweptSlot[v] = "idle")
    BY VictimLemma
  <1>3. before' \subseteq Cnx \X Cnx
    BY <1>1, ListTypes DEF IInv
  <1>4. Candidates(d) \subseteq {k \in Cnx : SweptSlot[k] = "idle"}
    BY DEF Candidates
  <1> QED
    BY <1>1, <1>2, <1>3, <1>4, NothingBorrowed DEF BorrowConnectFails

LEMMA BorrowFullInv ==
    ASSUME IInv, NEW c \in Cursors, BorrowFull(c)
    PROVE  IInv'
  <1>1. before' \subseteq Cnx \X Cnx
    BY ListTypes DEF IInv, BorrowFull
  <1>2. slot' = [x \in Cnx |-> IF x = None THEN "none" ELSE SweptSlot[x]]
    BY SweepLemma, NoneAssumption DEF BorrowFull
  <1>3. conn' = Close({})
    BY DEF Close, BorrowFull, IInv, TypeOK
  <1> QED
    BY <1>1, <1>2, <1>3, NothingBorrowed, NoneAssumption DEF BorrowFull

-----------------------------------------------------------------------------

(* A step that leaves the list of entries and the marks alone, keeps or    *)
(* loses what each cursor holds, and at most closes connections or lets    *)
(* their backends die, keeps all but NoLostSlot.                           *)
LEMMA CursorStep ==
    ASSUME IInv, TypeOK',
           UNCHANGED <<slot, dsn, leaked>>,
           \A k \in Cnx : conn[k] = "closed" => conn'[k] = "closed",
           \A c \in Cursors : held'[c] = None \/ (held'[c] = held[c] /\ db'[c] = db[c]),
           \A c \in Cursors : held'[c] = None /\ held[c] # None
                            /\ slot[held[c]] = "used" => conn'[held[c]] = "closed"
    PROVE  IInv'
  <1>1. NoSharing'
    BY DEF NoSharing, Holding, IInv
  <1>2. RightDatabase'
    BY DEF RightDatabase, Holding, IInv
  <1>3. Entries' = Entries
    BY DEF Entries
  <1>4. OpenBound' /\ IsFiniteSet(Entries)'
    BY <1>3 DEF OpenBound, IInv, Entries
  <1>5. NoLostSlot'
    <2> SUFFICES ASSUME NEW k \in Cnx, slot[k] = "used", k \in Referenced, k \notin Referenced'
                 PROVE  conn'[k] = "closed"
      BY DEF NoLostSlot, IInv
    <2>1. PICK c \in Cursors : held[c] = k
      BY DEF Referenced
    <2> QED
      BY <2>1, NoneAssumption DEF Referenced
  <1> QED
    BY <1>1, <1>2, <1>4, <1>5 DEF IInv, LeakedUsed

LEMMA CursorInitInv ==
    ASSUME IInv, NEW c \in Cursors, CursorInit(c) PROVE IInv'
  <1>1. TypeOK'
    BY DEF CursorInit, Gone, IInv, TypeOK, PCs
  <1> QED
    BY <1>1, CursorStep DEF CursorInit, Gone, IInv, TypeOK

LEMMA ExecuteInv ==
    ASSUME IInv, NEW c \in Cursors, Execute(c) PROVE IInv'
  <1>1. TypeOK'
    BY DEF Execute, Close, IInv, TypeOK, PCs
  <1> QED
    BY <1>1, CursorStep DEF Execute, Close, IInv, TypeOK

LEMMA EndTransactionInv ==
    ASSUME IInv, NEW c \in Cursors, EndTransaction(c) PROVE IInv'
  <1>1. TypeOK'
    BY DEF EndTransaction, IInv, TypeOK, PCs
  <1> QED
    BY <1>1, CursorStep DEF EndTransaction

LEMMA CloseCursorInv ==
    ASSUME IInv, NEW c \in Cursors, CloseCursor(c) PROVE IInv'
  <1>1. TypeOK'
    BY DEF CloseCursor, Gone, Close, IInv, TypeOK, PCs
  <1> QED
    BY <1>1, CursorStep DEF CloseCursor, Gone, Close, IInv, TypeOK

LEMMA ExitCommitFailsInv ==
    ASSUME IInv, NEW c \in Cursors, ExitCommitFails(c) PROVE IInv'
  <1>1. TypeOK'
    BY DEF ExitCommitFails, Close, IInv, TypeOK, PCs
  <1> QED
    BY <1>1, CursorStep DEF ExitCommitFails, Close, IInv, TypeOK

LEMMA BackendDiesInv ==
    ASSUME IInv, NEW k \in Cnx, BackendDies(k) PROVE IInv'
  <1>1. TypeOK'
    BY DEF BackendDies, IInv, TypeOK
  <1> QED
    BY <1>1, CursorStep DEF BackendDies, IInv, TypeOK

(* A leaked connection stays used until a borrow frees it.                 *)
LEMMA LeakInv ==
    ASSUME IInv, NEW c \in Cursors, Leak(c) PROVE IInv'
  <1>1. held[c] \in Cnx
    BY DEF Leak, IInv, TypeOK
  <1>2. CASE RollbackFails(c)
    <2>1. TypeOK'
      BY <1>2 DEF Leak, Gone, Close, IInv, TypeOK, PCs
    <2> QED
      BY <1>2, <2>1, CursorStep DEF Leak, Gone, Close, IInv, TypeOK
  <1>3. CASE ~RollbackFails(c)
    <2>1. /\ leaked' = leaked \cup {held[c]}
          /\ UNCHANGED <<slot, before, conn, dsn>>
          /\ Gone(c)
      BY <1>3 DEF Leak
    <2>2. slot[held[c]] = "used"
      BY <1>1, <1>3, NoneAssumption
      DEF RollbackFails, IInv, TypeOK, OpenBound, NoSharing, Holding
    <2>3. TypeOK'
      BY <1>1, <2>1 DEF Gone, IInv, TypeOK, PCs
    <2>4. NoSharing'
      BY <1>1, <2>1, NoneAssumption DEF Gone, NoSharing, Holding, IInv, TypeOK
    <2>5. RightDatabase'
      BY <2>1 DEF Gone, RightDatabase, Holding, IInv, TypeOK
    <2>6. OpenBound' /\ IsFiniteSet(Entries)'
      BY <2>1 DEF OpenBound, IInv, Entries
    <2>7. NoLostSlot'
      <3> SUFFICES ASSUME NEW k \in Cnx, slot[k] = "used", k \in Referenced, k # held[c]
                   PROVE  k \in Referenced'
        BY <2>1 DEF NoLostSlot, IInv
      <3> QED
        BY <2>1 DEF Referenced, Gone, IInv, TypeOK
    <2> QED
      BY <2>1, <2>2, <2>3, <2>4, <2>5, <2>6, <2>7 DEF IInv, LeakedUsed
  <1> QED
    BY <1>2, <1>3

LEMMA GiveBackInv ==
    ASSUME IInv, NEW c \in Cursors, GiveBack(c) PROVE IInv'
  <1> DEFINE k == held[c]
  <1>1. k \in Cnx /\ Holding(c)
    BY NoneAssumption DEF GiveBack, IInv, TypeOK, Holding
  <1>2. CASE slot[k] = "none"
    <2>1. TypeOK'
      BY <1>2 DEF GiveBack, Gone, IInv, TypeOK, PCs
    <2> QED
      BY <1>2, <2>1, CursorStep DEF GiveBack, Gone, IInv, TypeOK
  <1>3. CASE slot[k] # "none"
    <2>1. slot[k] = "used" /\ k \notin leaked
      BY <1>1, <1>3 DEF IInv, TypeOK, NoSharing
    <2>2. /\ Gone(c)
          /\ UNCHANGED <<dsn, leaked>>
          /\ \/ /\ slot' = [slot EXCEPT ![k] = "none"]
                /\ conn' = Close({k})
                /\ before' = Drop(before, {k})
             \/ /\ slot' = [slot EXCEPT ![k] = "idle"]
                /\ conn' = conn
                /\ before' = AtEnd(before, Entries, k)
      BY <1>3 DEF GiveBack
    <2>3. TypeOK'
      <3>1. before' \subseteq Cnx \X Cnx
        BY <1>1, <2>2, ListTypes DEF IInv, TypeOK, Entries
      <3>2. /\ slot' \in [Cnx -> {"none", "idle", "used"}]
            /\ conn' \in [Cnx -> {"open", "dead", "closed"}]
        BY <2>2 DEF Close, IInv, TypeOK
      <3> QED
        BY <2>2, <3>1, <3>2 DEF Gone, IInv, TypeOK, PCs
    <2>4. NoSharing'
      BY <1>1, <2>2, NoneAssumption DEF Gone, NoSharing, Holding, IInv, TypeOK
    <2>5. RightDatabase'
      BY <2>2 DEF Gone, RightDatabase, Holding, IInv, TypeOK
    <2>6. OpenBound' /\ IsFiniteSet(Entries)'
      <3>1. Entries' \subseteq Entries
        BY <1>3, <2>2 DEF Entries, IInv, TypeOK
      <3>2. Cardinality(Entries') <= MaxConn /\ IsFiniteSet(Entries')
        BY <3>1, FewerEntries DEF IInv, OpenBound
      <3> QED
        BY <1>1, <2>2, <3>2 DEF OpenBound, Close, IInv, TypeOK
    <2>7. NoLostSlot'
      <3> SUFFICES ASSUME NEW m \in Cnx, slot'[m] = "used"
                   PROVE  m \in Referenced' \cup leaked' \/ conn'[m] = "closed"
        BY DEF NoLostSlot
      <3>1. m # k /\ slot[m] = "used" /\ conn'[m] = conn[m]
        BY <1>1, <2>2 DEF Close, IInv, TypeOK
      <3>2. m \in Referenced => m \in Referenced'
        BY <2>2, <3>1 DEF Referenced, Gone, IInv, TypeOK
      <3> QED
        BY <2>2, <3>1, <3>2 DEF IInv, NoLostSlot
    <2> QED
      BY <2>1, <2>2, <2>3, <2>4, <2>5, <2>6, <2>7 DEF IInv, LeakedUsed, TypeOK
  <1> QED
    BY <1>2, <1>3

LEMMA CloseAllInv ==
    ASSUME IInv, NEW D, CloseAll(D) PROVE IInv'
  <1> DEFINE K == {k \in Entries : dsn[k] \in D}
  <1>1. /\ conn' = Close(K)
        /\ slot' = [k \in Cnx |-> IF k \in K THEN "none" ELSE slot[k]]
        /\ before' = Drop(before, K)
        /\ leaked' = leaked \ K
        /\ UNCHANGED <<dsn, pc, held, db>>
    BY DEF CloseAll
  <1>2. TypeOK'
    <2>1. before' \subseteq Cnx \X Cnx
      BY <1>1, ListTypes DEF IInv, TypeOK
    <2> QED
      BY <1>1, <2>1 DEF Close, IInv, TypeOK
  <1>3. NoSharing'
    BY <1>1 DEF NoSharing, Holding, IInv, TypeOK
  <1>4. RightDatabase'
    BY <1>1 DEF RightDatabase, Holding, IInv
  <1>5. OpenBound' /\ IsFiniteSet(Entries)'
    <2>1. Entries' \subseteq Entries
      BY <1>1 DEF Entries
    <2>2. Cardinality(Entries') <= MaxConn /\ IsFiniteSet(Entries')
      BY <2>1, FewerEntries DEF IInv, OpenBound
    <2> QED
      BY <1>1, <2>2 DEF OpenBound, Close, IInv, TypeOK
  <1>6. NoLostSlot'
    BY <1>1 DEF NoLostSlot, Referenced, Close, IInv, TypeOK
  <1> QED
    BY <1>1, <1>2, <1>3, <1>4, <1>5, <1>6 DEF IInv, LeakedUsed, TypeOK

-----------------------------------------------------------------------------

LEMMA NextInv == IInv /\ [Next]_vars => IInv'
  <1> SUFFICES ASSUME IInv, [Next]_vars PROVE IInv'
    OBVIOUS
  <1>1. ASSUME NEW c \in Cursors, Borrow(c) PROVE IInv'
    BY <1>1, BorrowFullInv, BorrowReuseInv, BorrowNewInv, BorrowConnectFailsInv DEF Borrow
  <1>2. ASSUME NEW c \in Cursors,
               \/ CursorInit(c) \/ Execute(c) \/ EndTransaction(c) \/ CloseCursor(c)
               \/ GiveBack(c) \/ ExitCommitFails(c) \/ Leak(c)
        PROVE  IInv'
    BY <1>2, CursorInitInv, ExecuteInv, EndTransactionInv, CloseCursorInv, GiveBackInv,
       ExitCommitFailsInv, LeakInv
  <1>3. ASSUME NEW D, CloseAll(D) PROVE IInv'
    BY <1>3, CloseAllInv
  <1>4. ASSUME NEW k \in Cnx, BackendDies(k) PROVE IInv'
    BY <1>4, BackendDiesInv
  <1>5. CASE UNCHANGED vars
    BY <1>5 DEF vars, IInv, TypeOK, NoSharing, RightDatabase, OpenBound, NoLostSlot,
       LeakedUsed, Holding, Entries, Referenced
  <1> QED
    BY <1>1, <1>2, <1>3, <1>4, <1>5 DEF Next

(* IInv holds in every reachable state.                                    *)
THEOREM Invariance == Spec => []IInv
  BY InitInv, NextInv, PTL DEF Spec

(* The variables keep their types, for every pool size.                    *)
THEOREM TypeCorrect == Spec => []TypeOK
  <1>1. IInv => TypeOK
    BY DEF IInv
  <1> QED
    BY <1>1, Invariance, PTL

(* No two cursors ever share a connection, and none is up for reuse while  *)
(* held (ConnectionPool.borrow, give_back, close_all; Cursor._close).      *)
THEOREM Exclusive == Spec => []NoSharing
  <1>1. IInv => NoSharing
    BY DEF IInv
  <1> QED
    BY <1>1, Invariance, PTL

(* A cursor always runs on a connection to its own database.               *)
THEOREM DatabaseCorrect == Spec => []RightDatabase
  <1>1. IInv => RightDatabase
    BY DEF IInv
  <1> QED
    BY <1>1, Invariance, PTL

(* Never more than db_maxconn connections open, and all of them tracked.   *)
THEOREM Bounded == Spec => []OpenBound
  <1>1. IInv => OpenBound
    BY DEF IInv
  <1> QED
    BY <1>1, Invariance, PTL

(* Every used entry can come back to the pool.                             *)
THEOREM NothingLost == Spec => []NoLostSlot
  <1>1. IInv => NoLostSlot
    BY DEF IInv
  <1> QED
    BY <1>1, Invariance, PTL

(* PoolError is raised only while db_maxconn cursors hold a connection:    *)
(* held maps them onto the entries that a sweep leaves.                    *)
LEMMA FullLemma == IInv => FullOnlyWhenBusy
  <1> SUFFICES ASSUME IInv, PoolIsFull
               PROVE  Cardinality({c \in Cursors : Holding(c)}) >= MaxConn
    BY DEF FullOnlyWhenBusy
  <1> DEFINE H == {c \in Cursors : Holding(c)}
             G == {c \in Cursors : held[c] \in SweptEntries}
             f == [c \in G |-> held[c]]
  <1>1. ASSUME NEW k \in SweptEntries PROVE \E c \in G : f[c] = k
    <2>1. k \in Cnx /\ SweptSlot[k] = "used"
      BY SweepLemma DEF PoolIsFull, SweptIdle
    <2>2. k \in Referenced
      BY <2>1, SweepLemma
    <2> QED
      BY <2>2 DEF Referenced
  <1>2. f \in Surjection(G, SweptEntries)
    BY <1>1 DEF Surjection
  <1>3. G \subseteq H
    BY NoneAssumption DEF Holding, SweptEntries, Entries
  <1>4. IsFiniteSet(H) /\ IsFiniteSet(G) /\ Cardinality(G) <= Cardinality(H)
    <2>1. IsFiniteSet(H)
      BY CursorsAssumption, FS_Subset
    <2> QED
      BY <1>3, <2>1, FS_Subset
  <1>5. Cardinality(SweptEntries) <= Cardinality(G)
    BY <1>2, <1>4, FS_Surjection
  <1>6. /\ Cardinality(H) \in Nat /\ Cardinality(G) \in Nat
        /\ Cardinality(SweptEntries) \in Nat
    BY <1>4, SweepLemma, FS_CardinalityType
  <1> QED
    BY <1>4, <1>5, <1>6, MaxConnAssumption DEF PoolIsFull, SweptCount

(* "The Connection Pool Is Full" is the truth when it is raised.           *)
THEOREM FullIsBusy == Spec => []FullOnlyWhenBusy
  BY FullLemma, Invariance, PTL

-----------------------------------------------------------------------------

(* The list stays a list: dropping entries, and moving one to the end.     *)
Line(S, list) ==
    /\ list \subseteq S \X S
    /\ \A a, b \in S : a # b => (<<a, b>> \in list <=> <<b, a>> \notin list)
    /\ \A a \in S : <<a, a>> \notin list
    /\ \A a, b, e \in S : <<a, b>> \in list /\ <<b, e>> \in list => <<a, e>> \in list

LEMMA DropLine ==
    ASSUME NEW S, NEW list, NEW R, Line(S, list)
    PROVE  Line(S \ R, Drop(list, R))
  BY DEF Line, Drop

LEMMA AtEndLine ==
    ASSUME NEW S, NEW T, NEW list, NEW k, Line(S, list), T \ {k} = S \ {k}, k \in T
    PROVE  Line(T, AtEnd(list, S, k))
  <1>1. Line(S \ {k}, Drop(list, {k}))
    BY DropLine
  <1> QED
    BY <1>1 DEF Line, AtEnd

LEMMA SweptLine ==
    ASSUME Line(Entries, before)
    PROVE  Line(SweptEntries, SweptBefore)
  <1>1. Line(Entries \ (Swept \cup Freed), Drop(before, Swept \cup Freed))
    BY DropLine
  <1>2. /\ SweptEntries = (Entries \ (Swept \cup Freed)) \cup Freed
        /\ Entries \ (Swept \cup Freed) = SweptEntries \ Freed
        /\ Freed \subseteq Entries
    BY DEF SweptEntries, Freed
  <1> QED
    BY <1>1, <1>2 DEF Line, SweptBefore

LEMMA LinePrime ==
    ASSUME NEW S, NEW list, Line(S, list), Entries' = S, before' = list
    PROVE  Line(Entries, before)'
  BY DEF Line

LEMMA BorrowLine ==
    ASSUME IInv, Line(Entries, before), NEW c \in Cursors, Borrow(c)
    PROVE  Line(Entries, before)'
  <1>1. Line(SweptEntries, SweptBefore)
    BY SweptLine
  <1>2. CASE BorrowFull(c)
    <2>1. Entries' = SweptEntries /\ before' = SweptBefore
      BY <1>2, SweepLemma DEF BorrowFull, Entries
    <2> QED
      BY <1>1, <2>1, LinePrime
  <1>3. ASSUME NEW d \in Dbs, BorrowReuse(c, d) PROVE Line(Entries, before)'
    <2>1. PICK k \in Reusable(d) :
             /\ slot' = [SweptSlot EXCEPT ![k] = "used"]
             /\ before' = AtEnd(SweptBefore, SweptEntries, k)
      BY <1>3 DEF BorrowReuse
    <2>2. k \in SweptEntries /\ Entries' = SweptEntries
      BY <2>1, SweepLemma DEF Entries, Reusable, Oldest, Candidates
    <2>3. Line(SweptEntries, AtEnd(SweptBefore, SweptEntries, k))
      BY <1>1, <2>2, AtEndLine
    <2> QED
      BY <2>1, <2>2, <2>3, LinePrime
  <1>4. ASSUME NEW d \in Dbs, BorrowNew(c, d) PROVE Line(Entries, before)'
    <2>1. PICK v \in Victims, k \in Cnx :
             /\ slot' = [x \in Cnx |-> IF x = k THEN "used"
                                       ELSE IF x = v THEN "none" ELSE SweptSlot[x]]
             /\ before' = AtEnd(Drop(SweptBefore, {v}), SweptEntries \ {v}, k)
      BY <1>4 DEF BorrowNew
    <2>2. Entries' = (SweptEntries \ {v}) \cup {k}
      BY <2>1, SweepLemma DEF Entries
    <2>3. Line(SweptEntries \ {v}, Drop(SweptBefore, {v}))
      BY <1>1, DropLine
    <2>4. Line((SweptEntries \ {v}) \cup {k},
               AtEnd(Drop(SweptBefore, {v}), SweptEntries \ {v}, k))
      BY <2>3, AtEndLine
    <2> QED
      BY <2>1, <2>2, <2>4, LinePrime
  <1>5. ASSUME NEW d \in Dbs, BorrowConnectFails(c, d) PROVE Line(Entries, before)'
    <2>1. PICK v \in Victims :
             /\ slot' = [x \in Cnx |-> IF x = v THEN "none" ELSE SweptSlot[x]]
             /\ before' = Drop(SweptBefore, {v})
      BY <1>5 DEF BorrowConnectFails
    <2>2. Entries' = SweptEntries \ {v}
      BY <2>1, SweepLemma DEF Entries
    <2>3. Line(SweptEntries \ {v}, Drop(SweptBefore, {v}))
      BY <1>1, DropLine
    <2> QED
      BY <2>1, <2>2, <2>3, LinePrime
  <1> QED
    BY <1>2, <1>3, <1>4, <1>5 DEF Borrow

LEMMA GiveBackLine ==
    ASSUME IInv, Line(Entries, before), NEW c \in Cursors, GiveBack(c)
    PROVE  Line(Entries, before)'
  <1> DEFINE k == held[c]
  <1>1. k \in Cnx
    BY DEF GiveBack, IInv, TypeOK
  <1>2. CASE slot[k] = "none"
    BY <1>2 DEF GiveBack, Line, Entries
  <1>3. CASE slot[k] # "none" /\ db[c] \in Templates
    <2>1. Entries' = Entries \ {k} /\ before' = Drop(before, {k})
      BY <1>1, <1>3 DEF GiveBack, Entries, IInv, TypeOK
    <2>2. Line(Entries \ {k}, Drop(before, {k}))
      BY DropLine
    <2> QED
      BY <2>1, <2>2, LinePrime
  <1>4. CASE slot[k] # "none" /\ db[c] \notin Templates
    <2>1. Entries' = Entries /\ before' = AtEnd(before, Entries, k) /\ k \in Entries
      <3>1. /\ slot' = [slot EXCEPT ![k] = "idle"]
            /\ before' = AtEnd(before, Entries, k)
        BY <1>4 DEF GiveBack
      <3> HIDE DEF k
      <3> QED
        BY <1>1, <1>4, <3>1 DEF Entries, IInv, TypeOK
    <2>2. Line(Entries, AtEnd(before, Entries, k))
      BY <2>1, AtEndLine
    <2> QED
      BY <2>1, <2>2, LinePrime
  <1> QED
    BY <1>2, <1>3, <1>4

LEMMA CloseAllLine ==
    ASSUME Line(Entries, before), NEW D, CloseAll(D)
    PROVE  Line(Entries, before)'
  <1> DEFINE K == {k \in Entries : dsn[k] \in D}
  <1>1. Entries' = Entries \ K /\ before' = Drop(before, K)
    BY DEF CloseAll, Entries
  <1>2. Line(Entries \ K, Drop(before, K))
    BY DropLine
  <1> QED
    BY <1>1, <1>2, LinePrime

LEMMA NextLine ==
    IInv /\ Line(Entries, before) /\ [Next]_vars => Line(Entries, before)'
  <1> SUFFICES ASSUME IInv, Line(Entries, before), [Next]_vars
               PROVE  Line(Entries, before)'
    OBVIOUS
  <1>1. ASSUME UNCHANGED <<slot, before>> PROVE Line(Entries, before)'
    <2>1. Entries' = Entries /\ before' = before
      BY <1>1 DEF Entries
    <2> QED
      BY <2>1 DEF Line
  <1>2. ASSUME NEW c \in Cursors,
               \/ CursorInit(c) \/ Execute(c) \/ EndTransaction(c) \/ CloseCursor(c)
               \/ ExitCommitFails(c) \/ Leak(c)
        PROVE  UNCHANGED <<slot, before>>
    BY <1>2 DEF CursorInit, Execute, EndTransaction, CloseCursor, ExitCommitFails, Leak
  <1>3. ASSUME NEW k \in Cnx, BackendDies(k) PROVE UNCHANGED <<slot, before>>
    BY <1>3 DEF BackendDies
  <1> QED
    BY <1>1, <1>2, <1>3, BorrowLine, GiveBackLine, CloseAllLine DEF Next, vars

(* The pool's list has one order, whatever was popped and appended.        *)
THEOREM ListIsALine == Spec => []EntriesInLine
  <1>1. Init => Line(Entries, before)
    BY DEF Init, Line, Entries
  <1>2. Line(Entries, before) <=> EntriesInLine
    BY DEF Line, EntriesInLine
  <1> QED
    BY <1>1, <1>2, NextLine, Invariance, PTL DEF Spec

-----------------------------------------------------------------------------
(* The pool gives leases: each of its steps is one of Leases, or none.     *)

Open == {k \in Cnx : conn[k] # "closed"}

LEMMA LeasedIsReferenced == Pool!Leased = Referenced \ {None}
  BY DEF Pool!Leased, Referenced

(* The instance of Leases counts with the same operator.                   *)
LEMMA SameCount == \A S : Pool!Cardinality(S) = Cardinality(S)
  BY DEF Pool!Cardinality, Cardinality

LEMMA InitLeases == Init => Pool!LeasesInit
  BY DEF Init, Pool!LeasesInit

(* What is in somebody's hands stays open if all that is closed is not.    *)
LEMMA LeasesSpared ==
    ASSUME NEW S, S \cap Referenced \subseteq {None},
           \A k \in Cnx : conn'[k] = "closed" => conn[k] = "closed" \/ k \in S
    PROVE  Pool!SparesLeases
  BY LeasedIsReferenced DEF Pool!SparesLeases

LEMMA BoundedOpen ==
    ASSUME IInv' PROVE Cardinality(Open') <= MaxConn
  <1>1. Open' \subseteq Entries'
    BY DEF Open, Entries, IInv, OpenBound
  <1> QED
    BY <1>1, FewerEntries DEF IInv, OpenBound

LEMMA ReuseTakes ==
    ASSUME IInv, Line(Entries, before), IInv',
           NEW c \in Cursors, NEW d \in Dbs, BorrowReuse(c, d)
    PROVE  Pool!Take(c, d)
  <1>1. PICK k \in Reusable(d) :
           /\ conn' = Close(TriedBefore(k, d))
           /\ held' = [held EXCEPT ![c] = k]
    BY DEF BorrowReuse
  <1>2. k \in Cnx /\ SweptSlot[k] = "idle" /\ dsn[k] = d /\ conn[k] = "open"
    BY DEF Reusable, Oldest, Candidates
  <1>3. k \in SweptEntries /\ k \notin Referenced
    BY <1>2, SweepLemma
  <1>4. k \notin TriedBefore(k, d)
    BY <1>3, SweptLine DEF Line, TriedBefore
  <1>5. k \in Cnx \ Pool!Leased
    BY <1>2, <1>3, LeasedIsReferenced
  <1>6. k \in Open' /\ Open' \subseteq Open \cup {k}
    BY <1>1, <1>2, <1>4 DEF Open, Close
  <1>7. TriedBefore(k, d) \cap Referenced \subseteq {None}
    BY SweepLemma DEF TriedBefore, Candidates
  <1>8. Pool!SparesLeases
    BY <1>1, <1>7, LeasesSpared DEF Close
  <1>9. dsn' = [dsn EXCEPT ![k] = d]
    BY <1>2 DEF BorrowReuse, IInv, TypeOK
  <1>10. held[c] = None /\ db' = [db EXCEPT ![c] = d]
    BY DEF BorrowReuse, IInv, TypeOK
  <1>11. \E m \in Cnx \ Pool!Leased :
           /\ held' = [held EXCEPT ![c] = m]
           /\ db' = [db EXCEPT ![c] = d]
           /\ dsn' = [dsn EXCEPT ![m] = d]
           /\ m \in Open' /\ Open' \subseteq Open \cup {m}
    BY <1>1, <1>5, <1>6, <1>9, <1>10
  <1> QED
    BY <1>8, <1>10, <1>11, BoundedOpen, SameCount DEF Pool!Take, Open

LEMMA NewTakes ==
    ASSUME IInv, IInv', NEW c \in Cursors, NEW d \in Dbs, BorrowNew(c, d)
    PROVE  Pool!Take(c, d)
  <1>1. PICK v \in Victims, k \in Cnx \ Referenced :
           /\ conn' = [Close(Candidates(d) \cup {v}) EXCEPT ![k] = "open"]
           /\ dsn' = [dsn EXCEPT ![k] = d]
           /\ held' = [held EXCEPT ![c] = k]
    BY DEF BorrowNew
  <1>2. v = None \/ v \notin Referenced
    BY VictimLemma
  <1>3. k \in Cnx \ Pool!Leased
    BY <1>1, LeasedIsReferenced
  <1>4. k \in Open' /\ Open' \subseteq Open \cup {k}
    BY <1>1 DEF Open, Close
  <1>5. (Candidates(d) \cup {v}) \cap Referenced \subseteq {None}
    BY <1>2, SweepLemma DEF Candidates
  <1>6. Pool!SparesLeases
    BY <1>1, <1>5, LeasesSpared DEF Close
  <1>7. held[c] = None /\ db' = [db EXCEPT ![c] = d]
    BY DEF BorrowNew, IInv, TypeOK
  <1>8. \E m \in Cnx \ Pool!Leased :
           /\ held' = [held EXCEPT ![c] = m]
           /\ db' = [db EXCEPT ![c] = d]
           /\ dsn' = [dsn EXCEPT ![m] = d]
           /\ m \in Open' /\ Open' \subseteq Open \cup {m}
    BY <1>1, <1>3, <1>4, <1>7
  <1> QED
    BY <1>6, <1>7, <1>8, BoundedOpen, SameCount DEF Pool!Take, Open

LEMMA FailureTrims ==
    ASSUME IInv, NEW c \in Cursors,
           BorrowFull(c) \/ \E d \in Dbs : BorrowConnectFails(c, d)
    PROVE  Pool!Trim
  <1>1. CASE BorrowFull(c)
    BY <1>1 DEF BorrowFull, Pool!Trim, Pool!SparesLeases
  <1>2. ASSUME NEW d \in Dbs, BorrowConnectFails(c, d) PROVE Pool!Trim
    <2>1. PICK v \in Victims : conn' = Close(Candidates(d) \cup {v})
      BY <1>2 DEF BorrowConnectFails
    <2>2. v = None \/ v \notin Referenced
      BY VictimLemma
    <2>3. (Candidates(d) \cup {v}) \cap Referenced \subseteq {None}
      BY <2>2, SweepLemma DEF Candidates
    <2>4. Pool!SparesLeases
      BY <2>1, <2>3, LeasesSpared DEF Close
    <2>5. Open' \subseteq Open
      BY <2>1 DEF Open, Close
    <2> QED
      BY <1>2, <2>4, <2>5 DEF BorrowConnectFails, Pool!Trim, Open
  <1> QED
    BY <1>1, <1>2

(* Closing a cursor's own connection, and no other.                        *)
LEMMA OwnClosed ==
    ASSUME NEW k, conn' = Close({k})
    PROVE  Open' = Open \ {k}
  BY DEF Open, Close

LEMMA EndGives ==
    ASSUME IInv, NEW c \in Cursors, CloseCursor(c) \/ GiveBack(c) \/ Leak(c), Gone(c)
    PROVE  Pool!Give(c)
  <1>1. held[c] # None
    BY DEF CloseCursor, GiveBack, Leak, IInv, TypeOK
  <1>2. conn' = conn \/ conn' = Close({held[c]})
    <2>1. CASE CloseCursor(c)
      BY <2>1, <1>1 DEF CloseCursor, Gone, IInv, TypeOK
    <2>2. CASE GiveBack(c)
      BY <2>2 DEF GiveBack
    <2>3. CASE Leak(c)
      BY <2>3 DEF Leak
    <2> QED
      BY <2>1, <2>2, <2>3
  <1>3. Open' \in {Open, Open \ {held[c]}}
    BY <1>2, OwnClosed DEF Open
  <1>4. UNCHANGED dsn
    BY DEF CloseCursor, GiveBack, Leak
  <1> QED
    BY <1>1, <1>3, <1>4 DEF Gone, Pool!Give, Open

LEMMA CursorLeases ==
    ASSUME IInv, NEW c \in Cursors,
           \/ CursorInit(c) \/ Execute(c) \/ EndTransaction(c) \/ CloseCursor(c)
           \/ GiveBack(c) \/ ExitCommitFails(c) \/ Leak(c)
    PROVE  Pool!Give(c) \/ Pool!Break(c) \/ UNCHANGED Pool!leaseVars
  <1>1. CASE CursorInit(c)
    <2>1. held[c] # None /\ Open' = Open
      BY <1>1 DEF CursorInit, IInv, TypeOK, Open
    <2> QED
      BY <1>1, <2>1 DEF CursorInit, Gone, Pool!Give, Pool!leaseVars, Open
  <1>2. CASE Execute(c) \/ ExitCommitFails(c)
    <2>1. held[c] # None /\ UNCHANGED <<dsn, held, db>>
      BY <1>2 DEF Execute, ExitCommitFails, IInv, TypeOK
    <2>2. conn' = conn \/ conn' = Close({held[c]})
      BY <1>2 DEF Execute, ExitCommitFails
    <2>3. Open' = Open \/ Open' = Open \ {held[c]}
      BY <2>2, OwnClosed DEF Open
    <2> QED
      BY <2>1, <2>3 DEF Pool!Break, Pool!leaseVars, Open
  <1>3. CASE EndTransaction(c)
    BY <1>3 DEF EndTransaction, Pool!leaseVars
  <1>4. CASE CloseCursor(c) /\ ~RollbackFails(c)
    BY <1>4 DEF CloseCursor, Pool!leaseVars
  <1>5. CASE (CloseCursor(c) /\ RollbackFails(c)) \/ GiveBack(c) \/ Leak(c)
    <2>1. Gone(c)
      BY <1>5 DEF CloseCursor, GiveBack, Leak
    <2> QED
      BY <1>5, <2>1, EndGives
  <1> QED
    BY <1>1, <1>2, <1>3, <1>4, <1>5

(* close_db and close_all close what is open and goes to the databases     *)
(* named: OpenBound says that nothing open is missing in the list.         *)
LEMMA CloseAllCloses ==
    ASSUME IInv, NEW D, CloseAll(D)
    PROVE  Pool!CloseDbs(D)
  <1>1. Open' = {k \in Open : dsn[k] \notin D}
    BY DEF CloseAll, Close, Open, Entries, IInv, OpenBound
  <1> QED
    BY <1>1 DEF CloseAll, Pool!CloseDbs, Open

LEMMA NextLeases ==
    ASSUME IInv, Line(Entries, before), IInv', [Next]_vars
    PROVE  [Pool!LeasesNext]_Pool!leaseVars
  <1>1. ASSUME NEW c \in Cursors, Borrow(c) PROVE Pool!LeasesNext
    BY <1>1, ReuseTakes, NewTakes, FailureTrims DEF Borrow, Pool!LeasesNext
  <1>2. ASSUME NEW c \in Cursors,
               \/ CursorInit(c) \/ Execute(c) \/ EndTransaction(c) \/ CloseCursor(c)
               \/ GiveBack(c) \/ ExitCommitFails(c) \/ Leak(c)
        PROVE  [Pool!LeasesNext]_Pool!leaseVars
    BY <1>2, CursorLeases DEF Pool!LeasesNext
  <1>3. ASSUME NEW D \in SUBSET Dbs, CloseAll(D) PROVE Pool!LeasesNext
    BY <1>3, CloseAllCloses DEF Pool!LeasesNext
  <1>4. ASSUME NEW k \in Cnx, BackendDies(k) PROVE UNCHANGED Pool!leaseVars
    <2>1. Open' = Open
      BY <1>4 DEF BackendDies, Open, IInv, TypeOK
    <2> QED
      BY <1>4, <2>1 DEF BackendDies, Pool!leaseVars, Open
  <1>5. CASE UNCHANGED vars
    BY <1>5 DEF vars, Pool!leaseVars
  <1>6. \A d \in Dbs : {d} \in SUBSET Dbs
    OBVIOUS
  <1> QED
    BY <1>1, <1>2, <1>3, <1>4, <1>5, <1>6 DEF Next

(***************************************************************************)
(* The pool (borrow, give_back, close_all, and the cursors that call them) *)
(* implements Leases, for any number of connections, cursors, databases    *)
(* and any limit.                                                          *)
(***************************************************************************)
THEOREM PoolGivesLeases == Spec => GivesLeases
  <1>1. EntriesInLine => Line(Entries, before)
    BY DEF Line, EntriesInLine
  <1>2. IInv /\ EntriesInLine /\ IInv' /\ [Next]_vars => [Pool!LeasesNext]_Pool!leaseVars
    BY <1>1, NextLeases
  <1> QED
    BY <1>2, InitLeases, Invariance, ListIsALine, PTL DEF Spec, GivesLeases, Pool!LeasesSpec
=============================================================================
