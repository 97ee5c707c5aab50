---------------------------- MODULE ServicesProofs ----------------------------
(***************************************************************************)
(* The bus, for any pollers, notifications and failures, and the sequences *)
(* of numbers, for any transactions, rows and draws.                       *)
(*                                                                         *)
(* The bus: a client goes on from an id it was given, so all it can pass   *)
(* over is committed later (LastGiven) or was too old for its first        *)
(* answer; a poll that has read the table is  *)
(* heard of by the NOTIFY of whatever is committed since, once registered  *)
(* (Registered), or is one of those that the model names (missed).         *)
(*                                                                         *)
(* Numbers: only one transaction writes a row at a time (OneWriter), from  *)
(* what the row still is (Current), and what it has drawn continues the    *)
(* row's numbers (DrawnInLine).  A standard sequence is ahead of every     *)
(* number drawn (BelowNextval), and drawn numbers are apart (DrawnApart).  *)
(***************************************************************************)
EXTENDS MCServices, FilestoreProofs, WellFoundedInduction, TLAPS

-----------------------------------------------------------------------------
(* BusDispatch *)

LastGiven == \A p \in Pollers : poller[p].last = 0 \/ poller[p].last \in InTable

Registered ==
    /\ \A p \in channel : poller[p].pc = "wait"
    /\ \A p \in Pollers : poller[p].pc = "wait" /\ ~poller[p].set => p \in channel
    /\ notifies => listener = "listening"

(* WaitersWoken, for each notification and from the moment the table is    *)
(* read.                                                                   *)
ReadersWoken ==
    \A p \in Pollers :
        poller[p].pc # "read" /\ ~poller[p].set =>
            \A i \in News(p) : bus[i] = "notified" => p \in missed \/ notifies

BusInv == BusTypeOK /\ LastGiven /\ Registered /\ ReadersWoken /\ NothingPassedOver

-----------------------------------------------------------------------------
(* NumberSequence *)

NoGap == sequence.implementation = "no_gap"

RequestType ==
    [pc : {"idle", "begun", "read"}, snapshot : [Rows -> Nat], written : SUBSET Rows,
     stale : SUBSET Rows, row : Rows \cup {NoRow}, number : Nat, drawn : Seq(Rows \X Nat)]

SeqTyped ==
    /\ sequence \in [implementation : {"standard", "no_gap"}, useDateRange : BOOLEAN]
    /\ numberNext \in [Rows -> Nat]
    /\ nextval \in [Rows -> Nat]
    /\ request \in [Requests -> RequestType]
    /\ issued \in Seq(Rows \X Nat)
    /\ \A t \in Requests : Len(request[t].drawn) <= MaxDraws
    /\ \A t \in Requests : request[t].pc = "idle" => request[t] = NoRequest

OneWriter ==
    \A t, u \in Requests : \A r \in request[t].written \cap request[u].written : t = u

UpToDate(q) ==
    q.pc # "idle" =>
        /\ \A r \in Rows \ (q.stale \cup q.written) : q.snapshot[r] = numberNext[r]
        /\ \A r \in q.stale : numberNext[r] > 0 /\ r \notin q.written
        /\ \A r \in q.written : q.snapshot[r] > 0
        /\ q.snapshot[Main] > 0

Current == numberNext[Main] > 0 /\ \A t \in Requests : UpToDate(request[t])

\* What a transaction has read and not used yet.
ReadIsSnapshot ==
    \A t \in Requests : request[t].pc = "read" =>
        /\ request[t].row \in Rows
        /\ request[t].number = request[t].snapshot[request[t].row]
        /\ request[t].number > 0
        /\ NoGap /\ Len(request[t].drawn) < MaxDraws

\* The first number that a writer of r draws.
FirstFree(r) == IF numberNext[r] = 0 THEN 1 ELSE numberNext[r]

DrawnInLine ==
    \A t \in Requests :
        /\ InOrder(request[t].drawn)
        /\ \A r \in request[t].written :
              /\ FirstFree(r) <= request[t].snapshot[r]
              /\ NumbersOf(request[t].drawn, r) = FirstFree(r) .. request[t].snapshot[r] - 1
        /\ \A r \in Rows \ request[t].written : NumbersOf(request[t].drawn, r) = {}

NoGapInv == NoGap => DrawnInLine /\ NumbersInLine

Entries(s) == {s[i] : i \in DOMAIN s}

\* Rows that PostgreSQL sequences were created for: only their creator, or
\* those who have seen them committed, draw from them.
KnownRow(t, r) == r = Main \/ numberNext[r] > 0 \/ r \in request[t].written

BelowNextval ==
    /\ \A d \in Entries(issued) : d[2] < nextval[d[1]] /\ (d[1] = Main \/ numberNext[d[1]] > 0)
    /\ \A t \in Requests : \A d \in Entries(request[t].drawn) :
          d[2] < nextval[d[1]] /\ KnownRow(t, d[1])
    /\ \A t \in Requests : \A r \in request[t].written : r \in Ranges /\ numberNext[r] = 0

DrawnApart ==
    /\ IsInjective(issued)
    /\ \A t \in Requests : IsInjective(request[t].drawn)
    /\ \A t \in Requests : Entries(request[t].drawn) \cap Entries(issued) = {}
    /\ \A t, u \in Requests : t # u => Entries(request[t].drawn) \cap Entries(request[u].drawn) = {}

StandardInv == ~NoGap => BelowNextval /\ DrawnApart

SeqInv == SeqTyped /\ OneWriter /\ Current /\ ReadIsSnapshot /\ NoGapInv /\ StandardInv

-----------------------------------------------------------------------------
(* A set of ids has a largest one. *)
LEMMA MaxOfIds ==
    ASSUME NEW S \in SUBSET Ids, S # {}
    PROVE  Max(S) \in S /\ \A i \in S : i <= Max(S)
  <1> DEFINE T == {MaxId - i : i \in S}
  <1>1. T \subseteq Nat /\ T # {}
        BY BusAssumption DEF Ids
  <1>2. PICK m \in T : \A n \in T : ~(<<n, m>> \in OpToRel(<, Nat))
        BY <1>1, NatLessThanWellFounded, WFMin
  <1>3. \A n \in T : ~(n < m)
        BY <1>1, <1>2 DEF OpToRel
  <1>4. PICK x \in S : m = MaxId - x
        OBVIOUS
  <1>5. \A i \in S : x >= i
        BY <1>3, <1>4, BusAssumption DEF Ids
  <1>6. Max(S) \in S /\ \A i \in S : Max(S) >= i
        BY <1>5 DEF Max
  <1> QED
      BY <1>6, BusAssumption DEF Ids


(* What the client keeps of an answer. *)
LEMMA AnswerFacts ==
    ASSUME BusTypeOK, NEW p \in Pollers, NEW news \in SUBSET InTable, Answer(p, news)
    PROVE  /\ poller' \in [Pollers -> Poller]
           /\ \A q \in Pollers \ {p} : poller'[q] = poller[q]
           /\ poller'[p].pc = "read" /\ poller'[p].got = poller[p].got \cup news
           /\ news = {} => poller'[p].last = poller[p].last
           /\ news # {} => poller'[p].last \in news
           /\ \A i \in news : i <= poller'[p].last
           /\ missed' = missed \ {p}
           /\ aged' \in [Pollers -> SUBSET Ids]
           /\ \A q \in Pollers \ {p} : aged'[q] = aged[q]
           /\ aged'[p] = IF poller[p].last = 0 /\ news # {}
                           THEN {i \in InTable \cap old : i <= poller'[p].last} ELSE aged[p]
  <1>1. news \subseteq Ids
        BY DEF InTable
  <1>2. news # {} => Max(news) \in news /\ \A i \in news : i <= Max(news)
        BY <1>1, MaxOfIds
  <1> DEFINE last == IF news = {} THEN poller[p].last ELSE Max(news)
             r == [pc |-> "read", set |-> FALSE, got |-> poller[p].got \cup news, last |-> last]
  <1>3. poller[p] \in Poller
        BY DEF BusTypeOK
  <1>4. last \in 0 .. MaxId
    <2>1. CASE news = {}
          BY <2>1, <1>3 DEF Poller
    <2>2. CASE news # {}
      <3>1. Max(news) \in 1 .. MaxId
            BY <1>1, <1>2, <2>2 DEF Ids
      <3> QED
          BY <3>1, <2>2
    <2> QED
        BY <2>1, <2>2
  <1>5. r \in Poller
        BY <1>1, <1>3, <1>4 DEF Poller
  <1>6. poller' = [poller EXCEPT ![p] = r]
        BY DEF Answer
  <1>7. missed' = missed \ {p}
        BY DEF Answer
  <1>8. /\ aged' \in [Pollers -> SUBSET Ids]
        /\ \A q \in Pollers \ {p} : aged'[q] = aged[q]
        /\ aged'[p] = IF poller[p].last = 0 /\ news # {}
                      THEN {i \in InTable \cap old : i <= last} ELSE aged[p]
    <2> DEFINE A == {i \in InTable \cap old : i <= Max(news)}
    <2>1. A \in SUBSET Ids /\ aged \in [Pollers -> SUBSET Ids]
          BY DEF InTable, BusTypeOK
    <2>2. aged' = IF poller[p].last = 0 /\ news # {} THEN [aged EXCEPT ![p] = A] ELSE aged
          BY DEF Answer, Aged
    <2>3. news # {} => A = {i \in InTable \cap old : i <= last}
          OBVIOUS
    <2> HIDE DEF A, last
    <2> QED
        BY <2>1, <2>2, <2>3
  <1> HIDE DEF r
  <1>9. poller' \in [Pollers -> Poller] /\ poller'[p] = r
        BY <1>5, <1>6 DEF BusTypeOK
  <1>10. \A q \in Pollers \ {p} : poller'[q] = poller[q]
        BY <1>6 DEF BusTypeOK
  <1> QED
      BY <1>2, <1>7, <1>8, <1>9, <1>10 DEF r

LEMMA CreateNotificationBusInv == ASSUME BusInv, NEW i \in Ids, CreateNotification(i)
PROVE BusInv'
  <1> USE BusAssumption DEF BusInv, CreateNotification
  <1>1. BusTypeOK'
        BY DEF BusTypeOK, Poller
  <1>2. LastGiven'
        BY DEF BusTypeOK, Poller, LastGiven, InTable
  <1>3. Registered'
        BY DEF BusTypeOK, Poller, Registered
  <1>4. ReadersWoken'
        BY DEF BusTypeOK, Poller, ReadersWoken, Registered, News, InTable
  <1>5. NothingPassedOver'
        BY DEF BusTypeOK, Poller, NothingPassedOver, LastGiven, InTable
  <1> QED
      BY <1>1, <1>2, <1>3, <1>4, <1>5

LEMMA RollbackNotificationBusInv == ASSUME BusInv, NEW i \in Ids, RollbackNotification(i)
PROVE BusInv'
  <1> USE BusAssumption DEF BusInv, RollbackNotification
  <1>1. BusTypeOK'
        BY DEF BusTypeOK, Poller
  <1>2. LastGiven'
        BY DEF BusTypeOK, Poller, LastGiven, InTable
  <1>3. Registered'
        BY DEF BusTypeOK, Poller, Registered
  <1>4. ReadersWoken'
        BY DEF BusTypeOK, Poller, ReadersWoken, Registered, News, InTable
  <1>5. NothingPassedOver'
        BY DEF BusTypeOK, Poller, NothingPassedOver, LastGiven, InTable
  <1> QED
      BY <1>1, <1>2, <1>3, <1>4, <1>5

LEMMA CommitNotificationBusInv == ASSUME BusInv, NEW i \in Ids, CommitNotification(i)
PROVE BusInv'
  <1> USE BusAssumption DEF BusInv, CommitNotification
  <1>1. BusTypeOK'
        BY DEF BusTypeOK, Poller
  <1>2. LastGiven'
        BY DEF BusTypeOK, Poller, LastGiven, InTable
  <1>3. Registered'
        BY DEF BusTypeOK, Poller, Registered
  <1>4. ReadersWoken'
        BY DEF BusTypeOK, Poller, ReadersWoken, Registered, News, InTable
  <1>5. NothingPassedOver'
    <2> SUFFICES ASSUME NEW p \in Pollers, NEW j \in InTable', j <= poller[p].last
                 PROVE  j \in poller[p].got \cup late'[p] \cup aged[p]
        BY DEF NothingPassedOver
    <2>1. poller[p].last \in Nat /\ poller[p].last # i /\ i \in Nat
          BY DEF BusTypeOK, Poller, LastGiven, InTable, Ids
    <2>2. late[p] \subseteq late'[p] /\ (poller[p].last > i => i \in late'[p])
          BY DEF BusTypeOK
    <2>3. CASE j = i
          BY <2>1, <2>2, <2>3
    <2>4. CASE j # i
      <3>1. j \in InTable
            BY <2>4 DEF BusTypeOK, InTable
      <3> QED
          BY <2>2, <3>1 DEF NothingPassedOver
    <2> QED
        BY <2>3, <2>4
  <1> QED
      BY <1>1, <1>2, <1>3, <1>4, <1>5

(* A client without notifications is given less then, never more.          *)
LEMMA ExpireBusInv == ASSUME BusInv, NEW i \in Ids, Expire(i) PROVE BusInv'
  <1> USE BusAssumption DEF BusInv, Expire
  <1>1. BusTypeOK'
        BY DEF BusTypeOK, Poller
  <1>2. LastGiven'
        BY DEF BusTypeOK, Poller, LastGiven, InTable
  <1>3. Registered'
        BY DEF BusTypeOK, Poller, Registered
  <1>4. ReadersWoken'
    <2>1. \A p \in Pollers : News(p)' \subseteq News(p)
          BY DEF News, InTable
    <2> QED
        BY <2>1 DEF ReadersWoken
  <1>5. NothingPassedOver'
        BY DEF BusTypeOK, Poller, NothingPassedOver, LastGiven, InTable
  <1> QED
      BY <1>1, <1>2, <1>3, <1>4, <1>5

LEMMA NotifyBusInv == ASSUME BusInv, NEW i \in Ids, Notify(i) PROVE BusInv'
  <1> USE BusAssumption DEF BusInv, Notify, Heard, NotHearing
  <1>1. BusTypeOK'
        BY DEF BusTypeOK, Poller
  <1>2. LastGiven'
        BY DEF BusTypeOK, Poller, LastGiven, InTable
  <1>3. Registered'
        BY DEF BusTypeOK, Poller, Registered
  <1>4. ReadersWoken'
        BY DEF BusTypeOK, Poller, ReadersWoken, Registered, News, InTable
  <1>5. NothingPassedOver'
        BY DEF BusTypeOK, Poller, NothingPassedOver, LastGiven, InTable
  <1> QED
      BY <1>1, <1>2, <1>3, <1>4, <1>5

LEMMA NotifyFailsBusInv == ASSUME BusInv, NEW i \in Ids, NotifyFails(i) PROVE BusInv'
  <1> USE BusAssumption DEF BusInv, NotifyFails, Fault, NotHearing
  <1>1. BusTypeOK'
        BY DEF BusTypeOK, Poller
  <1>2. LastGiven'
        BY DEF BusTypeOK, Poller, LastGiven, InTable
  <1>3. Registered'
        BY DEF BusTypeOK, Poller, Registered
  <1>4. ReadersWoken'
        BY DEF BusTypeOK, Poller, ReadersWoken, Registered, News, InTable
  <1>5. NothingPassedOver'
        BY DEF BusTypeOK, Poller, NothingPassedOver, LastGiven, InTable
  <1> QED
      BY <1>1, <1>2, <1>3, <1>4, <1>5

LEMMA ListenBusInv == ASSUME BusInv, Listen PROVE BusInv'
  <1> USE BusAssumption DEF BusInv, Listen
  <1>1. BusTypeOK'
        BY DEF BusTypeOK, Poller
  <1>2. LastGiven'
        BY DEF BusTypeOK, Poller, LastGiven, InTable
  <1>3. Registered'
        BY DEF BusTypeOK, Poller, Registered
  <1>4. ReadersWoken'
        BY DEF BusTypeOK, Poller, ReadersWoken, Registered, News, InTable
  <1>5. NothingPassedOver'
        BY DEF BusTypeOK, Poller, NothingPassedOver, LastGiven, InTable
  <1> QED
      BY <1>1, <1>2, <1>3, <1>4, <1>5

LEMMA DispatchBusInv == ASSUME BusInv, Dispatch PROVE BusInv'
  <1> USE BusAssumption DEF BusInv, Dispatch, Deaf
  <1>1. BusTypeOK'
    <2>1. ASSUME NEW p \in Pollers
          PROVE  [poller[p] EXCEPT !.set = TRUE] \in Poller /\ poller[p] \in Poller
          BY DEF BusTypeOK, Poller
    <2>2. poller' \in [Pollers -> Poller]
          BY <2>1
    <2> QED
        BY <2>2 DEF BusTypeOK
  <1>2. LastGiven'
        BY DEF BusTypeOK, Poller, LastGiven, InTable
  <1>3. Registered'
        BY DEF BusTypeOK, Poller, Registered
  <1>4. ReadersWoken'
        BY DEF BusTypeOK, Poller, ReadersWoken, Registered, News, InTable
  <1>5. NothingPassedOver'
        BY DEF BusTypeOK, Poller, NothingPassedOver, LastGiven, InTable
  <1> QED
      BY <1>1, <1>2, <1>3, <1>4, <1>5

LEMMA LoopErrorBusInv == ASSUME BusInv, LoopError PROVE BusInv'
  <1> USE BusAssumption DEF BusInv, LoopError, Fault, NotHearing
  <1>1. BusTypeOK'
    <2>1. missed' \subseteq Pollers
          BY DEF BusTypeOK
    <2>2. busFaults' \in 0 .. MaxFaults
          BY DEF BusTypeOK
    <2> QED
        BY <2>1, <2>2 DEF BusTypeOK
  <1>2. LastGiven'
        BY DEF BusTypeOK, Poller, LastGiven, InTable
  <1>3. Registered'
        BY DEF BusTypeOK, Poller, Registered
  <1>4. ReadersWoken'
        BY DEF BusTypeOK, Poller, ReadersWoken, Registered, News, InTable
  <1>5. NothingPassedOver'
        BY DEF BusTypeOK, Poller, NothingPassedOver, LastGiven, InTable
  <1> QED
      BY <1>1, <1>2, <1>3, <1>4, <1>5

LEMMA RestartBusInv == ASSUME BusInv, Restart PROVE BusInv'
  <1> USE BusAssumption DEF BusInv, Restart
  <1>1. BusTypeOK'
        BY DEF BusTypeOK, Poller
  <1>2. LastGiven'
        BY DEF BusTypeOK, Poller, LastGiven, InTable
  <1>3. Registered'
        BY DEF BusTypeOK, Poller, Registered
  <1>4. ReadersWoken'
        BY DEF BusTypeOK, Poller, ReadersWoken, Registered, News, InTable
  <1>5. NothingPassedOver'
        BY DEF BusTypeOK, Poller, NothingPassedOver, LastGiven, InTable
  <1> QED
      BY <1>1, <1>2, <1>3, <1>4, <1>5

LEMMA RegisterBusInv == ASSUME BusInv, NEW p \in Pollers, Register(p) PROVE BusInv'
  <1> USE BusAssumption DEF BusInv, Register
  <1>1. BusTypeOK'
        BY DEF BusTypeOK, Poller
  <1>2. LastGiven'
        BY DEF BusTypeOK, Poller, LastGiven, InTable
  <1>3. Registered'
        BY DEF BusTypeOK, Poller, Registered
  <1>4. ReadersWoken'
        BY DEF BusTypeOK, Poller, ReadersWoken, Registered, News, InTable
  <1>5. NothingPassedOver'
        BY DEF BusTypeOK, Poller, NothingPassedOver, LastGiven, InTable
  <1> QED
      BY <1>1, <1>2, <1>3, <1>4, <1>5

LEMMA AnswerBusInv ==
    ASSUME BusInv, NEW p \in Pollers, NEW news, news = {} \/ news = News(p),
           Answer(p, news), channel' = channel \ {p}, busFaults' \in 0 .. MaxFaults,
           UNCHANGED <<bus, old, listener, notifies, late>>
    PROVE  BusInv'
  <1> USE BusAssumption DEF BusInv
  <1>1. news \in SUBSET InTable
        BY DEF News
  <1>2. /\ poller' \in [Pollers -> Poller]
        /\ \A q \in Pollers \ {p} : poller'[q] = poller[q]
        /\ poller'[p].pc = "read" /\ poller'[p].got = poller[p].got \cup news
        /\ news = {} => poller'[p].last = poller[p].last
        /\ news # {} => poller'[p].last \in news
        /\ \A i \in news : i <= poller'[p].last
        /\ missed' = missed \ {p}
        /\ aged' \in [Pollers -> SUBSET Ids]
        /\ \A q \in Pollers \ {p} : aged'[q] = aged[q]
        /\ aged'[p] = IF poller[p].last = 0 /\ news # {}
                           THEN {i \in InTable \cap old : i <= poller'[p].last} ELSE aged[p]
        BY <1>1, AnswerFacts
  <1>3. BusTypeOK'
        BY <1>2 DEF BusTypeOK
  <1>4. LastGiven'
        BY <1>1, <1>2 DEF LastGiven, InTable
  <1>5. Registered'
        BY <1>2 DEF Registered, BusTypeOK
  <1>6. ReadersWoken'
        BY <1>2 DEF ReadersWoken, News, InTable
  <1>7. NothingPassedOver'
    <2> SUFFICES ASSUME NEW q \in Pollers, NEW i \in InTable, i <= poller'[q].last
                 PROVE  i \in poller'[q].got \cup late[q] \cup aged'[q]
        BY DEF NothingPassedOver, InTable
    <2>1. CASE q # p
          BY <1>2, <2>1 DEF NothingPassedOver
    <2>2. CASE q = p /\ news = {}
          BY <1>2, <2>2 DEF NothingPassedOver
    <2>3. CASE q = p /\ news = News(p)
      <3>1. i \in Nat /\ poller[p].last \in Nat
            BY DEF InTable, Ids, BusTypeOK, Poller
      <3>2. CASE news = {}
            BY <1>2, <2>3, <3>2 DEF NothingPassedOver
      <3>3. CASE news # {} /\ poller[p].last = 0
        <4>1. i \in news \/ i \in InTable \cap old
              BY <2>3, <3>3 DEF News
        <4> QED
            BY <1>2, <2>3, <3>3, <4>1
      <3>4. CASE news # {} /\ poller[p].last # 0
        <4>1. i <= poller[p].last \/ i \in news
              BY <2>3, <3>1, <3>4 DEF News
        <4> QED
            BY <1>2, <2>3, <3>4, <4>1 DEF NothingPassedOver
      <3> QED
          BY <3>2, <3>3, <3>4
    <2> QED
        BY <2>1, <2>2, <2>3
  <1> QED
      BY <1>3, <1>4, <1>5, <1>6, <1>7

LEMMA ReadBusInv == ASSUME BusInv, NEW p \in Pollers, Read(p) PROVE BusInv'
  <1> USE DEF BusInv, Read
  <1>1. CASE News(p) # {}
    <2>1. channel' = channel \ {p}
          BY DEF Registered
    <2> QED
        BY <1>1, <2>1, AnswerBusInv DEF BusTypeOK
  <1>2. CASE News(p) = {}
    <2>1. poller' = [poller EXCEPT ![p].pc = "register"]
          BY <1>2
    <2>2. BusTypeOK'
          BY <1>2, <2>1 DEF BusTypeOK, Poller
    <2>3. LastGiven' /\ Registered' /\ NothingPassedOver'
          BY <1>2, <2>1
          DEF BusTypeOK, Poller, LastGiven, Registered, NothingPassedOver, InTable
    <2>4. ReadersWoken'
          BY <1>2, <2>1 DEF BusTypeOK, Poller, ReadersWoken, News, InTable
    <2> QED
        BY <2>2, <2>3, <2>4
  <1> QED
      BY <1>1, <1>2

LEMMA WakeBusInv == ASSUME BusInv, NEW p \in Pollers, Wake(p) PROVE BusInv'
  <1> QED
      BY AnswerBusInv DEF BusInv, BusTypeOK, Wake

LEMMA PollLostBusInv == ASSUME BusInv, NEW p \in Pollers, PollLost(p) PROVE BusInv'
  <1>1. busFaults' \in 0 .. MaxFaults
        BY BusAssumption DEF BusInv, BusTypeOK, PollLost, Fault
  <1> QED
      BY <1>1, AnswerBusInv DEF PollLost

LEMMA InitBusInv == BusInit => BusInv
  <1> SUFFICES ASSUME BusInit PROVE BusInv
      OBVIOUS
  <1>1. BusTypeOK
    <2>1. [pc |-> "read", set |-> FALSE, last |-> 0, got |-> {}] \in Poller
          BY BusAssumption DEF Poller
    <2>2. poller \in [Pollers -> Poller]
          BY <2>1 DEF BusInit
    <2>3. busFaults \in 0 .. MaxFaults /\ bus \in [Ids -> {"none"}]
          BY BusAssumption DEF BusInit
    <2> QED
        BY <2>2, <2>3 DEF BusInit, BusTypeOK
  <1>2. InTable = {}
        BY DEF BusInit, InTable
  <1>3. LastGiven /\ Registered /\ ReadersWoken /\ NothingPassedOver
        BY <1>2 DEF BusInit, LastGiven, Registered, ReadersWoken, NothingPassedOver
  <1> QED
      BY <1>1, <1>3 DEF BusInv

LEMMA NextBusInv == BusInv /\ [BusNext]_busVars => BusInv'
  <1> SUFFICES ASSUME BusInv, [BusNext]_busVars PROVE BusInv'
      OBVIOUS
  <1>1. CASE BusNext
        BY <1>1, CreateNotificationBusInv, RollbackNotificationBusInv,
           CommitNotificationBusInv, NotifyBusInv, NotifyFailsBusInv, ExpireBusInv, ListenBusInv,
           DispatchBusInv, LoopErrorBusInv, RestartBusInv, ReadBusInv, RegisterBusInv,
           WakeBusInv, PollLostBusInv
        DEF BusNext
  <1>2. CASE UNCHANGED busVars
        BY <1>2 DEF busVars, BusInv, BusTypeOK, LastGiven, Registered, ReadersWoken, News,
                    InTable, NothingPassedOver
  <1> QED
      BY <1>1, <1>2

(* What a client knows, and who is heard of, in every reachable state. *)
THEOREM BusInvariance == BusSpec => []BusInv
  <1> QED
      BY InitBusInv, NextBusInv, PTL DEF BusSpec

(***************************************************************************)
(* For any number of pollers, notifications and faults: a client (the last *)
(* of poll, bus.py) is never beyond a committed notification it did not    *)
(* get, except one committed after a later one was delivered and one older *)
(* than TIMEOUT when the client got its first.                             *)
(***************************************************************************)
THEOREM NothingIsPassedOver == BusSpec => []NothingPassedOver
  <1>1. BusInv => NothingPassedOver
        BY DEF BusInv
  <1> QED
      BY <1>1, BusInvariance, PTL

(***************************************************************************)
(* A poll that waits for what is there will be woken by a NOTIFY to come   *)
(* or on its way, unless it is one of those that no NOTIFY wakes (poll and *)
(* loop of ImDispatch).                                                    *)
(***************************************************************************)
THEOREM WaitersAreWoken == BusSpec => []WaitersWoken
  <1>1. BusInv => WaitersWoken
    <2> SUFFICES ASSUME BusInv, NEW p \in Pollers, poller[p].pc = "wait", ~poller[p].set,
                        News(p) # {}
                 PROVE  \/ p \in missed
                        \/ \E i \in News(p) : bus[i] = "committed"
                        \/ notifies /\ p \in channel /\ listener = "listening"
        BY DEF WaitersWoken
    <2>1. PICK i \in News(p) : TRUE
          OBVIOUS
    <2>2. bus[i] \in {"committed", "notified"}
          BY DEF News, InTable
    <2>3. bus[i] = "notified" => p \in missed \/ notifies
          BY DEF BusInv, ReadersWoken
    <2>4. p \in channel /\ (notifies => listener = "listening")
          BY DEF BusInv, Registered
    <2> QED
        BY <2>2, <2>3, <2>4
  <1> QED
      BY <1>1, BusInvariance, PTL
-----------------------------------------------------------------------------
(* Sequences of documents *)

LEMMA AppendAt ==
    ASSUME NEW S, NEW s \in Seq(S), NEW d \in S
    PROVE  /\ Append(s, d) \in Seq(S) /\ DOMAIN Append(s, d) = (DOMAIN s) \cup {Len(s) + 1}
           /\ \A i \in DOMAIN s : i <= Len(s) /\ i \in Nat /\ Append(s, d)[i] = s[i]
           /\ Append(s, d)[Len(s) + 1] = d /\ Len(s) + 1 \notin DOMAIN s
  <1> QED
      OBVIOUS

LEMMA ConcatAt ==
    ASSUME NEW S, NEW s \in Seq(S), NEW u \in Seq(S)
    PROVE  /\ s \o u \in Seq(S)
           /\ \A i \in DOMAIN s : i \in DOMAIN (s \o u) /\ (s \o u)[i] = s[i]
           /\ \A i \in DOMAIN u : i + Len(s) \in DOMAIN (s \o u) /\ (s \o u)[i + Len(s)] = u[i]
           /\ \A i \in DOMAIN (s \o u) :
                 /\ i \in Nat
                 /\ (i \in DOMAIN s /\ i <= Len(s)) \/ (i - Len(s) \in DOMAIN u /\ i > Len(s))
  <1> QED
      OBVIOUS

LEMMA NumbersAppend ==
    ASSUME NEW S, NEW s \in Seq(S), NEW d \in S, NEW r
    PROVE  NumbersOf(Append(s, d), r)
              = IF d[1] = r THEN NumbersOf(s, r) \cup {d[2]} ELSE NumbersOf(s, r)
  <1>1. ASSUME NEW n
        PROVE  n \in NumbersOf(Append(s, d), r)
                  <=> n \in NumbersOf(s, r) \/ (d[1] = r /\ n = d[2])
        BY AppendAt DEF NumbersOf
  <1> QED
      BY <1>1

LEMMA NumbersConcat ==
    ASSUME NEW S, NEW s \in Seq(S), NEW u \in Seq(S), NEW r
    PROVE  NumbersOf(s \o u, r) = NumbersOf(s, r) \cup NumbersOf(u, r)
  <1>1. NumbersOf(s, r) \cup NumbersOf(u, r) \subseteq NumbersOf(s \o u, r)
    <2>1. ASSUME NEW i \in DOMAIN s, s[i][1] = r
          PROVE  s[i][2] \in NumbersOf(s \o u, r)
      <3>1. i \in DOMAIN (s \o u) /\ (s \o u)[i] = s[i]
            BY ConcatAt
      <3> QED
          BY <2>1, <3>1 DEF NumbersOf
    <2>2. ASSUME NEW i \in DOMAIN u, u[i][1] = r
          PROVE  u[i][2] \in NumbersOf(s \o u, r)
      <3>1. i + Len(s) \in DOMAIN (s \o u) /\ (s \o u)[i + Len(s)] = u[i]
            BY ConcatAt
      <3> QED
          BY <2>2, <3>1 DEF NumbersOf
    <2> QED
        BY <2>1, <2>2 DEF NumbersOf
  <1>2. ASSUME NEW n \in NumbersOf(s \o u, r)
        PROVE  n \in NumbersOf(s, r) \cup NumbersOf(u, r)
    <2>1. PICK i \in DOMAIN (s \o u) : (s \o u)[i][1] = r /\ n = (s \o u)[i][2]
          BY <1>2 DEF NumbersOf
    <2>2. CASE i \in DOMAIN s
          BY <2>1, <2>2, ConcatAt DEF NumbersOf
    <2>3. CASE i - Len(s) \in DOMAIN u /\ i > Len(s)
      <3>1. (s \o u)[i] = u[i - Len(s)]
            BY <2>3, ConcatAt
      <3> QED
          BY <2>1, <2>3, <3>1 DEF NumbersOf
    <2> QED
        BY <2>2, <2>3, ConcatAt
  <1> QED
      BY <1>1, <1>2

LEMMA OrderAppend ==
    ASSUME NEW S, NEW s \in Seq(S), NEW d \in S, InOrder(s),
           \A n \in NumbersOf(s, d[1]) : n < d[2]
    PROVE  InOrder(Append(s, d))
  <1> SUFFICES ASSUME NEW i \in DOMAIN Append(s, d), NEW j \in DOMAIN Append(s, d), i < j,
                      Append(s, d)[i][1] = Append(s, d)[j][1]
               PROVE  Append(s, d)[i][2] < Append(s, d)[j][2]
      BY DEF InOrder
  <1>1. i \in DOMAIN s
        BY AppendAt
  <1>2. CASE j \in DOMAIN s
        BY <1>1, <1>2, AppendAt DEF InOrder
  <1>3. CASE j = Len(s) + 1
        BY <1>1, <1>3, AppendAt DEF NumbersOf
  <1> QED
      BY <1>2, <1>3, AppendAt

LEMMA OrderConcat ==
    ASSUME NEW S, NEW s \in Seq(S), NEW u \in Seq(S), InOrder(s), InOrder(u),
           \A r : \A m \in NumbersOf(s, r), n \in NumbersOf(u, r) : m < n
    PROVE  InOrder(s \o u)
  <1> SUFFICES ASSUME NEW i \in DOMAIN (s \o u), NEW j \in DOMAIN (s \o u), i < j,
                      (s \o u)[i][1] = (s \o u)[j][1]
               PROVE  (s \o u)[i][2] < (s \o u)[j][2]
      BY DEF InOrder
  <1>1. CASE j \in DOMAIN s /\ j <= Len(s)
    <2>1. i \in DOMAIN s
          BY <1>1, ConcatAt
    <2> QED
        BY <1>1, <2>1, ConcatAt DEF InOrder
  <1>2. CASE j - Len(s) \in DOMAIN u /\ j > Len(s)
    <2>1. (s \o u)[j] = u[j - Len(s)]
          BY <1>2, ConcatAt
    <2>2. CASE i \in DOMAIN s
      <3>1. (s \o u)[i] = s[i]
            BY <2>2, ConcatAt
      <3>2. s[i][2] \in NumbersOf(s, s[i][1])
            BY <2>2 DEF NumbersOf
      <3>3. u[j - Len(s)][2] \in NumbersOf(u, s[i][1])
            BY <1>2, <2>1, <3>1 DEF NumbersOf
      <3> QED
          BY <2>1, <3>1, <3>2, <3>3
    <2>3. CASE i - Len(s) \in DOMAIN u /\ i > Len(s)
      <3>1. (s \o u)[i] = u[i - Len(s)]
            BY <2>3, ConcatAt
      <3> QED
          BY <1>2, <2>1, <2>3, <3>1 DEF InOrder
    <2> QED
        BY <2>2, <2>3, ConcatAt
  <1> QED
      BY <1>1, <1>2, ConcatAt

LEMMA EntriesAppend ==
    ASSUME NEW S, NEW s \in Seq(S), NEW d \in S
    PROVE  /\ Entries(Append(s, d)) = Entries(s) \cup {d}
           /\ IsInjective(s) /\ d \notin Entries(s) => IsInjective(Append(s, d))
  <1> QED
      BY AppendAt DEF Entries, IsInjective

LEMMA EntriesConcat ==
    ASSUME NEW S, NEW s \in Seq(S), NEW u \in Seq(S)
    PROVE  /\ Entries(s \o u) = Entries(s) \cup Entries(u)
           /\ IsInjective(s) /\ IsInjective(u) /\ Entries(s) \cap Entries(u) = {}
                 => IsInjective(s \o u)
  <1>1. ASSUME NEW i \in DOMAIN (s \o u)
        PROVE  \/ i \in DOMAIN s /\ (s \o u)[i] = s[i]
               \/ i - Len(s) \in DOMAIN u /\ (s \o u)[i] = u[i - Len(s)]
    <2>1. CASE i \in DOMAIN s
          BY <2>1, ConcatAt
    <2>2. CASE i - Len(s) \in DOMAIN u /\ i > Len(s)
          BY <2>2, ConcatAt
    <2> QED
        BY <2>1, <2>2, ConcatAt
  <1>2. Entries(s) \cup Entries(u) \subseteq Entries(s \o u)
    <2>1. Entries(s) \subseteq Entries(s \o u)
          BY ConcatAt DEF Entries
    <2>2. ASSUME NEW i \in DOMAIN u
          PROVE  u[i] \in Entries(s \o u)
      <3>1. i + Len(s) \in DOMAIN (s \o u) /\ (s \o u)[i + Len(s)] = u[i]
            BY ConcatAt
      <3> QED
          BY <3>1 DEF Entries
    <2> QED
        BY <2>1, <2>2 DEF Entries
  <1>3. Entries(s \o u) \subseteq Entries(s) \cup Entries(u)
        BY <1>1 DEF Entries
  <1>4. ASSUME IsInjective(s), IsInjective(u), Entries(s) \cap Entries(u) = {},
               NEW i \in DOMAIN (s \o u), NEW j \in DOMAIN (s \o u), (s \o u)[i] = (s \o u)[j]
        PROVE  i = j
    <2> DEFINE In(k) == k \in DOMAIN s /\ (s \o u)[k] = s[k]
               After(k) == k - Len(s) \in DOMAIN u /\ (s \o u)[k] = u[k - Len(s)]
    <2>1. (In(i) \/ After(i)) /\ (In(j) \/ After(j))
          BY <1>1
    <2>2. CASE In(i) /\ In(j)
          BY <1>4, <2>2 DEF IsInjective
    <2>3. CASE After(i) /\ After(j)
      <3>1. i - Len(s) = j - Len(s)
            BY <1>4, <2>3 DEF IsInjective
      <3> QED
          BY <3>1, ConcatAt
    <2>4. CASE In(i) /\ After(j)
          BY <1>4, <2>4 DEF Entries
    <2>5. CASE After(i) /\ In(j)
          BY <1>4, <2>5 DEF Entries
    <2> QED
        BY <2>1, <2>2, <2>3, <2>4, <2>5
  <1> QED
      BY <1>2, <1>3, <1>4 DEF IsInjective
-----------------------------------------------------------------------------
(* Steps of NumberSequence *)

LEMMA NoNumbers == ASSUME NEW r PROVE NumbersOf(<<>>, r) = {}
  <1> QED
      BY DEF NumbersOf

LEMMA NoEntries == Entries(<<>>) = {} /\ IsInjective(<<>>) /\ InOrder(<<>>)
  <1> QED
      BY DEF Entries, IsInjective, InOrder

(* A transaction that has not begun. *)
LEMMA NoRequestFacts ==
    /\ NoRequest \in RequestType /\ NoRequest.pc = "idle" /\ NoRequest.drawn = <<>>
    /\ NoRequest.written = {} /\ NoRequest.stale = {}
  <1> QED
      BY DEF NoRequest, RequestType

LEMMA EntriesTyped ==
    ASSUME SeqTyped
    PROVE  /\ \A d \in Entries(issued) : d[1] \in Rows /\ d[2] \in Nat
           /\ \A t \in Requests : \A d \in Entries(request[t].drawn) : d[1] \in Rows
              /\ d[2] \in Nat
  <1>1. ASSUME NEW s \in Seq(Rows \X Nat), NEW d \in Entries(s)
        PROVE  d[1] \in Rows /\ d[2] \in Nat
    <2>1. d \in Rows \X Nat
          BY DEF Entries
    <2> QED
        BY <2>1
  <1>2. issued \in Seq(Rows \X Nat) /\ \A t \in Requests : request[t].drawn \in Seq(Rows \X Nat)
        BY DEF SeqTyped, RequestType
  <1> QED
      BY <1>1, <1>2

LEMMA BeginInv == ASSUME SeqInv, NEW t \in Requests, Begin(t) PROVE SeqInv'
  <1> USE SequenceAssumption DEF SeqInv
  <1>1. /\ request' \in [Requests -> RequestType]
        /\ \A u \in Requests \ {t} : request'[u] = request[u]
        /\ request'[t].pc = "begun" /\ request'[t].drawn = <<>>
        /\ request'[t].written = {} /\ request'[t].stale = {}
        /\ request'[t].snapshot = numberNext
    <2> DEFINE q == [NoRequest EXCEPT !.pc = "begun", !.snapshot = numberNext]
    <2>1. /\ q \in RequestType
          /\ q.pc = "begun" /\ q.drawn = <<>> /\ q.written = {} /\ q.stale = {}
          /\ q.snapshot = numberNext
          BY NoRequestFacts DEF RequestType, SeqTyped
    <2>2. request' = [request EXCEPT ![t] = q]
          BY DEF Begin
    <2> HIDE DEF q
    <2> QED
        BY <2>1, <2>2 DEF SeqTyped
  <1>2. UNCHANGED <<sequence, numberNext, nextval, issued>>
        BY DEF Begin
  <1>3. SeqTyped'
    <2>1. Len(request'[t].drawn) <= MaxDraws
          BY <1>1
    <2> QED
        BY <1>1, <1>2, <2>1 DEF SeqTyped
  <1>4. OneWriter'
        BY <1>1 DEF OneWriter
  <1>5. Current'
    <2>1. UpToDate(request[t])'
          BY <1>1, <1>2 DEF Current, UpToDate
    <2>2. \A u \in Requests \ {t} : UpToDate(request[u])'
          BY <1>1, <1>2 DEF Current, UpToDate
    <2> QED
        BY <1>2, <2>1, <2>2 DEF Current
  <1>6. ReadIsSnapshot'
        BY <1>1, <1>2 DEF ReadIsSnapshot, NoGap
  <1>7. NoGapInv'
        BY <1>1, <1>2, NoNumbers, NoEntries
        DEF NoGapInv, NoGap, DrawnInLine, NumbersInLine, FirstFree
  <1>8. StandardInv'
        BY <1>1, <1>2, NoEntries DEF StandardInv, NoGap, BelowNextval, DrawnApart, KnownRow
  <1> QED
      BY <1>3, <1>4, <1>5, <1>6, <1>7, <1>8

LEMMA CreateRangeInv == ASSUME SeqInv, NEW t \in Requests, CreateRange(t) PROVE SeqInv'
  <1> USE SequenceAssumption DEF SeqInv
  <1>1. PICK r \in Ranges \ Created :
          /\ request' = [request EXCEPT ![t].snapshot[r] = 1, ![t].written = @ \cup {r}]
          /\ nextval' = [nextval EXCEPT ![r] = IF sequence.implementation = "standard"
                                               THEN 1 ELSE 0]
        BY DEF CreateRange
  <1>2. r \in Rows /\ r # Main /\ numberNext[r] = 0
        /\ \A u \in Requests : r \notin request[u].written
        BY DEF Created, SeqTyped, Rows
  <1>3. /\ request' \in [Requests -> RequestType]
        /\ \A u \in Requests \ {t} : request'[u] = request[u]
        /\ request[t].pc = "begun" /\ request'[t].pc = "begun"
        /\ request'[t].drawn = request[t].drawn
        /\ request'[t].written = request[t].written \cup {r}
        /\ request'[t].stale = request[t].stale
        /\ request'[t].snapshot = [request[t].snapshot EXCEPT ![r] = 1]
    <2> DEFINE q == [request[t] EXCEPT !.snapshot[r] = 1, !.written = @ \cup {r}]
    <2>1. request[t] \in RequestType
          BY DEF SeqTyped
    <2>2. /\ q \in RequestType
          /\ q.pc = request[t].pc /\ q.drawn = request[t].drawn
          /\ q.written = request[t].written \cup {r} /\ q.stale = request[t].stale
          /\ q.snapshot = [request[t].snapshot EXCEPT ![r] = 1]
          BY <1>2, <2>1 DEF RequestType
    <2>3. request' = [request EXCEPT ![t] = q]
          BY <1>1
    <2> HIDE DEF q
    <2> QED
        BY <2>2, <2>3 DEF SeqTyped, CreateRange
  <1>4. UNCHANGED <<sequence, numberNext, issued>>
        BY DEF CreateRange
  <1>5. SeqTyped'
    <2>1. nextval' \in [Rows -> Nat]
          BY <1>1 DEF SeqTyped
    <2> QED
        BY <1>3, <1>4, <2>1 DEF SeqTyped
  <1>6. OneWriter'
        BY <1>2, <1>3 DEF OneWriter
  <1>7. Current'
    <2>1. UpToDate(request[t])
          BY DEF Current
    <2>2. r \notin request[t].stale
          BY <1>2, <1>3, <2>1 DEF UpToDate
    <2>3. request[t].snapshot \in [Rows -> Nat]
          BY DEF SeqTyped, RequestType
    <2>4. UpToDate(request[t])'
      <3>1. \A s \in Rows \ {r} : request'[t].snapshot[s] = request[t].snapshot[s]
            BY <1>3, <2>3
      <3>2. request'[t].snapshot[r] = 1
            BY <1>2, <1>3, <2>3
      <3>3. request'[t].written \subseteq Rows /\ Main \in Rows
            BY <1>3 DEF SeqTyped, RequestType, Rows
      <3> QED
          BY <1>2, <1>3, <1>4, <2>1, <2>2, <3>1, <3>2, <3>3 DEF UpToDate
    <2>5. \A u \in Requests \ {t} : UpToDate(request[u])'
          BY <1>3, <1>4 DEF Current, UpToDate
    <2> QED
        BY <1>4, <2>4, <2>5 DEF Current
  <1>8. ReadIsSnapshot'
    <2>1. \A u \in Requests : request'[u].pc = "read" => u # t
          BY <1>3
    <2> QED
        BY <1>3, <1>4, <2>1 DEF ReadIsSnapshot, NoGap
  <1>9. NoGapInv'
    <2> SUFFICES ASSUME NoGap
                 PROVE  DrawnInLine' /\ NumbersInLine'
        BY <1>4 DEF NoGapInv, NoGap
    <2>1. NumbersOf(request[t].drawn, r) = {}
          BY <1>2 DEF NoGapInv, DrawnInLine
    <2>2. request'[t].snapshot[r] = 1 /\ FirstFree(r) = 1
          BY <1>2, <1>3 DEF FirstFree, SeqTyped, RequestType
    <2>3. \A s \in Rows \ {r} : request'[t].snapshot[s] = request[t].snapshot[s]
          BY <1>3 DEF SeqTyped, RequestType
    <2>4. NumbersOf(request'[t].drawn, r) = FirstFree(r) .. request'[t].snapshot[r] - 1
          BY <1>3, <2>1, <2>2
    <2>5. \A u \in Requests : InOrder(request'[u].drawn)
          BY <1>3 DEF NoGapInv, DrawnInLine
    <2>6. \A s \in request'[t].written :
             /\ FirstFree(s) <= request'[t].snapshot[s]
             /\ NumbersOf(request'[t].drawn, s) = FirstFree(s) .. request'[t].snapshot[s] - 1
      <3>1. DrawnInLine /\ request[t].written \subseteq Rows
            BY DEF NoGapInv, SeqTyped, RequestType
      <3> QED
          BY <1>3, <2>2, <2>3, <2>4, <3>1 DEF DrawnInLine
    <2>7. \A s \in Rows \ request'[t].written : NumbersOf(request'[t].drawn, s) = {}
          BY <1>3 DEF NoGapInv, DrawnInLine
    <2>8. ASSUME NEW u \in Requests
          PROVE  /\ \A s \in request'[u].written :
                      /\ FirstFree(s) <= request'[u].snapshot[s]
                      /\ NumbersOf(request'[u].drawn,
                         s) = FirstFree(s) .. request'[u].snapshot[s] - 1
                 /\ \A s \in Rows \ request'[u].written : NumbersOf(request'[u].drawn, s) = {}
      <3>1. CASE u = t
            BY <2>6, <2>7, <3>1
      <3>2. CASE u # t
        <4>1. DrawnInLine /\ request'[u] = request[u]
              BY <1>3, <3>2 DEF NoGapInv
        <4> QED
            BY <4>1 DEF DrawnInLine
      <3> QED
          BY <3>1, <3>2
    <2>9. DrawnInLine'
          BY <1>4, <2>5, <2>8 DEF DrawnInLine, FirstFree
    <2> QED
        BY <1>4, <2>9 DEF NoGapInv, NumbersInLine
  <1>10. StandardInv'
    <2> SUFFICES ASSUME ~NoGap
                 PROVE  BelowNextval' /\ DrawnApart'
        BY <1>4 DEF StandardInv, NoGap
    <2>1. \A s \in Rows \ {r} : nextval'[s] = nextval[s]
          BY <1>1 DEF SeqTyped
    <2>2. \A u \in Requests : ~KnownRow(u, r)
          BY <1>2 DEF KnownRow
    <2>3. \A d \in Entries(issued) : d[1] \in Rows \ {r}
          BY <1>2, EntriesTyped DEF StandardInv, BelowNextval
    <2>4. \A u \in Requests : \A d \in Entries(request[u].drawn) : d[1] \in Rows \ {r}
          BY <2>2, EntriesTyped DEF StandardInv, BelowNextval
    <2>5. BelowNextval'
          BY <1>2, <1>3, <1>4, <2>1, <2>3, <2>4 DEF StandardInv, BelowNextval, KnownRow
    <2>6. DrawnApart'
          BY <1>3, <1>4 DEF StandardInv, DrawnApart
    <2> QED
        BY <2>5, <2>6
  <1> QED
      BY <1>5, <1>6, <1>7, <1>8, <1>9, <1>10

LEMMA SelectNextvalInv == ASSUME SeqInv, NEW t \in Requests, SelectNextval(t) PROVE SeqInv'
  <1> USE SequenceAssumption DEF SeqInv
  <1>1. PICK r \in CurrentRows(t) :
          /\ nextval' = [nextval EXCEPT ![r] = @ + 1]
          /\ request' = [request EXCEPT ![t].drawn = Append(@, <<r, nextval[r]>>)]
        BY DEF SelectNextval
  <1>2. r \in Rows /\ ~NoGap /\ UNCHANGED <<sequence, numberNext, issued>>
        BY DEF SelectNextval, CurrentRows, InRange, Rows, NoGap
  <1> DEFINE d == <<r, nextval[r]>>
  <1>3. d \in Rows \X Nat /\ d[1] = r /\ d[2] = nextval[r]
        BY <1>2 DEF SeqTyped
  <1> HIDE DEF d
  <1>4. /\ request' \in [Requests -> RequestType]
        /\ \A u \in Requests \ {t} : request'[u] = request[u]
        /\ request[t].pc = "begun" /\ request'[t].pc = "begun"
        /\ request'[t].drawn = Append(request[t].drawn, d)
        /\ request[t].drawn \in Seq(Rows \X Nat)
        /\ request'[t].written = request[t].written
        /\ request'[t].stale = request[t].stale
        /\ request'[t].snapshot = request[t].snapshot
        /\ Len(request'[t].drawn) <= MaxDraws
    <2> DEFINE q == [request[t] EXCEPT !.drawn = Append(@, d)]
    <2>1. request[t] \in RequestType /\ request[t].drawn \in Seq(Rows \X Nat)
          BY DEF SeqTyped, RequestType
    <2>2. /\ Append(request[t].drawn, d) \in Seq(Rows \X Nat)
          /\ Len(Append(request[t].drawn, d)) = Len(request[t].drawn) + 1
          BY <1>3, <2>1
    <2>3. /\ q \in RequestType
          /\ q.pc = request[t].pc /\ q.drawn = Append(request[t].drawn, d)
          /\ q.written = request[t].written /\ q.stale = request[t].stale
          /\ q.snapshot = request[t].snapshot
          BY <2>1, <2>2 DEF RequestType
    <2>4. request' = [request EXCEPT ![t] = q]
          BY <1>1 DEF d
    <2> HIDE DEF q
    <2>5. request[t].pc = "begun" /\ Len(request[t].drawn) + 1 <= MaxDraws
          BY <2>1 DEF SelectNextval
    <2> QED
        BY <2>1, <2>2, <2>3, <2>4, <2>5 DEF SeqTyped
  <1>5. SeqTyped'
    <2>1. nextval' \in [Rows -> Nat]
          BY <1>1, <1>2 DEF SeqTyped
    <2> QED
        BY <1>2, <1>4, <2>1 DEF SeqTyped
  <1>6. OneWriter' /\ ReadIsSnapshot'
        BY <1>2, <1>4 DEF OneWriter, ReadIsSnapshot, NoGap
  <1>7. NoGapInv'
        BY <1>2 DEF NoGapInv, NoGap
  <1>8. Current'
    <2>1. \A u \in Requests : UpToDate(request[u])'
          BY <1>2, <1>4 DEF Current, UpToDate
    <2> QED
        BY <1>2, <2>1 DEF Current
  <1>9. StandardInv'
    <2>1. KnownRow(t, r)
      <3>1. request[t].snapshot[r] # 0 \/ r = Main
            BY DEF CurrentRows, InRange
      <3>2. UpToDate(request[t])
            BY DEF Current
      <3>3. numberNext[r] \in Nat
            BY <1>2 DEF SeqTyped
      <3> QED
          BY <1>2, <1>4, <3>1, <3>2, <3>3 DEF KnownRow, UpToDate
    <2>2. \A s \in Rows : nextval'[s] >= nextval[s]
          BY <1>1, <1>2 DEF SeqTyped
    <2>3. nextval'[r] = d[2] + 1
          BY <1>1, <1>2, <1>3 DEF SeqTyped
    <2>4. Entries(request'[t].drawn) = Entries(request[t].drawn) \cup {d}
          BY <1>3, <1>4, EntriesAppend
    <2>5. \A e \in Entries(issued) : e[1] \in Rows /\ e[2] \in Nat
          BY EntriesTyped
    <2>6. \A u \in Requests : \A e \in Entries(request[u].drawn) : e[1] \in Rows /\ e[2] \in Nat
          BY EntriesTyped
    <2>7. BelowNextval /\ DrawnApart
          BY <1>2 DEF StandardInv
    <2>10. \A s \in Rows : nextval[s] \in Nat /\ nextval'[s] \in Nat
          BY <1>5 DEF SeqTyped
    <2>8. BelowNextval'
      <3>1. \A e \in Entries(issued) : e[2] < nextval'[e[1]]
            BY <2>2, <2>5, <2>7, <2>10 DEF BelowNextval
      <3>2. \A u \in Requests : \A e \in Entries(request[u].drawn) : e[2] < nextval'[e[1]]
            BY <2>2, <2>6, <2>7, <2>10 DEF BelowNextval
      <3>3. d[2] < nextval'[d[1]]
            BY <1>2, <1>3, <2>3 DEF SeqTyped
      <3>4. \A u \in Requests : \A e \in Entries(request'[u].drawn) :
               e[2] < nextval'[e[1]] /\ KnownRow(u, e[1])
            BY <1>3, <1>4, <2>1, <2>4, <2>7, <3>2, <3>3 DEF BelowNextval
      <3> QED
          BY <1>2, <1>4, <2>7, <3>1, <3>4 DEF BelowNextval, KnownRow
    <2>9. DrawnApart'
      <3>1. /\ d \notin Entries(issued)
            /\ \A u \in Requests : d \notin Entries(request[u].drawn)
            BY <1>2, <1>3, <2>7 DEF BelowNextval, SeqTyped
      <3>2. IsInjective(request'[t].drawn)
            BY <1>3, <1>4, <2>7, <3>1, EntriesAppend DEF DrawnApart
      <3>3. \A u \in Requests : IsInjective(request'[u].drawn)
            BY <1>4, <2>7, <3>2 DEF DrawnApart
      <3>4. \A u \in Requests : Entries(request'[u].drawn) \cap Entries(issued) = {}
        <4>1. Entries(request'[t].drawn) \cap Entries(issued) = {}
              BY <2>4, <2>7, <3>1 DEF DrawnApart
        <4> QED
            BY <1>4, <2>7, <4>1 DEF DrawnApart
      <3>5. \A u \in Requests \ {t} :
                Entries(request'[t].drawn) \cap Entries(request'[u].drawn) = {}
            BY <1>4, <2>4, <2>7, <3>1 DEF DrawnApart
      <3>6. \A u, v \in Requests : u # v =>
               Entries(request'[u].drawn) \cap Entries(request'[v].drawn) = {}
        <4> SUFFICES ASSUME NEW u \in Requests, NEW v \in Requests, u # v
                     PROVE  Entries(request'[u].drawn) \cap Entries(request'[v].drawn) = {}
            OBVIOUS
        <4>1. CASE u = t
              BY <3>5, <4>1
        <4>2. CASE v = t
              BY <3>5, <4>2
        <4>3. CASE u # t /\ v # t
          <5>1. request'[u].drawn = request[u].drawn /\ request'[v].drawn = request[v].drawn
                BY <1>4, <4>3
          <5>2. Entries(request[u].drawn) \cap Entries(request[v].drawn) = {}
                BY <2>7 DEF DrawnApart
          <5> QED
              BY <5>1, <5>2
        <4> QED
            BY <4>1, <4>2, <4>3
      <3> QED
          BY <1>2, <2>7, <3>3, <3>4, <3>6 DEF DrawnApart
    <2> QED
        BY <2>8, <2>9 DEF StandardInv
  <1> QED
      BY <1>5, <1>6, <1>7, <1>8, <1>9

LEMMA ReadNumberNextInv == ASSUME SeqInv, NEW t \in Requests, ReadNumberNext(t) PROVE SeqInv'
  <1> USE SequenceAssumption DEF SeqInv
  <1>1. PICK r \in CurrentRows(t) :
          request' = [request EXCEPT ![t].pc = "read", ![t].row = r,
                                     ![t].number = request[t].snapshot[r]]
        BY DEF ReadNumberNext
  <1>2. r \in Rows /\ UNCHANGED <<sequence, numberNext, nextval, issued>>
        BY DEF ReadNumberNext, CurrentRows, InRange, Rows
  <1>3. /\ request' \in [Requests -> RequestType]
        /\ \A u \in Requests \ {t} : request'[u] = request[u]
        /\ request[t].pc = "begun" /\ request'[t].pc = "read"
        /\ request'[t].row = r /\ request'[t].number = request[t].snapshot[r]
        /\ request'[t].drawn = request[t].drawn
        /\ request'[t].written = request[t].written
        /\ request'[t].stale = request[t].stale
        /\ request'[t].snapshot = request[t].snapshot
    <2> DEFINE q == [request[t] EXCEPT !.pc = "read", !.row = r,
                                       !.number = request[t].snapshot[r]]
    <2>1. request[t] \in RequestType
          BY DEF SeqTyped
    <2>2. /\ q \in RequestType
          /\ q.pc = "read" /\ q.row = r /\ q.number = request[t].snapshot[r]
          /\ q.drawn = request[t].drawn
          /\ q.written = request[t].written /\ q.stale = request[t].stale
          /\ q.snapshot = request[t].snapshot
          BY <1>2, <2>1 DEF RequestType
    <2>3. request' = [request EXCEPT ![t] = q]
          BY <1>1
    <2> HIDE DEF q
    <2> QED
        BY <2>2, <2>3 DEF SeqTyped, ReadNumberNext
  <1>4. SeqTyped'
        BY <1>2, <1>3 DEF SeqTyped
  <1>5. OneWriter' /\ Current'
        BY <1>2, <1>3 DEF OneWriter, Current, UpToDate
  <1>6. ReadIsSnapshot'
    <2>1. request[t].snapshot[r] > 0
      <3>1. request[t].snapshot[r] # 0 \/ r = Main
            BY DEF CurrentRows, InRange
      <3>2. UpToDate(request[t])
            BY DEF Current
      <3>3. request[t].snapshot[r] \in Nat
            BY <1>2 DEF SeqTyped, RequestType
      <3> QED
          BY <1>3, <3>1, <3>2, <3>3 DEF UpToDate
    <2>2. NoGap /\ Len(request[t].drawn) < MaxDraws
          BY DEF ReadNumberNext, NoGap
    <2> QED
        BY <1>2, <1>3, <2>1, <2>2 DEF ReadIsSnapshot, NoGap
  <1>7. NoGapInv'
    <2>1. DrawnInLine => DrawnInLine'
      <3>1. ASSUME NEW u \in Requests
            PROVE  /\ request'[u].drawn = request[u].drawn
                   /\ request'[u].written = request[u].written
                   /\ request'[u].snapshot = request[u].snapshot
            BY <1>3
      <3> QED
          BY <1>2, <3>1 DEF DrawnInLine, FirstFree
    <2> QED
        BY <1>2, <2>1 DEF NoGapInv, NoGap, NumbersInLine
  <1>8. StandardInv'
        BY <1>2, <1>3 DEF StandardInv, NoGap, BelowNextval, DrawnApart, KnownRow
  <1> QED
      BY <1>4, <1>5, <1>6, <1>7, <1>8

LEMMA UpdateNumberNextInv ==
    ASSUME SeqInv, NEW t \in Requests, UpdateNumberNext(t) PROVE SeqInv'
  <1> USE SequenceAssumption DEF SeqInv
  <1> DEFINE r == request[t].row
             d == <<r, request[t].number>>
  <1>1. /\ request[t].pc = "read" /\ ~LockedByOther(t, r) /\ r \notin request[t].stale
        /\ request' = Drawn(t) /\ UNCHANGED <<sequence, numberNext, nextval, issued>>
        BY DEF UpdateNumberNext
  <1>2. /\ r \in Rows /\ request[t].number = request[t].snapshot[r] /\ request[t].number > 0
        /\ request[t].snapshot[r] \in Nat
        BY <1>1 DEF ReadIsSnapshot, SeqTyped, RequestType
  <1>3. d \in Rows \X Nat /\ d[1] = r /\ d[2] = request[t].snapshot[r]
        BY <1>2
  <1>4. NoGap /\ Len(request[t].drawn) < MaxDraws
        BY <1>1 DEF ReadIsSnapshot
  <1>5. UpToDate(request[t]) /\ request[t] \in RequestType
        BY DEF Current, SeqTyped
  <1>6. /\ request' \in [Requests -> RequestType]
        /\ \A u \in Requests \ {t} : request'[u] = request[u]
        /\ request'[t].pc = "begun"
        /\ request'[t].drawn = Append(request[t].drawn, d)
        /\ request[t].drawn \in Seq(Rows \X Nat)
        /\ Len(request'[t].drawn) <= MaxDraws
        /\ request'[t].written = request[t].written \cup {r}
        /\ request'[t].stale = request[t].stale
        /\ request'[t].snapshot = [request[t].snapshot EXCEPT ![r] = @ + 1]
    <2> DEFINE q == [request[t] EXCEPT !.pc = "begun", !.row = NoRow, !.number = 0,
                        !.snapshot[r] = @ + 1, !.written = @ \cup {r},
                        !.drawn = Append(@, d)]
    <2>1. request[t].drawn \in Seq(Rows \X Nat)
          /\ Append(request[t].drawn, d) \in Seq(Rows \X Nat)
          BY <1>3, <1>5 DEF RequestType
    <2>2. Len(Append(request[t].drawn, d)) <= MaxDraws
          BY <1>4, <2>1
    <2>3. [request[t].snapshot EXCEPT ![r] = @ + 1] \in [Rows -> Nat]
          BY <1>2, <1>5 DEF RequestType
    <2>4. /\ q \in RequestType
          /\ q.pc = "begun" /\ q.drawn = Append(request[t].drawn, d)
          /\ q.written = request[t].written \cup {r} /\ q.stale = request[t].stale
          /\ q.snapshot = [request[t].snapshot EXCEPT ![r] = @ + 1]
          BY <1>2, <1>5, <2>1, <2>3 DEF RequestType
    <2>5. request' = [request EXCEPT ![t] = q]
          BY <1>1 DEF Drawn
    <2> HIDE DEF q
    <2> QED
        BY <2>1, <2>2, <2>4, <2>5 DEF SeqTyped
  <1>7. SeqTyped'
        BY <1>1, <1>6 DEF SeqTyped
  <1> HIDE DEF d
  <1>8. /\ request'[t].snapshot[r] = request[t].snapshot[r] + 1
        /\ \A s \in Rows \ {r} : request'[t].snapshot[s] = request[t].snapshot[s]
        BY <1>2, <1>5, <1>6 DEF RequestType
  <1>9. r \notin request[t].written => request[t].snapshot[r] = numberNext[r]
        BY <1>1, <1>2, <1>5 DEF UpToDate
  <1>10. OneWriter'
    <2> SUFFICES ASSUME NEW u \in Requests, NEW v \in Requests,
                        NEW s \in request'[u].written \cap request'[v].written
                 PROVE  u = v
        BY DEF OneWriter
    <2>1. \A w \in Requests \ {t} : r \notin request[w].written
          BY <1>1 DEF LockedByOther
    <2> QED
        BY <1>6, <2>1 DEF OneWriter
  <1>11. Current'
    <2>1. UpToDate(request[t])'
      <3>1. request[t].written \subseteq Rows /\ Main \in Rows
            BY <1>5 DEF RequestType, Rows
      <3> QED
          BY <1>1, <1>2, <1>5, <1>6, <1>8, <3>1 DEF UpToDate
    <2>2. \A u \in Requests \ {t} : UpToDate(request[u])'
          BY <1>1, <1>6 DEF Current, UpToDate
    <2> QED
        BY <1>1, <2>1, <2>2 DEF Current
  <1>12. ReadIsSnapshot'
    <2>1. \A u \in Requests : request'[u].pc = "read" => u # t
          BY <1>6
    <2> QED
        BY <1>1, <1>6, <2>1 DEF ReadIsSnapshot, NoGap
  <1>13. NoGapInv'
    <2>1. DrawnInLine
          BY <1>4 DEF NoGapInv
    <2>2. /\ NumbersOf(request'[t].drawn, r) = NumbersOf(request[t].drawn, r) \cup {d[2]}
          /\ \A s \in Rows \ {r} : NumbersOf(request'[t].drawn,
             s) = NumbersOf(request[t].drawn, s)
      <3>1. ASSUME NEW s \in Rows
            PROVE  NumbersOf(request'[t].drawn, s)
                      = IF d[1] = s THEN NumbersOf(request[t].drawn, s) \cup {d[2]}
                        ELSE NumbersOf(request[t].drawn, s)
        <4>1. ASSUME NEW docs \in Seq(Rows \X Nat), NEW e \in Rows \X Nat
              PROVE  NumbersOf(Append(docs, e), s)
                        = IF e[1] = s THEN NumbersOf(docs, s) \cup {e[2]} ELSE NumbersOf(docs,
                        s)
              BY NumbersAppend
        <4> DEFINE docs == request[t].drawn
        <4>2. docs \in Seq(Rows \X Nat) /\ request'[t].drawn = Append(docs, d)
              BY <1>6
        <4> HIDE DEF docs
        <4>3. NumbersOf(Append(docs, d), s)
                = IF d[1] = s THEN NumbersOf(docs, s) \cup {d[2]} ELSE NumbersOf(docs, s)
              BY <1>3, <4>1, <4>2
        <4> QED
            BY <4>2, <4>3 DEF docs
      <3> QED
          BY <1>2, <1>3, <3>1
    <2>3. /\ r \in request[t].written =>
                NumbersOf(request[t].drawn, r) = FirstFree(r) .. request[t].snapshot[r] - 1
          /\ r \notin request[t].written =>
                NumbersOf(request[t].drawn, r) = {} /\ FirstFree(r) = request[t].snapshot[r]
      <3>1. CASE r \in request[t].written
            BY <2>1, <3>1 DEF DrawnInLine
      <3>2. CASE r \notin request[t].written
        <4>1. NumbersOf(request[t].drawn, r) = {}
              BY <1>2, <2>1, <3>2 DEF DrawnInLine
        <4> QED
            BY <1>2, <1>9, <3>2, <4>1 DEF FirstFree
      <3> QED
          BY <3>1, <3>2
    <2>4. FirstFree(r) \in Nat
          BY <1>2 DEF FirstFree, SeqTyped
    <2>5. r \in request[t].written => FirstFree(r) <= request[t].snapshot[r]
          BY <2>1 DEF DrawnInLine
    <2>6. /\ FirstFree(r) <= request'[t].snapshot[r]
          /\ NumbersOf(request'[t].drawn, r) = FirstFree(r) .. request'[t].snapshot[r] - 1
          BY <1>2, <1>3, <1>8, <2>2, <2>3, <2>4, <2>5
    <2>7. InOrder(request'[t].drawn)
      <3>1. \A n \in NumbersOf(request[t].drawn, r) : n < d[2]
            BY <1>2, <1>3, <2>3, <2>4
      <3> QED
          BY <1>3, <1>6, <2>1, <3>1, OrderAppend DEF DrawnInLine
    <2>8. ASSUME NEW u \in Requests
          PROVE  /\ InOrder(request'[u].drawn)
                 /\ \A s \in request'[u].written :
                       /\ FirstFree(s) <= request'[u].snapshot[s]
                       /\ NumbersOf(request'[u].drawn,
                          s) = FirstFree(s) .. request'[u].snapshot[s] - 1
                 /\ \A s \in Rows \ request'[u].written : NumbersOf(request'[u].drawn, s) = {}
      <3>1. CASE u = t
        <4>1. request[t].written \subseteq Rows
              BY <1>5 DEF RequestType
        <4>2. \A s \in request'[t].written \ {r} :
                 /\ s \in Rows \ {r} /\ FirstFree(s) <= request'[t].snapshot[s]
                 /\ NumbersOf(request'[t].drawn,
                    s) = FirstFree(s) .. request'[t].snapshot[s] - 1
              BY <1>6, <1>8, <2>1, <2>2, <4>1 DEF DrawnInLine
        <4>3. \A s \in Rows \ request'[t].written : NumbersOf(request'[t].drawn, s) = {}
              BY <1>6, <2>1, <2>2 DEF DrawnInLine
        <4> QED
            BY <2>6, <2>7, <3>1, <4>2, <4>3
      <3>2. CASE u # t
        <4>1. request'[u] = request[u]
              BY <1>6, <3>2
        <4> QED
            BY <2>1, <4>1 DEF DrawnInLine
      <3> QED
          BY <3>1, <3>2
    <2>9. DrawnInLine'
          BY <1>1, <2>8 DEF DrawnInLine, FirstFree
    <2> QED
        BY <1>1, <1>4, <2>9 DEF NoGapInv, NumbersInLine
  <1>14. StandardInv'
        BY <1>1, <1>4 DEF StandardInv, NoGap
  <1> QED
      BY <1>7, <1>10, <1>11, <1>12, <1>13, <1>14

LEMMA CommitRequestInv == ASSUME SeqInv, NEW t \in Requests, CommitRequest(t) PROVE SeqInv'
  <1> USE SequenceAssumption DEF SeqInv
  <1> DEFINE drawn == request[t].drawn
             written == request[t].written
  <1>1. /\ request[t].pc = "begun"
        /\ numberNext' = [r \in Rows |-> IF r \in written THEN request[t].snapshot[r]
                                         ELSE numberNext[r]]
        /\ issued' = issued \o drawn /\ UNCHANGED <<sequence, nextval>>
        BY DEF CommitRequest
  <1>2. UpToDate(request[t]) /\ request[t] \in RequestType /\ drawn \in Seq(Rows \X Nat)
        BY DEF Current, SeqTyped, RequestType
  <1>3. /\ request' \in [Requests -> RequestType]
        /\ request'[t] = NoRequest
        /\ \A u \in Requests \ {t} :
              \/ request[u] = NoRequest /\ request'[u] = NoRequest
              \/ request[u].pc # "idle"
                 /\ request'[u] = [request[u] EXCEPT !.stale = @ \cup written]
    <2>1. \A u \in Requests : request[u].pc = "idle" => request[u] = NoRequest
          BY DEF SeqTyped
    <2>2. \A u \in Requests : [request[u] EXCEPT !.stale = @ \cup written] \in RequestType
          BY <1>2 DEF SeqTyped, RequestType
    <2> QED
        BY <2>1, <2>2, NoRequestFacts DEF CommitRequest, SeqTyped
  <1>4. ASSUME NEW u \in Requests
        PROVE  /\ request'[u].drawn = IF u = t THEN <<>> ELSE request[u].drawn
               /\ request'[u].written = IF u = t THEN {} ELSE request[u].written
               /\ request'[u].stale \subseteq request[u].stale \cup written
               /\ request'[u].pc # "idle" =>
                     /\ u # t /\ request[u].pc # "idle" /\ request'[u].pc = request[u].pc
                     /\ request'[u].snapshot = request[u].snapshot
                     /\ request'[u].stale = request[u].stale \cup written
                     /\ request'[u].row = request[u].row
                     /\ request'[u].number = request[u].number
               /\ request'[u].pc = "idle" => request'[u] = NoRequest
    <2>1. request[u] \in RequestType
          BY DEF SeqTyped
    <2>2. CASE request'[u] = NoRequest /\ (u = t \/ request[u] = NoRequest)
          BY <2>2, NoRequestFacts
    <2>3. CASE /\ u # t /\ request[u].pc # "idle"
               /\ request'[u] = [request[u] EXCEPT !.stale = @ \cup written]
          BY <2>1, <2>3 DEF RequestType
    <2> QED
        BY <1>3, <2>2, <2>3
  <1>5. /\ numberNext' \in [Rows -> Nat]
        /\ \A r \in written : r \in Rows /\ numberNext'[r] = request[t].snapshot[r]
        /\ \A r \in Rows \ written : numberNext'[r] = numberNext[r]
        BY <1>1, <1>2 DEF RequestType, SeqTyped
  <1>6. SeqTyped'
    <2>1. issued' \in Seq(Rows \X Nat)
          BY <1>1, <1>2, ConcatAt DEF SeqTyped
    <2>2. \A u \in Requests : Len(request'[u].drawn) <= MaxDraws
          BY <1>4 DEF SeqTyped
    <2> QED
        BY <1>1, <1>3, <1>4, <1>5, <2>1, <2>2 DEF SeqTyped
  <1>7. OneWriter'
        BY <1>4 DEF OneWriter
  <1>8. Current'
    <2>1. ASSUME NEW u \in Requests
          PROVE  UpToDate(request[u])'
      <3>1. UpToDate(request[u]) /\ \A r \in written : r \in request[u].written => u = t
            BY DEF Current, OneWriter
      <3> SUFFICES ASSUME request'[u].pc # "idle"
                   PROVE  UpToDate(request[u])'
          BY DEF UpToDate
      <3>2. /\ u # t /\ request[u].pc # "idle"
            /\ request'[u].written = request[u].written
            /\ request'[u].snapshot = request[u].snapshot
            /\ request'[u].stale = request[u].stale \cup written
            BY <1>4
      <3>3. \A s \in written : numberNext'[s] > 0 /\ s \notin request[u].written
            BY <1>1, <1>2, <1>5, <3>1, <3>2 DEF UpToDate
      <3>4. \A s \in request[u].stale : numberNext'[s] > 0 /\ s \notin request[u].written
        <4>1. request[u].stale \subseteq Rows
              BY DEF SeqTyped, RequestType
        <4> QED
            BY <1>5, <3>1, <3>2, <3>3, <4>1 DEF UpToDate
      <3>5. \A s \in Rows \ (request'[u].stale \cup request'[u].written) :
               request'[u].snapshot[s] = numberNext'[s]
            BY <1>5, <3>1, <3>2 DEF UpToDate
      <3> QED
          BY <3>1, <3>2, <3>3, <3>4, <3>5 DEF UpToDate
    <2>2. Main \in Rows
          BY DEF Rows
    <2> QED
        BY <1>1, <1>2, <1>5, <2>1, <2>2 DEF Current, UpToDate
  <1>9. ReadIsSnapshot'
        BY <1>1, <1>4 DEF ReadIsSnapshot, NoGap
  <1>10. NoGapInv'
    <2> SUFFICES ASSUME NoGap
                 PROVE  DrawnInLine' /\ NumbersInLine'
        BY <1>1 DEF NoGapInv, NoGap
    <2>1. DrawnInLine
          BY DEF NoGapInv
    <2>2. InOrder(issued) /\ \A r \in Rows : NumbersOf(issued, r) = 1 .. numberNext[r] - 1
          BY DEF NoGapInv, NumbersInLine, NoGap
    <2>3. DrawnInLine'
      <3>1. ASSUME NEW u \in Requests
            PROVE  /\ InOrder(request'[u].drawn)
                   /\ \A r \in request'[u].written :
                         /\ FirstFree(r)' <= request'[u].snapshot[r]
                         /\ NumbersOf(request'[u].drawn, r)
                               = FirstFree(r)' .. request'[u].snapshot[r] - 1
                   /\ \A r \in Rows \ request'[u].written : NumbersOf(request'[u].drawn, r) = {}
        <4>1. CASE u = t
              BY <1>4, <4>1, NoNumbers, NoEntries
        <4>2. CASE u # t /\ request'[u].pc = "idle"
              BY <1>4, <4>2, NoNumbers, NoEntries, NoRequestFacts
        <4>3. CASE u # t /\ request'[u].pc # "idle"
          <5>1. \A r \in request[u].written : r \in Rows /\ numberNext'[r] = numberNext[r]
                BY <1>5, <4>3 DEF OneWriter, SeqTyped, RequestType
          <5> QED
              BY <1>4, <2>1, <4>3, <5>1 DEF DrawnInLine, FirstFree
        <4> QED
            BY <4>1, <4>2, <4>3
      <3> QED
          BY <3>1 DEF DrawnInLine
    <2>4. ASSUME NEW r \in Rows
          PROVE  NumbersOf(issued', r) = 1 .. numberNext'[r] - 1
      <3>1. NumbersOf(issued', r) = NumbersOf(issued, r) \cup NumbersOf(drawn, r)
            BY <1>1, <1>2, NumbersConcat DEF SeqTyped
      <3>2. numberNext[r] \in Nat /\ numberNext'[r] \in Nat
            BY <1>5 DEF SeqTyped
      <3>3. CASE r \in written
        <4>1. /\ FirstFree(r) <= numberNext'[r]
              /\ NumbersOf(drawn, r) = FirstFree(r) .. numberNext'[r] - 1
              BY <1>5, <2>1, <3>3 DEF DrawnInLine
        <4> QED
            BY <2>2, <3>1, <3>2, <4>1 DEF FirstFree
      <3>4. CASE r \notin written
            BY <1>5, <2>1, <2>2, <3>1, <3>4 DEF DrawnInLine
      <3> QED
          BY <3>3, <3>4
    <2>5. InOrder(issued')
      <3>1. ASSUME NEW r, NEW m \in NumbersOf(issued, r), NEW n \in NumbersOf(drawn, r)
            PROVE  m < n
        <4>1. r \in Rows
          <5>1. \A i \in DOMAIN drawn : drawn[i] \in Rows \X Nat
                BY <1>2
          <5> QED
              BY <3>1, <5>1 DEF NumbersOf
        <4>2. r \in written /\ n \in FirstFree(r) .. request[t].snapshot[r] - 1
              BY <2>1, <3>1, <4>1 DEF DrawnInLine
        <4>3. m \in 1 .. numberNext[r] - 1 /\ numberNext[r] \in Nat
              BY <2>2, <3>1, <4>1 DEF SeqTyped
        <4> QED
            BY <4>2, <4>3 DEF FirstFree
      <3>2. InOrder(drawn)
            BY <2>1 DEF DrawnInLine
      <3> QED
          BY <1>1, <1>2, <2>2, <3>1, <3>2, OrderConcat DEF SeqTyped
    <2> QED
        BY <1>1, <2>3, <2>4, <2>5 DEF NumbersInLine, NoGap
  <1>11. StandardInv'
    <2> SUFFICES ASSUME ~NoGap
                 PROVE  BelowNextval' /\ DrawnApart'
        BY <1>1 DEF StandardInv, NoGap
    <2>1. BelowNextval /\ DrawnApart
          BY DEF StandardInv
    <2>2. /\ Entries(issued') = Entries(issued) \cup Entries(drawn)
          /\ IsInjective(issued')
          BY <1>1, <1>2, <2>1, EntriesConcat DEF SeqTyped, DrawnApart
    <2>3. \A u \in Requests : Entries(request'[u].drawn) \subseteq Entries(request[u].drawn)
          BY <1>4, NoEntries
    <2>4. \A r \in Rows : numberNext[r] > 0 => numberNext'[r] > 0
          BY <1>1, <1>2, <1>5 DEF UpToDate
    <2>5. \A r \in written : numberNext'[r] > 0
          BY <1>1, <1>2, <1>5 DEF UpToDate
    <2>6. BelowNextval'
      <3>1. \A e \in Entries(issued) : e[2] < nextval[e[1]] /\ (e[1] = Main
            \/ numberNext'[e[1]] > 0)
            BY <2>1, <2>4, EntriesTyped DEF BelowNextval
      <3>2. \A e \in Entries(drawn) : e[2] < nextval[e[1]] /\ (e[1] = Main
            \/ numberNext'[e[1]] > 0)
            BY <2>1, <2>4, <2>5, EntriesTyped DEF BelowNextval, KnownRow
      <3>3. \A u \in Requests : \A e \in Entries(request'[u].drawn) :
               e[2] < nextval[e[1]] /\ KnownRow(u, e[1])'
        <4>1. ASSUME NEW u \in Requests, NEW e \in Entries(request'[u].drawn)
              PROVE  e[2] < nextval[e[1]] /\ KnownRow(u, e[1])'
          <5>1. u # t /\ e \in Entries(request[u].drawn)
                BY <1>4, <2>3, <4>1, NoEntries
          <5>2. e[2] < nextval[e[1]] /\ KnownRow(u, e[1]) /\ e[1] \in Rows
                BY <2>1, <5>1, EntriesTyped DEF BelowNextval
          <5> QED
              BY <1>4, <2>4, <5>1, <5>2 DEF KnownRow
        <4> QED
            BY <4>1
      <3>4. \A u \in Requests : \A r \in request'[u].written : r \in Ranges
            /\ numberNext'[r] = 0
        <4>1. ASSUME NEW u \in Requests, NEW r \in request'[u].written
              PROVE  r \in Ranges /\ numberNext'[r] = 0
          <5>1. u # t /\ r \in request[u].written
                BY <1>4, <4>1
          <5>2. r \in Ranges /\ numberNext[r] = 0 /\ r \notin written
                BY <2>1, <5>1 DEF BelowNextval, OneWriter
          <5> QED
              BY <1>5, <5>2 DEF Rows
        <4> QED
            BY <4>1
      <3> QED
          BY <1>1, <2>2, <3>1, <3>2, <3>3, <3>4 DEF BelowNextval
    <2>7. DrawnApart'
      <3>1. \A u \in Requests : IsInjective(request'[u].drawn)
            BY <1>4, <2>1, NoEntries DEF DrawnApart
      <3>2. \A u \in Requests : Entries(request'[u].drawn) \cap Entries(issued') = {}
        <4>1. ASSUME NEW u \in Requests
              PROVE  Entries(request'[u].drawn) \cap Entries(issued') = {}
          <5>1. CASE u = t
                BY <1>4, <5>1, NoEntries
          <5>2. CASE u # t
                BY <2>1, <2>2, <2>3, <5>2 DEF DrawnApart
          <5> QED
              BY <5>1, <5>2
        <4> QED
            BY <4>1
      <3>3. \A u, v \in Requests : u # v =>
               Entries(request'[u].drawn) \cap Entries(request'[v].drawn) = {}
            BY <2>1, <2>3 DEF DrawnApart
      <3> QED
          BY <2>2, <3>1, <3>2, <3>3 DEF DrawnApart
    <2> QED
        BY <2>6, <2>7
  <1> QED
      BY <1>6, <1>7, <1>8, <1>9, <1>10, <1>11

LEMMA RollbackRequestInv ==
    ASSUME SeqInv, NEW t \in Requests, RollbackRequest(t) PROVE SeqInv'
  <1> USE SequenceAssumption DEF SeqInv
  <1>1. /\ request' = [request EXCEPT ![t] = NoRequest]
        /\ nextval' = [r \in Rows |-> IF r \in Ranges /\ r \in request[t].written THEN 0
                                      ELSE nextval[r]]
        /\ UNCHANGED <<sequence, numberNext, issued>>
        BY DEF RollbackRequest
  <1>2. /\ request' \in [Requests -> RequestType] /\ request'[t] = NoRequest
        /\ \A u \in Requests \ {t} : request'[u] = request[u]
        BY <1>1, NoRequestFacts DEF SeqTyped
  <1>3. SeqTyped'
    <2>1. nextval' \in [Rows -> Nat]
          BY <1>1 DEF SeqTyped
    <2>2. Len(<<>>) <= MaxDraws /\ request'[t].drawn = <<>>
          BY <1>2, NoRequestFacts
    <2>3. \A u \in Requests : Len(request'[u].drawn) <= MaxDraws
          BY <1>2, <2>2 DEF SeqTyped
    <2> QED
        BY <1>1, <1>2, <2>1, <2>3 DEF SeqTyped
  <1>4. OneWriter'
        BY <1>2, NoRequestFacts DEF OneWriter
  <1>5. Current'
    <2>1. UpToDate(request[t])'
          BY <1>2, NoRequestFacts DEF UpToDate
    <2>2. \A u \in Requests \ {t} : UpToDate(request[u])'
          BY <1>1, <1>2 DEF Current, UpToDate
    <2> QED
        BY <1>1, <2>1, <2>2 DEF Current
  <1>6. ReadIsSnapshot'
    <2>1. \A u \in Requests : request'[u].pc = "read" => u # t
          BY <1>2, NoRequestFacts
    <2> QED
        BY <1>1, <1>2, <2>1 DEF ReadIsSnapshot, NoGap
  <1>7. NoGapInv'
    <2>1. DrawnInLine => DrawnInLine'
          BY <1>1, <1>2, NoRequestFacts, NoNumbers, NoEntries DEF DrawnInLine, FirstFree
    <2> QED
        BY <1>1, <2>1 DEF NoGapInv, NoGap, NumbersInLine
  <1>8. StandardInv'
    <2> SUFFICES ASSUME ~NoGap
                 PROVE  BelowNextval' /\ DrawnApart'
        BY <1>1 DEF StandardInv, NoGap
    <2>1. BelowNextval /\ DrawnApart
          BY DEF StandardInv
    <2>2. \A r \in Rows \ request[t].written : nextval'[r] = nextval[r]
          BY <1>1
    <2>3. \A e \in Entries(issued) : e[1] \notin request[t].written
          BY <2>1 DEF BelowNextval
    <2>4. \A u \in Requests \ {t} : \A e \in Entries(request[u].drawn) :
             e[1] \notin request[t].written
          BY <2>1 DEF BelowNextval, KnownRow, OneWriter
    <2>5. BelowNextval'
      <3>1. \A e \in Entries(issued) : e[2] < nextval'[e[1]] /\ (e[1] = Main
            \/ numberNext[e[1]] > 0)
            BY <2>1, <2>2, <2>3, EntriesTyped DEF BelowNextval
      <3>2. ASSUME NEW u \in Requests, NEW e \in Entries(request'[u].drawn)
            PROVE  e[2] < nextval'[e[1]] /\ KnownRow(u, e[1])'
        <4>1. u # t
              BY <1>2, <3>2, NoRequestFacts, NoEntries
        <4>2. e \in Entries(request[u].drawn) /\ request'[u] = request[u]
              BY <1>2, <3>2, <4>1
        <4>3. e[2] < nextval[e[1]] /\ KnownRow(u, e[1]) /\ e[1] \in Rows
              BY <2>1, <4>2, EntriesTyped DEF BelowNextval
        <4> QED
            BY <1>1, <2>2, <2>4, <4>1, <4>2, <4>3 DEF KnownRow
      <3>3. \A u \in Requests : \A r \in request'[u].written : r \in Ranges /\ numberNext[r] = 0
            BY <1>2, <2>1, NoRequestFacts DEF BelowNextval
      <3> QED
          BY <1>1, <3>1, <3>2, <3>3 DEF BelowNextval
    <2>6. DrawnApart'
      <3>1. \A u \in Requests : /\ Entries(request'[u].drawn) \subseteq Entries(request[u].drawn)
                                /\ IsInjective(request'[u].drawn)
            BY <1>2, <2>1, NoRequestFacts, NoEntries DEF DrawnApart
      <3> QED
          BY <1>1, <2>1, <3>1 DEF DrawnApart
    <2> QED
        BY <2>5, <2>6
  <1> QED
      BY <1>3, <1>4, <1>5, <1>6, <1>7, <1>8

LEMMA InitSeqInv == SequenceInit => SeqInv
  <1> SUFFICES ASSUME SequenceInit PROVE SeqInv
      OBVIOUS
  <1>1. \A t \in Requests : request[t] = NoRequest
        BY DEF SequenceInit
  <1>2. SeqTyped
    <2>1. \A t \in Requests : Len(request[t].drawn) <= MaxDraws
          BY <1>1, NoRequestFacts, SequenceAssumption
    <2>2. issued \in Seq(Rows \X Nat)
          BY DEF SequenceInit
    <2>3. request \in [Requests -> RequestType]
          BY NoRequestFacts DEF SequenceInit
    <2> QED
        BY <1>1, <2>1, <2>2, <2>3 DEF SequenceInit, SeqTyped
  <1>3. numberNext[Main] = 1 /\ \A r \in Rows : numberNext[r] = IF r = Main THEN 1 ELSE 0
        BY DEF SequenceInit, Rows
  <1>4. OneWriter /\ Current /\ ReadIsSnapshot
        BY <1>1, <1>3, NoRequestFacts DEF OneWriter, Current, UpToDate, ReadIsSnapshot
  <1>5. issued = <<>> /\ \A t \in Requests : request[t].drawn = <<>> /\ request[t].written = {}
        BY <1>1, NoRequestFacts DEF SequenceInit
  <1>6. DrawnInLine /\ (NoGap => NumbersInLine)
    <2>1. DrawnInLine
          BY <1>5, NoNumbers, NoEntries DEF DrawnInLine
    <2>2. \A r \in Rows : NumbersOf(issued, r) = 1 .. numberNext[r] - 1
      <3>1. 1 .. 0 = {} /\ 1 .. -1 = {}
            OBVIOUS
      <3>2. \A r \in Rows : numberNext[r] - 1 = 0 \/ numberNext[r] - 1 = -1
            BY <1>3
      <3> QED
          BY <1>5, <3>1, <3>2, NoNumbers
    <2> QED
        BY <1>5, <2>1, <2>2, NoEntries DEF NumbersInLine, NoGap
  <1>7. BelowNextval /\ DrawnApart
        BY <1>5, NoEntries DEF BelowNextval, DrawnApart
  <1> QED
      BY <1>2, <1>4, <1>6, <1>7 DEF SeqInv, NoGapInv, StandardInv

LEMMA NextSeqInv == SeqInv /\ [SequenceNext]_sequenceVars => SeqInv'
  <1> SUFFICES ASSUME SeqInv, [SequenceNext]_sequenceVars PROVE SeqInv'
      OBVIOUS
  <1>1. CASE SequenceNext
        BY <1>1, BeginInv, CreateRangeInv, SelectNextvalInv, ReadNumberNextInv,
           UpdateNumberNextInv, CommitRequestInv, RollbackRequestInv
        DEF SequenceNext
  <1>2. CASE UNCHANGED sequenceVars
    <2>1. /\ sequence' = sequence /\ numberNext' = numberNext /\ nextval' = nextval
          /\ request' = request /\ issued' = issued
          BY <1>2 DEF sequenceVars
    <2>2. SeqTyped' /\ OneWriter' /\ Current' /\ ReadIsSnapshot'
          BY <2>1
          DEF SeqInv, SeqTyped, OneWriter, Current, UpToDate, ReadIsSnapshot, NoGap
    <2>3. NoGapInv'
          BY <2>1 DEF SeqInv, NoGapInv, NoGap, DrawnInLine, FirstFree, NumbersInLine
    <2>4. StandardInv'
          BY <2>1 DEF SeqInv, StandardInv, NoGap, BelowNextval, KnownRow, DrawnApart
    <2> QED
        BY <2>2, <2>3, <2>4 DEF SeqInv
  <1> QED
      BY <1>1, <1>2

(* What transactions have drawn, beside what is committed. *)
THEOREM SequenceInvariance == SequenceSpec => []SeqInv
  <1> QED
      BY InitSeqInv, NextSeqInv, PTL DEF SequenceSpec

(* The state is of the types the source gives it (ir_sequence.py). *)
THEOREM SequenceTypeCorrect == SequenceSpec => []SequenceTypeOK
  <1>1. SeqInv => SequenceTypeOK
        BY DEF SeqInv, SeqTyped, RequestType, SequenceTypeOK
  <1> QED
      BY <1>1, SequenceInvariance, PTL

(***************************************************************************)
(* For any number of transactions, rows and draws: the committed documents *)
(* of a no_gap sequence bear the numbers 1, 2 ... of each row, in order    *)
(* and without a hole, whatever was rolled back (_update_nogap, under      *)
(* REPEATABLE READ); a standard sequence gives no number twice             *)
(* (_select_nextval).                                                      *)
(***************************************************************************)
THEOREM NumbersAreInLine == SequenceSpec => []NumbersInLine
  <1>1. SeqInv => NumbersInLine
        BY DEF SeqInv, NoGapInv, StandardInv, DrawnApart, NumbersInLine, NoGap
  <1> QED
      BY <1>1, SequenceInvariance, PTL

-----------------------------------------------------------------------------
(* What the run services checks *)

(* A behaviour of the run is one of each of the three parts, two of which  *)
(* stand still.                                                            *)
LEMMA ServicesApart == MCSpec => FilestoreSpec /\ SequenceSpec /\ BusSpec
  <1>1. MCInit => FilestoreInit /\ SequenceInit /\ BusInit
        BY DEF MCInit
  <1>2. [MCNext]_allVars => [FilestoreNext]_fileVars
        BY DEF MCNext, UseFilestore, UseSequence, UseBus, allVars
  <1>3. [MCNext]_allVars => [SequenceNext]_sequenceVars
        BY DEF MCNext, UseFilestore, UseSequence, UseBus, allVars
  <1>4. [MCNext]_allVars => [BusNext]_busVars
        BY DEF MCNext, UseFilestore, UseSequence, UseBus, allVars
  <1> QED
      BY <1>1, <1>2, <1>3, <1>4, PTL DEF MCSpec, FilestoreSpec, SequenceSpec, BusSpec

(* The state of the filestore, the sequences and the bus is of the types   *)
(* the source gives it.                                                    *)
THEOREM ServicesTypesCorrect == MCSpec => []TypesOK
  <1>1. IInv /\ BusInv /\ SequenceTypeOK => TypesOK
        BY DEF IInv, BusInv, TypesOK
  <1> QED
      BY <1>1, ServicesApart, Invariance, BusInvariance, SequenceTypeCorrect, PTL
=============================================================================
