--------------------------- MODULE CrosstabProofs ---------------------------
(***************************************************************************)
(* The cross-tab bus, for any tabs, any periods and any budgets: no tab    *)
(* passes over a notification and, while one tab only was elected, none is *)
(* triggered twice or out of order.                                        *)
(*                                                                         *)
(* NothingSkipped compares a tab with itself; it is kept because the tab   *)
(* that polls cannot know more than the storage.  So the invariant bounds  *)
(* what every tab knows by the storage's last (Sane) and says of all       *)
(* notifications up to there that they were triggered, are on their way or *)
(* were ignored, or that no event told of them (Shown).  For the order,    *)
(* everything that was triggered or is on its way lies before what the     *)
(* only elected tab e will ask for next (Before, Line), and e itself hears *)
(* no news from others (Ordered).                                          *)
(*                                                                         *)
(* Most handlers share no notification: they are Quiet, whatever election, *)
(* heartbeat or change of channels they go through.                        *)
(*                                                                         *)
(* Type correctness, at the end, needs no such history: what a handler     *)
(* works on stays in Worlds.  Its one difficult part is the list of peers, *)
(* which every election and heartbeat rewrites and which never holds a tab *)
(* twice.                                                                  *)
(***************************************************************************)
EXTENDS Crosstab, FiniteSetTheorems, WellFoundedInduction, TLAPS

(* Lists, and what is left of them.                                        *)

(* The places of I are numbered in their order, without a gap.             *)
LEMMA Ranks ==
    ASSUME NEW I, I \subseteq Nat, IsFiniteSet(I)
    PROVE  /\ Cardinality(I) \in Nat
           /\ \A k \in 1 .. Cardinality(I) :
                 \E i \in I : Cardinality({j \in I : j <= i}) = k
  <1> DEFINE upto(i) == {j \in I : j <= i}
             n == Cardinality(I)
             r == [i \in I |-> Cardinality(upto(i))]
  <1>1. n \in Nat
    BY FS_CardinalityType
  <1>2. ASSUME NEW i \in I
        PROVE  IsFiniteSet(upto(i)) /\ Cardinality(upto(i)) \in 1 .. n
    <2>1. upto(i) \in SUBSET I /\ {i} \in SUBSET upto(i)
      OBVIOUS
    <2>2. IsFiniteSet(upto(i)) /\ Cardinality(upto(i)) <= n /\ Cardinality(upto(i)) \in Nat
      BY <2>1, FS_Subset, FS_CardinalityType
    <2>3. Cardinality({i}) <= Cardinality(upto(i)) /\ Cardinality({i}) = 1
      BY <2>1, <2>2, FS_Subset, FS_Singleton
    <2> QED
      BY <1>1, <2>2, <2>3
  <1>3. ASSUME NEW i \in I, NEW j \in I, i < j
        PROVE  Cardinality(upto(i)) # Cardinality(upto(j))
    <2>1. i \in Nat /\ j \in Nat /\ \A k \in I : k \in Nat
      OBVIOUS
    <2>2. j \in upto(j) /\ j \notin upto(i) /\ \A k \in upto(i) : k \in upto(j)
      BY <1>3, <2>1
    <2>3. upto(i) \in SUBSET upto(j)
      BY <2>2
    <2> QED
      BY <1>2, <2>2, <2>3, FS_Subset
  <1>4. r \in Injection(I, 1 .. n)
    <2>1. r \in [I -> 1 .. n]
      BY <1>2
    <2>2. \A i, j \in I : r[i] = r[j] => i = j
      BY <1>3
    <2> QED
      BY <2>1, <2>2 DEF Injection, IsInjective
  <1>5. IsFiniteSet(1 .. n) /\ Cardinality(1 .. n) = n
    BY <1>1, FS_Interval
  <1>6. r \in Surjection(I, 1 .. n)
    BY <1>4, <1>5, FS_Injection
  <1> QED
    BY <1>1, <1>6 DEF Surjection

LEMMA AtFacts ==
    ASSUME NEW X, NEW s \in Seq(X), NEW I \in SUBSET DOMAIN s
    PROVE  /\ At(s, I) \in Seq(X)
           /\ \E f \in [DOMAIN At(s, I) -> I] :
                 /\ \A k \in DOMAIN At(s, I) : At(s, I)[k] = s[f[k]]
                 /\ \A k, l \in DOMAIN At(s, I) : f[k] = f[l] => k = l
  <1> DEFINE rank(i) == Cardinality({j \in I : j <= i})
             n == Cardinality(I)
             f == [k \in 1 .. n |-> CHOOSE i \in I : rank(i) = k]
  <1>1. I \subseteq Nat /\ IsFiniteSet(I)
    <2>1. DOMAIN s = 1 .. Len(s) /\ Len(s) \in Nat
      OBVIOUS
    <2>2. IsFiniteSet(1 .. Len(s))
      BY <2>1, FS_Interval
    <2> QED
      BY <2>1, <2>2, FS_Subset
  <1>2. n \in Nat /\ \A k \in 1 .. n : \E i \in I : rank(i) = k
    BY <1>1, Ranks
  <1>3. \A k \in 1 .. n : f[k] \in I /\ rank(f[k]) = k
    <2> HIDE DEF rank
    <2> QED
      BY <1>2
  <1>4. At(s, I) = [k \in 1 .. n |-> s[f[k]]]
    BY DEF At
  <1> HIDE DEF f, n
  <1>5. ASSUME NEW k \in 1 .. n PROVE s[f[k]] \in X
    <2>1. f[k] \in DOMAIN s
      BY <1>3
    <2> QED
      BY <2>1
  <1>6. At(s, I) \in Seq(X)
    BY <1>2, <1>4, <1>5
  <1>7. f \in [1 .. n -> I]
    BY <1>3 DEF f
  <1>8. DOMAIN At(s, I) = 1 .. n
    BY <1>4
  <1>9. \A k, l \in 1 .. n : f[k] = f[l] => k = l
    BY <1>3
  <1>10. \A k \in 1 .. n : At(s, I)[k] = s[f[k]]
    BY <1>4
  <1>11. /\ f \in [DOMAIN At(s, I) -> I]
         /\ \A k \in DOMAIN At(s, I) : At(s, I)[k] = s[f[k]]
         /\ \A k, l \in DOMAIN At(s, I) : f[k] = f[l] => k = l
    BY <1>7, <1>8, <1>9, <1>10
  <1> QED
    BY <1>6, <1>11

-----------------------------------------------------------------------------
(* The handlers that share no notification.                                *)

Polls(b) == b.active \/ b.poll # "no"

ChannelEvent == [key : {"channels"}, value : Seq(Channels)]

(* What a handler works on; heartbeat, writers, peers and timers are left  *)
(* open, as no notification depends on them.                               *)
IsStore(s) ==
    /\ DOMAIN s = {"master", "heartbeat", "writers", "peers", "channels", "last",
       "notification"}
    /\ s.channels \in Seq(Channels)
    /\ s.last \in Nat

IsTab(b) ==
    /\ DOMAIN b = {"state", "master", "active", "poll", "from", "last", "first", "channels",
       "timer"}
    /\ b.state \in {"absent", "loaded", "registered", "gone"}
    /\ b.master \in BOOLEAN /\ b.active \in BOOLEAN /\ b.poll \in {"no", "open", "retry"}
    /\ b.from \in Nat /\ b.last \in Nat /\ b.first \in Nat
    /\ b.channels \in Seq(Channels)

IsWorld(w) ==
    /\ DOMAIN w = {"s", "b", "events"}
    /\ IsStore(w.s) /\ IsTab(w.b)
    /\ w.events \in Seq(ChannelEvent)

(* From b to c, the tab learns of no notification; it polls only from its  *)
(* last and only if it is or was elected.                                  *)
QuietTab(b, c) ==
    /\ c.last = b.last /\ c.first = b.first
    /\ c.state \in {b.state, "registered"}
    /\ c.poll = "open" => c.from = c.last \/ (b.poll = "open" /\ c.from = b.from)
    /\ Polls(c) => c.master \/ (Polls(b) /\ ~b.master)

Quiet(w, x) ==
    /\ IsWorld(x)
    /\ x.s.last = w.s.last /\ x.s.notification = w.s.notification
    /\ QuietTab(w.b, x.b)

LEMMA QuietTransitive ==
    ASSUME NEW w, NEW x, NEW y, Quiet(w, x), Quiet(x, y)
    PROVE  Quiet(w, y)
  BY DEF Quiet, QuietTab

LEMMA QuietReflexive ==
    ASSUME NEW w, IsWorld(w)
    PROVE  Quiet(w, w)
  BY DEF Quiet, QuietTab, IsWorld, IsTab

LEMMA PollQuiet ==
    ASSUME NEW b, IsTab(b)
    PROVE  IsTab(Poll(b)) /\ QuietTab(b, Poll(b)) /\ Poll(b).master = b.master
  BY DEF Poll, IsTab, QuietTab, Polls

LEMMA ActivateQuiet ==
    ASSUME NEW b, IsTab(b), b.master
    PROVE  IsTab(Activate(b)) /\ QuietTab(b, Activate(b)) /\ Activate(b).master
  <1> DEFINE c == [b EXCEPT !.active = TRUE]
  <1>1. IsTab(c) /\ c.last = b.last /\ c.first = b.first /\ c.state = b.state /\ c.poll = b.poll
        /\ c.from = b.from /\ c.master
    BY DEF IsTab
  <1> HIDE DEF c
  <1>2. IsTab(Poll(c)) /\ QuietTab(c, Poll(c)) /\ Poll(c).master = c.master
    BY <1>1, PollQuiet
  <1>3. Activate(b) = b \/ Activate(b) = Poll(c)
    BY DEF Activate, c
  <1> QED
    BY <1>1, <1>2, <1>3 DEF QuietTab, IsTab

LEMMA StopPollingQuiet ==
    ASSUME NEW b, IsTab(b)
    PROVE  LET c == StopPolling([b EXCEPT !.master = FALSE])
           IN  IsTab(c) /\ QuietTab(b, c)
  BY DEF StopPolling, IsTab, QuietTab, Polls

(* Handlers that change something else in the storage. *)
LEMMA StoreQuiet ==
    ASSUME NEW w, NEW x, IsWorld(w), IsWorld(x), x.b = w.b,
           x.s.last = w.s.last, x.s.notification = w.s.notification
    PROVE  Quiet(w, x)
  BY DEF Quiet, QuietTab, IsWorld, IsTab

LEMMA SetChannelsQuiet ==
    ASSUME NEW w, IsWorld(w), NEW C \in Seq(Channels)
    PROVE  Quiet(w, SetItem(w, "channels", C)) /\ SetItem(w, "channels", C).b = w.b
  <1>1. CASE w.s.channels = C
    BY <1>1, QuietReflexive DEF SetItem
  <1>2. CASE w.s.channels # C
    <2> DEFINE x == SetItem(w, "channels", C)
               e == [key |-> "channels", value |-> C]
    <2>1. e \in ChannelEvent
      BY DEF ChannelEvent
    <2> HIDE DEF e
    <2>2. x = [w EXCEPT !.s["channels"] = C, !.events = Append(@, e)]
      BY <1>2 DEF SetItem, e
    <2>3. DOMAIN x = DOMAIN w /\ x.b = w.b /\ x.events = Append(w.events, e)
          /\ x.s = [w.s EXCEPT !["channels"] = C]
      BY <2>2 DEF IsWorld
    <2>4. x.events \in Seq(ChannelEvent)
      BY <2>1, <2>3 DEF IsWorld
    <2>5. IsStore(x.s) /\ x.s.last = w.s.last /\ x.s.notification = w.s.notification
      BY <2>3 DEF IsWorld, IsStore
    <2> HIDE DEF x
    <2>6. IsWorld(x)
      BY <2>3, <2>4, <2>5 DEF IsWorld
    <2> USE DEF x
    <2> QED
      BY <2>3, <2>5, <2>6, StoreQuiet
  <1> QED
    BY <1>1, <1>2

LEMMA WriteHeartbeatQuiet ==
    ASSUME NEW w, IsWorld(w), NEW t, NEW tie \in BOOLEAN
    PROVE  Quiet(w, WriteHeartbeat(w, t, tie)) /\ WriteHeartbeat(w, t, tie).b = w.b
  <1> DEFINE x == WriteHeartbeat(w, t, tie)
  <1>1. DOMAIN x = DOMAIN w /\ x.b = w.b /\ x.events = w.events
        /\ DOMAIN x.s = DOMAIN w.s /\ x.s.last = w.s.last /\ x.s.notification = w.s.notification
        /\ x.s.channels = w.s.channels
    BY DEF WriteHeartbeat, IsWorld, IsStore
  <1> HIDE DEF x
  <1>2. IsWorld(x)
    BY <1>1 DEF IsWorld, IsStore
  <1>3. Quiet(w, x)
    BY <1>1, <1>2, StoreQuiet
  <1> QED
    BY <1>1, <1>3 DEF x

LEMMA StartElectionQuiet ==
    ASSUME NEW w, IsWorld(w), NEW t, NEW tie \in BOOLEAN
    PROVE  Quiet(w, StartElection(w, t, tie))
  <1> DEFINE h == WriteHeartbeat(w, t, tie)
             c == [h.b EXCEPT !.master = TRUE]
             x == [h EXCEPT !.s.master = TRUE, !.s.peers = WithoutPeer(@, t),
             !.b = Activate([@ EXCEPT !.master = TRUE])]
  <1>1. StartElection(w, t, tie) = w \/ StartElection(w, t, tie) = x
    BY DEF StartElection
  <1>2. IsWorld(h) /\ h.b = w.b /\ Quiet(w, h)
    BY WriteHeartbeatQuiet DEF Quiet
  <1> HIDE DEF h
  <1>3. IsTab(c) /\ c.master /\ c.last = w.b.last /\ c.first = w.b.first /\ c.state = w.b.state
        /\ c.poll = w.b.poll /\ c.from = w.b.from
    BY <1>2 DEF IsWorld, IsTab
  <1> HIDE DEF c
  <1>4. x.b = Activate(c) /\ DOMAIN x = DOMAIN h /\ x.events = h.events
        /\ DOMAIN x.s = DOMAIN h.s /\ x.s.last = h.s.last /\ x.s.notification = h.s.notification
        /\ x.s.channels = h.s.channels
    BY <1>2 DEF IsWorld, IsStore, c
  <1> HIDE DEF x
  <1>5. IsTab(Activate(c)) /\ QuietTab(c, Activate(c)) /\ Activate(c).master
    BY <1>3, ActivateQuiet
  <1>6. IsWorld(x)
    BY <1>2, <1>4, <1>5 DEF IsWorld, IsStore
  <1>7. QuietTab(w.b, x.b)
    BY <1>3, <1>4, <1>5 DEF QuietTab
  <1>8. Quiet(w, x)
    BY <1>2, <1>4, <1>6, <1>7 DEF Quiet
  <1> QED
    BY <1>1, <1>8, QuietReflexive

LEMMA PeersQuiet ==
    ASSUME NEW w, IsWorld(w), NEW peers
    PROVE  Quiet(w, [w EXCEPT !.s.peers = peers])
  <1> DEFINE x == [w EXCEPT !.s.peers = peers]
  <1>1. IsWorld(x) /\ x.b = w.b /\ x.s.last = w.s.last /\ x.s.notification = w.s.notification
    BY DEF IsWorld, IsStore
  <1> HIDE DEF x
  <1>2. Quiet(w, x)
    BY <1>1, StoreQuiet
  <1> QED
    BY <1>2 DEF x

(* A handler that changes only its own tab. *)
LEMMA TabQuiet ==
    ASSUME NEW w, NEW b, IsWorld(w), IsTab(b), QuietTab(w.b, b)
    PROVE  Quiet(w, [w EXCEPT !.b = b])
  <1> DEFINE x == [w EXCEPT !.b = b]
  <1>1. DOMAIN x = DOMAIN w /\ x.b = b /\ x.s = w.s /\ x.events = w.events
    BY DEF IsWorld
  <1> HIDE DEF x
  <1>2. Quiet(w, x)
    BY <1>1 DEF Quiet, IsWorld
  <1> QED
    BY <1>2 DEF x

LEMMA BeatQuiet ==
    ASSUME NEW w0, IsWorld(w0), NEW t, NEW tie \in BOOLEAN
    PROVE  Quiet(w0, Beat(w0, t, tie))
  <1> DEFINE peers == w0.s.peers
             w == IF w0.s.heartbeat > HEARTBEAT_OUT_OF_DATE_PERIOD
                  THEN StartElection(w0, t, tie) ELSE w0
             alive == At(peers, {i \in DOMAIN peers :
                                    peers[i].age < HEARTBEAT_KILL_OLD_PERIOD})
             slave == [w EXCEPT !.s.peers = WithPeer(peers, t)]
             master == [WriteHeartbeat(w, t, tie) EXCEPT !.s.peers = alive]
             stopped == [w EXCEPT !.s.peers = WithPeer(peers, t),
                                  !.b = StopPolling([@ EXCEPT !.master = FALSE])]
             beaten == IF ~w.b.master THEN slave
                       ELSE IF t \in w.s.writers THEN master ELSE stopped
             x == [beaten EXCEPT !.b.timer = IF beaten.b.master THEN MASTER_TAB_HEARTBEAT_PERIOD
                                                                ELSE TAB_HEARTBEAT_PERIOD]
  <1>1. Beat(w0, t, tie) = x
    BY DEF Beat
  <1>2. Quiet(w0, w) /\ IsWorld(w)
    BY StartElectionQuiet, QuietReflexive DEF Quiet
  <1> HIDE DEF w, peers, alive
  <1>3. Quiet(w, slave)
    BY <1>2, PeersQuiet
  <1>4. Quiet(w, master)
    <2>1. Quiet(w, WriteHeartbeat(w, t, tie)) /\ IsWorld(WriteHeartbeat(w, t, tie))
      BY <1>2, WriteHeartbeatQuiet DEF Quiet
    <2>2. Quiet(WriteHeartbeat(w, t, tie), master)
      BY <2>1, PeersQuiet
    <2> QED
      BY <2>1, <2>2, QuietTransitive
  <1>5. Quiet(w, stopped)
    <2> DEFINE b == StopPolling([w.b EXCEPT !.master = FALSE])
    <2>1. IsTab(b) /\ QuietTab(w.b, b)
      BY <1>2, StopPollingQuiet DEF IsWorld
    <2>2. IsWorld(slave) /\ slave.b = w.b /\ Quiet(w, slave)
      BY <1>2, <1>3 DEF Quiet, IsWorld
    <2>3. stopped = [slave EXCEPT !.b = b]
      BY <1>2 DEF IsWorld
    <2>4. Quiet(slave, [slave EXCEPT !.b = b])
      BY <2>1, <2>2, TabQuiet
    <2> QED
      BY <2>2, <2>3, <2>4, QuietTransitive
  <1>6. Quiet(w, beaten) /\ IsWorld(beaten)
    BY <1>3, <1>4, <1>5 DEF Quiet
  <1> HIDE DEF beaten
  <1>7. Quiet(beaten, x)
    <2> DEFINE n == IF beaten.b.master THEN MASTER_TAB_HEARTBEAT_PERIOD
        ELSE TAB_HEARTBEAT_PERIOD
               b == [beaten.b EXCEPT !.timer = n]
    <2>1. x = [beaten EXCEPT !.b = b]
      BY <1>6 DEF IsWorld
    <2> HIDE DEF n
    <2>2. IsTab(b) /\ QuietTab(beaten.b, b)
      BY <1>6 DEF IsWorld, IsTab, QuietTab, Polls
    <2> HIDE DEF b
    <2> QED
      BY <1>6, <2>1, <2>2, TabQuiet
  <1> QED
    BY <1>1, <1>2, <1>6, <1>7, QuietTransitive

LEMMA RegisterQuiet ==
    ASSUME NEW w0, IsWorld(w0), NEW t, NEW tie \in BOOLEAN
    PROVE  Quiet(w0, Register(w0, t, tie))
  <1> DEFINE listed == [w0 EXCEPT !.b.state = "registered", !.s.peers = WithPeer(@, t)]
             e == IF listed.s.master THEN listed ELSE StartElection(listed, t, tie)
             w == Beat(e, t, tie)
             slave == [w EXCEPT !.b.channels = w.s.channels]
  <1>1. Quiet(w0, listed) /\ IsWorld(listed)
    <2> DEFINE b == [w0.b EXCEPT !.state = "registered"]
               p == WithPeer(w0.s.peers, t)
               y == [w0 EXCEPT !.b = b]
    <2>1. IsTab(b) /\ QuietTab(w0.b, b)
      BY DEF IsWorld, IsTab, QuietTab, Polls
    <2>2. Quiet(w0, y) /\ IsWorld(y)
      BY <2>1, TabQuiet DEF Quiet
    <2>3. Quiet(y, [y EXCEPT !.s.peers = p])
      BY <2>2, PeersQuiet
    <2>4. listed = [y EXCEPT !.s.peers = p]
      BY DEF IsWorld
    <2> QED
      BY <2>2, <2>3, <2>4, QuietTransitive DEF Quiet
  <1> HIDE DEF listed
  <1>2. Quiet(listed, e) /\ IsWorld(e)
    BY <1>1, StartElectionQuiet, QuietReflexive DEF Quiet
  <1> HIDE DEF e
  <1>3. Quiet(e, w) /\ IsWorld(w)
    BY <1>2, BeatQuiet DEF Quiet
  <1> HIDE DEF w
  <1>4. Quiet(w, SetItem(w, "channels", w.b.channels))
    BY <1>3, SetChannelsQuiet DEF IsWorld, IsTab
  <1>5. Quiet(w, slave)
    <2> DEFINE b == [w.b EXCEPT !.channels = w.s.channels]
    <2>1. slave = [w EXCEPT !.b = b]
      BY <1>3 DEF IsWorld
    <2>2. IsTab(b) /\ QuietTab(w.b, b)
      BY <1>3 DEF IsWorld, IsStore, IsTab, QuietTab, Polls
    <2> QED
      BY <1>3, <2>1, <2>2, TabQuiet
  <1>6. Register(w0, t, tie) = IF w.b.master THEN SetItem(w, "channels", w.b.channels)
        ELSE slave
    BY DEF Register, w, e, listed
  <1>7. Quiet(w0, w)
    BY <1>1, <1>2, <1>3, QuietTransitive
  <1> QED
    BY <1>4, <1>5, <1>6, <1>7, QuietTransitive

LEMMA StartPollingQuiet ==
    ASSUME NEW w, IsWorld(w), NEW t, NEW tie \in BOOLEAN
    PROVE  Quiet(w, StartPolling(w, t, tie))
  <1>1. CASE w.b.state = "loaded"
    BY <1>1, RegisterQuiet DEF StartPolling
  <1>2. CASE w.b.state # "loaded" /\ w.b.master
    <2>1. IsTab(Activate(w.b)) /\ QuietTab(w.b, Activate(w.b))
      BY <1>2, ActivateQuiet DEF IsWorld
    <2>2. StartPolling(w, t, tie) = [w EXCEPT !.b = Activate(w.b)]
      BY <1>2 DEF StartPolling, IsWorld
    <2> QED
      BY <2>1, <2>2, TabQuiet
  <1>3. CASE w.b.state # "loaded" /\ ~w.b.master
    BY <1>3, QuietReflexive DEF StartPolling
  <1> QED
    BY <1>1, <1>2, <1>3

(* The list of channels changes and, if a poll is open, it starts again. *)
LEMMA ChannelsQuiet ==
    ASSUME NEW w, IsWorld(w), NEW C \in Seq(Channels)
    PROVE  LET x == [w EXCEPT !.b.channels = C]
           IN  Quiet(w, x) /\ Quiet(w, [x EXCEPT !.b = Poll(@)])
  <1> DEFINE b == [w.b EXCEPT !.channels = C]
             x == [w EXCEPT !.b = b]
  <1>1. IsTab(b) /\ QuietTab(w.b, b)
    BY DEF IsWorld, IsTab, QuietTab, Polls
  <1>2. x = [w EXCEPT !.b.channels = C]
    BY DEF IsWorld
  <1>3. x.b = b
    BY DEF IsWorld
  <1> HIDE DEF b
  <1>4. Quiet(w, x) /\ IsWorld(x)
    BY <1>1, TabQuiet DEF Quiet
  <1> HIDE DEF x
  <1>5. IsTab(Poll(x.b)) /\ QuietTab(x.b, Poll(x.b))
    BY <1>4, PollQuiet DEF IsWorld
  <1>6. Quiet(x, [x EXCEPT !.b = Poll(x.b)])
    BY <1>4, <1>5, TabQuiet
  <1>7. [x EXCEPT !.b = Poll(@)] = [x EXCEPT !.b = Poll(x.b)]
    BY <1>4 DEF IsWorld
  <1> QED
    BY <1>2, <1>4, <1>6, <1>7, QuietTransitive

LEMMA SubscribedQuiet ==
    ASSUME NEW w, IsWorld(w), NEW c \in Channels, NEW t, NEW tie \in BOOLEAN
    PROVE  Quiet(w, Subscribed(w, c, t, tie))
  <1> DEFINE C == Append(w.b.channels, c)
             pushed == [w EXCEPT !.b.channels = C]
             polled == IF w.b.poll = "open" THEN [pushed EXCEPT !.b = Poll(@)]
                       ELSE StartPolling(pushed, t, tie)
             added == IF c \in ToSet(w.b.channels) THEN w ELSE polled
  <1>1. C \in Seq(Channels)
    BY DEF IsWorld, IsTab
  <1> HIDE DEF C
  <1>2. Quiet(w, pushed) /\ Quiet(w, [pushed EXCEPT !.b = Poll(@)]) /\ IsWorld(pushed)
    BY <1>1, ChannelsQuiet DEF Quiet
  <1> HIDE DEF pushed
  <1>3. Quiet(pushed, StartPolling(pushed, t, tie))
    BY <1>2, StartPollingQuiet
  <1>4. Quiet(w, polled)
    BY <1>2, <1>3, QuietTransitive
  <1>5. Quiet(w, added) /\ IsWorld(added)
    BY <1>4, QuietReflexive DEF Quiet
  <1>6. Quiet(added, SetItem(added, "channels", added.b.channels))
    <2> HIDE DEF added
    <2> QED
      BY <1>5, SetChannelsQuiet DEF IsWorld, IsTab
  <1>7. Subscribed(w, c, t, tie) = SetItem(added, "channels", added.b.channels)
    <2>1. pushed = [w EXCEPT !.b.channels = Append(@, c)]
      BY DEF pushed, C, IsWorld
    <2> QED
      BY <2>1 DEF Subscribed
  <1> HIDE DEF added
  <1> QED
    BY <1>5, <1>6, <1>7, QuietTransitive

LEMMA UnsubscribedQuiet ==
    ASSUME NEW w, IsWorld(w), NEW c
    PROVE  Quiet(w, Unsubscribed(w, c))
  <1> DEFINE own == w.b.channels
             C == At(own, {i \in DOMAIN own : own[i] # c})
             spliced == [w EXCEPT !.b.channels = C]
             deleted == IF w.b.poll = "open" THEN [spliced EXCEPT !.b = Poll(@)] ELSE spliced
  <1>1. C \in Seq(Channels)
    <2>1. own \in Seq(Channels) /\ {i \in DOMAIN own : own[i] # c} \in SUBSET DOMAIN own
      BY DEF IsWorld, IsTab
    <2> QED
      BY <2>1, AtFacts
  <1>2. Unsubscribed(w, c) = SetItem(deleted, "channels", deleted.b.channels)
    <2>1. spliced = [w EXCEPT !.b.channels = At(@, {i \in DOMAIN @ : @[i] # c})]
      BY DEF IsWorld
    <2> QED
      BY <2>1 DEF Unsubscribed
  <1> HIDE DEF C
  <1>3. Quiet(w, spliced) /\ Quiet(w, [spliced EXCEPT !.b = Poll(@)])
    BY <1>1, ChannelsQuiet
  <1> HIDE DEF spliced
  <1>4. Quiet(w, deleted) /\ IsWorld(deleted)
    BY <1>3 DEF Quiet
  <1> HIDE DEF deleted
  <1>5. Quiet(deleted, SetItem(deleted, "channels", deleted.b.channels))
    BY <1>4, SetChannelsQuiet DEF IsWorld, IsTab
  <1> QED
    BY <1>2, <1>4, <1>5, QuietTransitive

(* after is what results of the calls one after the other.                 *)
IsAfter(after, w, own, list, t, N) ==
    after = [n \in 0 .. N |-> IF n = 0 THEN {w} ELSE Called(after[n - 1], own, list, n, t)]

(* Every number of calls has a result: there is no first one without.      *)
LEMMA AfterExists ==
    ASSUME NEW w, NEW own, NEW list, NEW t, NEW N \in Nat
    PROVE  \E after : IsAfter(after, w, own, list, t, N)
  <1> DEFINE Has(n) == \E after : IsAfter(after, w, own, list, t, n)
             T == {n \in Nat : ~Has(n)}
  <1>1. SUFFICES ASSUME T # {} PROVE FALSE
    OBVIOUS
  <1>2. PICK m \in T : \A n \in T : ~(<<n, m>> \in OpToRel(<, Nat))
    BY <1>1, NatLessThanWellFounded, WFMin
  <1>3. m \in Nat /\ ~Has(m) /\ \A n \in Nat : n < m => Has(n)
    BY <1>2 DEF OpToRel
  <1>4. CASE m = 0
    <2> DEFINE f == [n \in 0 .. 0 |-> {w}]
    <2>1. f = [n \in 0 .. 0 |-> IF n = 0 THEN {w} ELSE Called(f[n - 1], own, list, n, t)]
      OBVIOUS
    <2>2. IsAfter(f, w, own, list, t, 0)
      BY <2>1 DEF IsAfter
    <2> QED
      BY <1>3, <1>4, <2>2
  <1>5. CASE m # 0
    <2>1. m - 1 \in Nat /\ m - 1 < m
      BY <1>3, <1>5
    <2>2. PICK g : IsAfter(g, w, own, list, t, m - 1)
      BY <1>3, <2>1
    <2> DEFINE f == [n \in 0 .. m |-> IF n < m THEN g[n] ELSE Called(g[m - 1], own, list, m, t)]
    <2>3. ASSUME NEW n \in 0 .. m
          PROVE  f[n] = IF n = 0 THEN {w} ELSE Called(f[n - 1], own, list, n, t)
      <3>1. CASE n = m
        <4>1. f[n - 1] = g[m - 1] /\ f[n] = Called(g[m - 1], own, list, m, t)
          BY <1>3, <2>1, <3>1
        <4> QED
          BY <1>5, <3>1, <4>1
      <3>2. CASE n < m
        <4>1. n \in 0 .. m - 1 /\ f[n] = g[n] /\ (n # 0 => f[n - 1] = g[n - 1])
          BY <1>3, <2>1, <3>2
        <4>2. g[n] = IF n = 0 THEN {w} ELSE Called(g[n - 1], own, list, n, t)
          BY <2>2, <4>1 DEF IsAfter
        <4> HIDE DEF f
        <4> QED
          BY <4>1, <4>2
      <3> QED
        BY <1>3, <3>1, <3>2
    <2>4. f = [n \in 0 .. m |-> f[n]]
      OBVIOUS
    <2> HIDE DEF f
    <2>5. IsAfter(f, w, own, list, t, m)
      BY <2>3, <2>4 DEF IsAfter
    <2> QED
      BY <1>3, <2>5
  <1> QED
    BY <1>4, <1>5

(* The calls that Adopted stands for.                                      *)
Adopting(w, list, t, after, N) ==
    /\ after[0] = {w} /\ Adopted(w, list, t) = after[N]
    /\ \A n \in 1 .. N :
          \/ after[n] = after[n - 1]
          \/ \E c \in Channels :
                \/ after[n] = {Unsubscribed(u, c) : u \in after[n - 1]}
                \/ after[n] = {Subscribed(u, c, t, tie) : u \in after[n - 1], tie \in BOOLEAN}

LEMMA AdoptedCalls ==
    ASSUME NEW w, NEW list \in Seq(Channels), w.b.channels \in Seq(Channels), NEW t
    PROVE  \E after : \E N \in Nat : Adopting(w, list, t, after, N)
  <1> DEFINE own == w.b.channels
             N == Len(own) + Len(list)
             after == CHOOSE f : IsAfter(f, w, own, list, t, N)
  <1>1. N \in Nat
    OBVIOUS
  <1>2. IsAfter(after, w, own, list, t, N)
    BY <1>1, AfterExists
  <1>3. Adopted(w, list, t) = after[N]
    BY DEF Adopted, IsAfter
  <1>4. \A n \in 1 .. N : (own \o list)[n] \in Channels
    OBVIOUS
  <1> HIDE DEF after, N, own
  <1>5. after[0] = {w}
    BY <1>1, <1>2 DEF IsAfter
  <1>6. ASSUME NEW n \in 1 .. N
        PROVE  \/ after[n] = after[n - 1]
               \/ \E c \in Channels :
                     \/ after[n] = {Unsubscribed(u, c) : u \in after[n - 1]}
                     \/ after[n] = {Subscribed(u, c, t, tie) : u \in after[n - 1], tie \in BOOLEAN}
    <2>1. n \in 0 .. N /\ n # 0
      BY <1>1
    <2>2. after[n] = Called(after[n - 1], own, list, n, t)
      BY <1>2, <2>1 DEF IsAfter
    <2> DEFINE c == (own \o list)[n]
    <2>3. c \in Channels
      BY <1>4
    <2>4. \/ after[n] = after[n - 1]
          \/ after[n] = {Unsubscribed(u, c) : u \in after[n - 1]}
          \/ after[n] = {Subscribed(u, c, t, tie) : u \in after[n - 1], tie \in BOOLEAN}
      <3> DEFINE P == c \in ToSet(own) /\ c \in ToSet(list)
      <3>1. after[n] = IF P THEN after[n - 1]
                       ELSE IF n <= Len(own) THEN {Unsubscribed(u, c) : u \in after[n - 1]}
                       ELSE {Subscribed(u, c, t, tie) : u \in after[n - 1], tie \in BOOLEAN}
        BY <2>2 DEF Called
      <3> HIDE DEF P, c
      <3> QED
        BY <3>1
    <2> HIDE DEF c
    <2> QED
      BY <2>3, <2>4
  <1>7. Adopting(w, list, t, after, N)
    BY <1>3, <1>5, <1>6 DEF Adopting
  <1> QED
    BY <1>1, <1>7

LEMMA AdoptedQuiet ==
    ASSUME NEW w, IsWorld(w), NEW list \in Seq(Channels), NEW t, NEW h \in Adopted(w, list, t)
    PROVE  Quiet(w, h)
  <1>0. PICK after : \E N \in Nat : Adopting(w, list, t, after, N)
    <2>1. w.b.channels \in Seq(Channels)
      BY DEF IsWorld, IsTab
    <2> QED
      BY <2>1, AdoptedCalls
  <1>1. PICK N \in Nat : Adopting(w, list, t, after, N)
    BY <1>0
  <1> DEFINE Fine(n) == \A u \in after[n] : Quiet(w, u)
             T == {n \in 0 .. N : ~Fine(n)}
  <1>2. T = {}
    <2> SUFFICES ASSUME T # {} PROVE FALSE
      OBVIOUS
    <2> HIDE DEF Fine
    <2>0. T \subseteq Nat
      OBVIOUS
    <2>1. PICK m \in T : \A n \in T : ~(<<n, m>> \in OpToRel(<, Nat))
      BY <2>0, NatLessThanWellFounded, WFMin
    <2>2. m \in 0 .. N /\ ~Fine(m) /\ (m # 0 => m \in 1 .. N /\ Fine(m - 1))
      <3>1. \A n \in 0 .. N : n < m => Fine(n)
        BY <2>0, <2>1 DEF OpToRel
      <3> QED
        BY <2>0, <3>1
    <2> USE DEF Fine
    <2>3. m # 0
      BY <1>1, <2>2, QuietReflexive DEF Adopting
    <2>4. \A u \in after[m - 1] : Quiet(w, u) /\ IsWorld(u)
      BY <2>2, <2>3 DEF Quiet
    <2>5. CASE after[m] = after[m - 1]
      BY <2>2, <2>4, <2>5
    <2>6. ASSUME NEW c \in Channels, after[m] = {Unsubscribed(u, c) : u \in after[m - 1]}
          PROVE  FALSE
      <3>1. \A u \in after[m - 1] : Quiet(w, Unsubscribed(u, c))
        BY <2>4, UnsubscribedQuiet, QuietTransitive
      <3> QED
        BY <2>2, <2>6, <3>1
    <2>7. ASSUME NEW c \in Channels,
                 after[m] = {Subscribed(u, c, t, tie) : u \in after[m - 1], tie \in BOOLEAN}
          PROVE  FALSE
      <3>1. \A u \in after[m - 1], tie \in BOOLEAN : Quiet(w, Subscribed(u, c, t, tie))
        BY <2>4, SubscribedQuiet, QuietTransitive
      <3> QED
        BY <2>2, <2>7, <3>1
    <2> QED
      <3>1. m \in 1 .. N
        BY <2>2, <2>3
      <3>2. \/ after[m] = after[m - 1]
            \/ \E c \in Channels :
                  \/ after[m] = {Unsubscribed(u, c) : u \in after[m - 1]}
                  \/ after[m] = {Subscribed(u, c, t, tie) : u \in after[m - 1], tie \in BOOLEAN}
        BY <1>1, <3>1 DEF Adopting
      <3> QED
        BY <2>5, <2>6, <2>7, <3>2
  <1>3. N \in 0 .. N
    OBVIOUS
  <1> QED
    BY <1>1, <1>2, <1>3 DEF Adopting

-----------------------------------------------------------------------------
(* The invariant.                                                          *)

MasterEvent == [key : {"master"}, value : {0}]
LastEvent == [key : {"last"}, value : Nat]
NewsEvent == [key : {"notification"}, value : Seq(Nat)]
Events == MasterEvent \cup ChannelEvent \cup LastEvent \cup NewsEvent
News == {"last", "notification"}

Shape ==
    /\ IsStore(store) /\ store.last <= sent
    /\ DOMAIN spent = {"opened", "sent", "added", "failed", "late"}
    /\ spent.sent \in Nat
    /\ DOMAIN tab = Tabs /\ DOMAIN inbox = Tabs /\ DOMAIN seen = Tabs /\ DOMAIN skipped = Tabs
    /\ elected \subseteq Tabs /\ IsFiniteSet(elected)

(* A tab knows nothing beyond the last identifier in the storage, and it   *)
(* polls only if it was elected.                                           *)
Sane(u) ==
    /\ IsTab(tab[u]) /\ inbox[u] \in Seq(Events) /\ seen[u] \in Seq(Nat)
    /\ tab[u].last <= store.last
    /\ tab[u].poll = "open" => tab[u].from <= store.last
    /\ \A i \in DOMAIN inbox[u] : inbox[u][i].key = "last" => inbox[u][i].value <= store.last
    /\ tab[u].master \/ Polls(tab[u]) => u \in elected

Shown(u) ==
    u \in Open => \A n \in (tab[u].first + 1) .. store.last :
        n \in ToSet(seen[u]) \cup Pending(u) \cup skipped[u] \cup untold

(* What b polls next comes after n.                                        *)
Before(n, b) == n <= b.last /\ (b.poll = "open" => n <= b.from)

Rising(s) == \A i, j \in DOMAIN s : i < j => s[i] < s[j]

(* s was triggered and the news of the queue q will be, in this order.     *)
Line(s, q, b) ==
    /\ Rising(s)
    /\ \A i \in DOMAIN s : Before(s[i], b)
    /\ \A i \in DOMAIN q : q[i].key = "notification" =>
          /\ Rising(q[i].value)
          /\ \A k \in DOMAIN q[i].value :
                /\ Before(q[i].value[k], b)
                /\ \A j \in DOMAIN s : s[j] < q[i].value[k]
                /\ \A j \in DOMAIN q : i < j /\ q[j].key = "notification" =>
                      \A l \in DOMAIN q[j].value : q[i].value[k] < q[j].value[l]

Ordered(e) ==
    elected \subseteq {e} =>
        /\ \A i \in DOMAIN inbox[e] : inbox[e][i].key \notin News
        /\ \A u \in Tabs : Line(seen[u], inbox[u], tab[e])

CInv ==
    /\ Shape
    /\ \A u \in Tabs : Sane(u) /\ Shown(u)
    /\ \A e \in Tabs : Ordered(e)

-----------------------------------------------------------------------------

LEMMA PendingMember ==
    ASSUME NEW t
    PROVE  \A n : n \in Pending(t) <=> \E i \in DOMAIN inbox[t] :
                      inbox[t][i].key = "notification" /\ n \in ToSet(inbox[t][i].value)
  BY DEF Pending

LEMMA ToSetMember ==
    ASSUME NEW s, NEW n
    PROVE  n \in ToSet(s) <=> \E i \in DOMAIN s : s[i] = n
  BY DEF ToSet

(* The queue q has the news of r, at the same distance from each other. *)
SameNews(q, r) ==
    \E d \in {0, 1} :
        /\ \A i \in DOMAIN q : q[i].key \in News => i + d \in DOMAIN r /\ r[i + d] = q[i]
        /\ \A i \in DOMAIN r : r[i].key \in News => i - d \in DOMAIN q /\ q[i - d] = r[i]

LEMMA AppendedNews ==
    ASSUME NEW q \in Seq(Events), NEW v \in Seq(ChannelEvent \cup MasterEvent)
    PROVE  q \o v \in Seq(Events) /\ SameNews(q \o v, q)
  <1>1. ChannelEvent \cup MasterEvent \subseteq Events
    BY DEF Events
  <1>2. v \in Seq(Events)
    BY <1>1
  <1>3. q \o v \in Seq(Events)
    BY <1>2
  <1>4. \A i \in DOMAIN q : i + 0 \in DOMAIN (q \o v) /\ i - 0 \in DOMAIN (q \o v)
        /\ (q \o v)[i] = q[i]
    OBVIOUS
  <1>5. ASSUME NEW i \in DOMAIN (q \o v), (q \o v)[i].key \in News
        PROVE  i \in DOMAIN q
    <2>1. SUFFICES ASSUME i \notin DOMAIN q PROVE FALSE
      OBVIOUS
    <2>2. i - Len(q) \in DOMAIN v /\ (q \o v)[i] = v[i - Len(q)]
      BY <2>1
    <2>3. v[i - Len(q)] \in ChannelEvent \cup MasterEvent
      BY <2>2
    <2> QED
      BY <1>5, <2>2, <2>3 DEF ChannelEvent, MasterEvent, News
  <1>6. \A i \in DOMAIN (q \o v) : i \in Int /\ i + 0 = i
    OBVIOUS
  <1>7. \A i \in DOMAIN q : i \in Int /\ i + 0 = i /\ i - 0 = i
    OBVIOUS
  <1>8. SameNews(q \o v, q)
    BY <1>4, <1>5, <1>6, <1>7 DEF SameNews
  <1> QED
    BY <1>3, <1>8

LEMMA TailNews ==
    ASSUME NEW q \in Seq(Events), q # <<>>, Head(q).key \notin News
    PROVE  Tail(q) \in Seq(Events) /\ SameNews(Tail(q), q)
  <1>1. Tail(q) \in Seq(Events) /\ Len(Tail(q)) = Len(q) - 1 /\ Len(q) \in Nat /\ Len(q) > 0
    OBVIOUS
  <1>2. \A i \in DOMAIN Tail(q) : i \in Int /\ i + 1 \in DOMAIN q /\ q[i + 1] = Tail(q)[i]
    OBVIOUS
  <1>3. \A i \in DOMAIN q : i \in Int /\
           (i # 1 => i - 1 \in DOMAIN Tail(q) /\ Tail(q)[i - 1] = q[i])
    BY <1>1
  <1>4. q[1].key \notin News
    OBVIOUS
  <1>5. SameNews(Tail(q), q)
    BY <1>2, <1>3, <1>4 DEF SameNews
  <1> QED
    BY <1>1, <1>5

LEMMA SameNewsReflexive ==
    ASSUME NEW q \in Seq(Events)
    PROVE  SameNews(q, q)
  <1>1. \A i \in DOMAIN q : i \in Int /\ i + 0 = i /\ i - 0 = i
    OBVIOUS
  <1> QED
    BY <1>1 DEF SameNews

LEMMA NewsValues ==
    ASSUME NEW q \in Seq(Events)
    PROVE  \A i \in DOMAIN q : q[i].key = "notification" => q[i].value \in Seq(Nat)
  <1> SUFFICES ASSUME NEW i \in DOMAIN q, q[i].key = "notification"
                      PROVE q[i].value \in Seq(Nat)
    OBVIOUS
  <1>1. q[i] \in Events
    OBVIOUS
  <1> QED
    BY <1>1 DEF Events, MasterEvent, ChannelEvent, LastEvent, NewsEvent

LEMMA LineKept ==
    ASSUME NEW s \in Seq(Nat), NEW q \in Seq(Events), NEW r \in Seq(Events), NEW b, NEW c,
           Line(s, q, b), SameNews(r, q), \A n \in Int : Before(n, b) => Before(n, c)
    PROVE  Line(s, r, c)
  <1>1. PICK d \in {0, 1} : \A i \in DOMAIN r : r[i].key \in News => i + d \in DOMAIN q
        /\ q[i + d] = r[i]
    BY DEF SameNews
  <1>2. "notification" \in News
    BY DEF News
  <1>3. Rising(s) /\ \A i \in DOMAIN s : Before(s[i], c)
    <2>1. \A i \in DOMAIN s : s[i] \in Int
      OBVIOUS
    <2> QED
      BY <2>1 DEF Line
  <1>4. ASSUME NEW i \in DOMAIN r, r[i].key = "notification"
        PROVE  /\ Rising(r[i].value)
               /\ \A k \in DOMAIN r[i].value :
                     /\ Before(r[i].value[k], c)
                     /\ \A j \in DOMAIN s : s[j] < r[i].value[k]
                     /\ \A j \in DOMAIN r : i < j /\ r[j].key = "notification" =>
                           \A l \in DOMAIN r[j].value : r[i].value[k] < r[j].value[l]
    <2>1. i + d \in DOMAIN q /\ q[i + d] = r[i]
      BY <1>1, <1>2, <1>4
    <2>2. \A j \in DOMAIN r : r[j].key = "notification" => j + d \in DOMAIN q /\ q[j + d] = r[j]
      BY <1>1, <1>2
    <2>3. \A j \in DOMAIN r : i < j => i + d < j + d
      OBVIOUS
    <2>4. \A k \in DOMAIN r[i].value : r[i].value[k] \in Int
      <3>1. r[i].value \in Seq(Nat)
        BY <1>4, NewsValues
      <3> QED
        BY <3>1
    <2> QED
      BY <1>4, <2>1, <2>2, <2>3, <2>4 DEF Line
  <1> QED
    BY <1>3, <1>4 DEF Line

(* The news of a poll reaches another tab. *)
LEMMA LineGrows ==
    ASSUME NEW s \in Seq(Nat), NEW q \in Seq(Events), NEW v \in Seq(Events),
           NEW news \in Seq(Nat),
           NEW b, NEW c, Line(s, q, b), \A n \in Int : Before(n, b) => Before(n, c),
           Rising(news),
           \A k \in DOMAIN news : Before(news[k], c)
           /\ \A n \in Nat : Before(n, b) => n < news[k],
           \A i \in DOMAIN v : v[i].key = "notification" => v[i].value = news,
           \A i, j \in DOMAIN v : v[i].key = "notification"
           /\ v[j].key = "notification" => i = j
    PROVE  Line(s, q \o v, c)
  <1> DEFINE r == q \o v
  <1>1. \A i \in DOMAIN q : r[i] = q[i]
    OBVIOUS
  <1>2. \A i \in DOMAIN r : i \in DOMAIN q \/ (i - Len(q) \in DOMAIN v /\ r[i] = v[i - Len(q)])
    OBVIOUS
  <1>3. Rising(s) /\ \A i \in DOMAIN s : Before(s[i], c)
    BY DEF Line
  <1>4. \A i \in DOMAIN r, j \in DOMAIN r : i < j /\ j \in DOMAIN q => i \in DOMAIN q
    BY <1>2
  <1>5. \A i \in DOMAIN q : q[i].key = "notification" => q[i].value \in Seq(Nat)
    BY NewsValues
  <1>6. ASSUME NEW i \in DOMAIN r, r[i].key = "notification"
        PROVE  /\ Rising(r[i].value)
               /\ \A k \in DOMAIN r[i].value :
                     /\ Before(r[i].value[k], c)
                     /\ \A j \in DOMAIN s : s[j] < r[i].value[k]
                     /\ \A j \in DOMAIN r : i < j /\ r[j].key = "notification" =>
                           \A l \in DOMAIN r[j].value : r[i].value[k] < r[j].value[l]
    <2>1. CASE i \in DOMAIN q
      <3>1. r[i] = q[i] /\ q[i].value \in Seq(Nat)
        BY <1>1, <1>5, <1>6, <2>1
      <3> HIDE DEF r
      <3>2. /\ Rising(q[i].value)
            /\ \A k \in DOMAIN q[i].value :
                  /\ Before(q[i].value[k], b)
                  /\ \A j \in DOMAIN s : s[j] < q[i].value[k]
                  /\ \A j \in DOMAIN q : i < j /\ q[j].key = "notification" =>
                        \A l \in DOMAIN q[j].value : q[i].value[k] < q[j].value[l]
        BY <1>6, <2>1, <3>1 DEF Line
      <3>3. ASSUME NEW k \in DOMAIN q[i].value, NEW j \in DOMAIN r, i < j,
                   r[j].key = "notification",
                   NEW l \in DOMAIN r[j].value
            PROVE  q[i].value[k] < r[j].value[l]
        <4>1. CASE j \in DOMAIN q
          BY <1>1, <3>2, <3>3, <4>1
        <4>2. CASE j \notin DOMAIN q
          <5>1. r[j].value = news
            BY <1>2, <3>3, <4>2
          <5>2. q[i].value[k] \in Nat
            BY <3>1
          <5>3. Before(q[i].value[k], b)
            BY <3>2
          <5> QED
            BY <3>3, <5>1, <5>2, <5>3
        <4> QED
          BY <4>1, <4>2
      <3> QED
        BY <3>1, <3>2, <3>3
    <2>2. CASE i \notin DOMAIN q
      <3>1. i - Len(q) \in DOMAIN v /\ r[i] = v[i - Len(q)]
        BY <1>2, <2>2
      <3>2. r[i].value = news
        BY <1>6, <3>1
      <3>3. \A j \in DOMAIN r : i < j /\ r[j].key = "notification" => FALSE
        <4> SUFFICES ASSUME NEW j \in DOMAIN r, i < j, r[j].key = "notification" PROVE FALSE
          OBVIOUS
        <4>1. j \notin DOMAIN q
          BY <1>4, <2>2
        <4>2. j - Len(q) \in DOMAIN v /\ r[j] = v[j - Len(q)]
          BY <1>2, <4>1
        <4>3. i - Len(q) = j - Len(q)
          BY <1>6, <3>1, <4>2
        <4>4. i \in Int /\ j \in Int /\ Len(q) \in Int
          OBVIOUS
        <4> HIDE DEF r
        <4> QED
          BY <4>3, <4>4
      <3>4. \A j \in DOMAIN s : s[j] \in Nat /\ Before(s[j], b)
        BY DEF Line
      <3> HIDE DEF r
      <3> QED
        BY <3>2, <3>3, <3>4
    <2> QED
      BY <2>1, <2>2
  <1> HIDE DEF r
  <1>7. Line(s, r, c)
    BY <1>3, <1>6 DEF Line
  <1> QED
    BY <1>7 DEF r

(* The tab that polls triggers the news itself. *)
LEMMA RisingAppended ==
    ASSUME NEW s \in Seq(Nat), NEW v \in Seq(Nat), Rising(s), Rising(v),
           \A i \in DOMAIN s, k \in DOMAIN v : s[i] < v[k]
    PROVE  /\ s \o v \in Seq(Nat) /\ Rising(s \o v)
           /\ \A i \in DOMAIN (s \o v) : (\E j \in DOMAIN s : (s \o v)[i] = s[j])
                                         \/ (\E k \in DOMAIN v : (s \o v)[i] = v[k])
  <1> DEFINE r == s \o v
  <1>1. \A i \in DOMAIN s : i \in DOMAIN r /\ r[i] = s[i]
    OBVIOUS
  <1>2. \A i \in DOMAIN r : i \in Int /\
           (i \in DOMAIN s \/ (i > Len(s) /\ i - Len(s) \in DOMAIN v /\ r[i] = v[i - Len(s)]))
    OBVIOUS
  <1>3. \A i \in DOMAIN r, j \in DOMAIN s : i < j => i \in DOMAIN s
    BY <1>2
  <1>4. r \in Seq(Nat) /\ Len(s) \in Nat
    OBVIOUS
  <1> HIDE DEF r
  <1>5. \A i, j \in DOMAIN r : i < j => r[i] < r[j]
    <2> SUFFICES ASSUME NEW i \in DOMAIN r, NEW j \in DOMAIN r, i < j PROVE r[i] < r[j]
      OBVIOUS
    <2>1. CASE j \in DOMAIN s
      <3>1. i \in DOMAIN s
        BY <1>3, <2>1
      <3> QED
        BY <1>1, <2>1, <3>1 DEF Rising
    <2>2. CASE j \notin DOMAIN s
      <3>1. j - Len(s) \in DOMAIN v /\ r[j] = v[j - Len(s)] /\ j \in Int
        BY <1>2, <2>2
      <3>2. CASE i \in DOMAIN s
        BY <1>1, <3>1, <3>2
      <3>3. CASE i \notin DOMAIN s
        <4>1. i - Len(s) \in DOMAIN v /\ r[i] = v[i - Len(s)] /\ i \in Int
          BY <1>2, <3>3
        <4>2. i - Len(s) < j - Len(s)
          BY <1>4, <3>1, <4>1
        <4> QED
          BY <3>1, <4>1, <4>2 DEF Rising
      <3> QED
        BY <3>2, <3>3
    <2> QED
      BY <2>1, <2>2
  <1>6. \A i \in DOMAIN r : (\E j \in DOMAIN s : r[i] = s[j])
        \/ (\E k \in DOMAIN v : r[i] = v[k])
    BY <1>1, <1>2
  <1>7. Rising(r)
    BY <1>5 DEF Rising
  <1> QED
    BY <1>4, <1>6, <1>7 DEF r

(* A tab triggers the news at the head of its queue. *)
LEMMA LineHandled ==
    ASSUME NEW s \in Seq(Nat), NEW q \in Seq(Events), q # <<>>, Head(q).key = "notification",
           NEW b, Line(s, q, b)
    PROVE  LET v == Head(q).value IN s \o v \in Seq(Nat) /\ Line(s \o v, Tail(q), b)
  <1> DEFINE v == Head(q).value
             r == Tail(q)
             u == s \o v
  <1>1. q[1] = Head(q) /\ 1 \in DOMAIN q /\ Head(q) \in Events
    OBVIOUS
  <1>2. v \in Seq(Nat)
    BY <1>1 DEF Events, MasterEvent, ChannelEvent, LastEvent, NewsEvent
  <1>3. \A i \in DOMAIN r : i \in Int /\ 1 < i + 1 /\ i + 1 \in DOMAIN q /\ q[i + 1] = r[i]
    OBVIOUS
  <1> HIDE DEF r
  <1>4. Rising(v) /\ \A k \in DOMAIN v : Before(v[k], b) /\ \A j \in DOMAIN s : s[j] < v[k]
    BY <1>1 DEF Line
  <1> HIDE DEF v
  <1>5. Rising(s) /\ \A i \in DOMAIN s : Before(s[i], b)
    BY DEF Line
  <1>6. /\ u \in Seq(Nat) /\ Rising(u)
        /\ \A i \in DOMAIN u : (\E j \in DOMAIN s : u[i] = s[j])
           \/ (\E k \in DOMAIN v : u[i] = v[k])
    BY <1>2, <1>4, <1>5, RisingAppended
  <1> HIDE DEF u
  <1>7. \A i \in DOMAIN u : Before(u[i], b)
    BY <1>4, <1>5, <1>6
  <1>8. ASSUME NEW i \in DOMAIN r, r[i].key = "notification"
        PROVE  /\ Rising(r[i].value)
               /\ \A k \in DOMAIN r[i].value :
                     /\ Before(r[i].value[k], b)
                     /\ \A j \in DOMAIN u : u[j] < r[i].value[k]
                     /\ \A j \in DOMAIN r : i < j /\ r[j].key = "notification" =>
                           \A l \in DOMAIN r[j].value : r[i].value[k] < r[j].value[l]
    <2>1. i + 1 \in DOMAIN q /\ q[i + 1] = r[i] /\ 1 < i + 1
      BY <1>3
    <2>2. /\ Rising(r[i].value)
          /\ \A k \in DOMAIN r[i].value :
                /\ Before(r[i].value[k], b)
                /\ \A j \in DOMAIN s : s[j] < r[i].value[k]
                /\ \A j \in DOMAIN q : i + 1 < j /\ q[j].key = "notification" =>
                      \A l \in DOMAIN q[j].value : r[i].value[k] < q[j].value[l]
      BY <1>8, <2>1 DEF Line
    <2>3. \A k \in DOMAIN v, l \in DOMAIN r[i].value : v[k] < r[i].value[l]
      BY <1>1, <1>8, <2>1 DEF Line, v
    <2>4. \A j \in DOMAIN r : i < j => i + 1 < j + 1
      BY <1>3
    <2>5. \A j \in DOMAIN u, k \in DOMAIN r[i].value : u[j] < r[i].value[k]
      BY <1>6, <2>2, <2>3
    <2> QED
      BY <1>3, <2>2, <2>4, <2>5
  <1>9. Line(u, r, b)
    BY <1>6, <1>7, <1>8 DEF Line
  <1> QED
    BY <1>6, <1>9 DEF u, r, v

IsShared(w, x, news) ==
    /\ DOMAIN x = {"s", "b", "events"} /\ x.b = w.b /\ IsStore(x.s)
    /\ x.events \in Seq(LastEvent \cup NewsEvent)
    /\ news = <<>> => x = w
    /\ news # <<>> =>
          /\ x.s.last = w.b.last /\ x.s.notification = Held(news)
          /\ \/ w.s.notification = Held(news)
             \/ \E i \in DOMAIN x.events :
                   x.events[i] = [key |-> "notification", value |-> news]
    /\ \A i \in DOMAIN x.events :
          \/ x.events[i] = [key |-> "last", value |-> w.b.last]
          \/ x.events[i] = [key |-> "notification", value |-> news]
    /\ \A i, j \in DOMAIN x.events :
          x.events[i].key = "notification" /\ x.events[j].key = "notification" => i = j

LEMMA SharedNews ==
    ASSUME NEW w, DOMAIN w = {"s", "b", "events"}, IsStore(w.s), w.events = <<>>,
           w.b.last \in Nat,
           NEW news \in Seq(Nat)
    PROVE  IsShared(w, Shared(w, news), news)
  <1> DEFINE e == [key |-> "last", value |-> w.b.last]
             f == [key |-> "notification", value |-> news]
             y == SetItem(w, "last", w.b.last)
             h == Held(news)
             x == IF y.s.notification = h THEN y
                  ELSE [y EXCEPT !.s.notification = h, !.events = Append(@, f)]
  <1>1. e \in LastEvent /\ f \in NewsEvent /\ e.key = "last" /\ f.key = "notification"
    BY DEF LastEvent, NewsEvent
  <1>2. CASE news = <<>>
    <2>1. Shared(w, news) = w
      BY <1>2 DEF Shared
    <2>2. DOMAIN w.events = {} /\ w.events \in Seq(LastEvent \cup NewsEvent)
      OBVIOUS
    <2> QED
      BY <1>2, <2>1, <2>2 DEF IsShared
  <1>3. CASE news # <<>>
    <2>1. Shared(w, news) = x
      BY <1>3 DEF Shared
    <2> HIDE DEF h
    <2>2. /\ DOMAIN y = DOMAIN w /\ y.b = w.b /\ IsStore(y.s) /\ y.s.last = w.b.last
          /\ y.s.notification = w.s.notification /\ (y.events = <<>> \/ y.events = <<e>>)
      <3>1. CASE w.s.last = w.b.last
        BY <3>1 DEF SetItem
      <3>2. CASE w.s.last # w.b.last
        <4>1. y = [w EXCEPT !.s["last"] = w.b.last, !.events = Append(@, e)]
          BY <3>2 DEF SetItem
        <4> HIDE DEF e
        <4>2. y.events = Append(<<>>, e)
          BY <4>1
        <4>3. y.events = <<e>>
          BY <4>2
        <4> HIDE DEF y
        <4>4. DOMAIN y = DOMAIN w /\ y.b = w.b /\ y.s = [w.s EXCEPT !["last"] = w.b.last]
          BY <4>1
        <4> QED
          BY <4>3, <4>4 DEF IsStore
      <3> QED
        BY <3>1, <3>2
    <2> HIDE DEF y
    <2>3. /\ DOMAIN x = DOMAIN w /\ x.b = w.b /\ IsStore(x.s) /\ x.s.last = w.b.last
          /\ x.s.notification = h
          /\ \/ x.events = Append(y.events, f)
             \/ x.events = y.events /\ w.s.notification = h
      <3>1. CASE y.s.notification = h
        BY <2>2, <3>1
      <3>2. CASE y.s.notification # h
        <4>1. x = [y EXCEPT !.s.notification = h, !.events = Append(@, f)]
          BY <3>2
        <4> HIDE DEF f
        <4>2. DOMAIN x = DOMAIN w /\ x.b = w.b /\ x.s = [y.s EXCEPT !.notification = h]
              /\ x.events = Append(y.events, f)
          BY <2>2, <4>1
        <4> HIDE DEF x
        <4> QED
          BY <2>2, <4>2 DEF IsStore
      <3> QED
        BY <3>1, <3>2
    <2> HIDE DEF x
    <2>4. \/ x.events \in {<<>>, <<e>>, <<f>>}
          \/ /\ x.events \in Seq({e, f}) /\ DOMAIN x.events = {1, 2}
             /\ x.events[1] = e /\ x.events[2] = f
      <3> HIDE DEF e, f
      <3>1. Append(<<>>, f) = <<f>>
        OBVIOUS
      <3>2. \A z : z = Append(<<e>>, f) => /\ z \in Seq({e, f}) /\ DOMAIN z = {1, 2}
                                           /\ z[1] = e /\ z[2] = f
        <4>1. <<e>> \in Seq({e, f}) /\ Len(<<e>>) = 1
          OBVIOUS
        <4>2. Len(Append(<<e>>, f)) = 2
          BY <4>1
        <4>3. Append(<<e>>, f) \in Seq({e, f}) /\ Append(<<e>>, f)[1] = e
              /\ Append(<<e>>, f)[2] = f
          BY <4>1
        <4>4. DOMAIN Append(<<e>>, f) = {1, 2}
          BY <4>2, <4>3
        <4> QED
          BY <4>3, <4>4
      <3> QED
        BY <2>2, <2>3, <3>1, <3>2
    <2>5. /\ x.events \in Seq(LastEvent \cup NewsEvent)
          /\ \A i \in DOMAIN x.events : x.events[i] = e \/ x.events[i] = f
          /\ \A i, j \in DOMAIN x.events : x.events[i] = f /\ x.events[j] = f => i = j
      <3>1. e # f
        BY <1>1
      <3> HIDE DEF e, f
      <3>2. CASE x.events = <<>>
        BY <3>2
      <3>3. CASE x.events = <<e>>
        BY <1>1, <3>1, <3>3
      <3>4. CASE x.events = <<f>>
        BY <1>1, <3>1, <3>4
      <3>5. CASE /\ x.events \in Seq({e, f}) /\ DOMAIN x.events = {1, 2}
                 /\ x.events[1] = e /\ x.events[2] = f
        <4>1. x.events \in Seq(LastEvent \cup NewsEvent)
          BY <1>1, <3>5
        <4>2. DOMAIN x.events = {1, 2} /\ x.events[1] = e /\ x.events[2] = f
          BY <3>5
        <4> QED
          BY <3>1, <4>1, <4>2
      <3> QED
        BY <2>4, <3>2, <3>3, <3>4, <3>5
    <2>6. w.s.notification = h \/ \E i \in DOMAIN x.events : x.events[i] = f
      <3> HIDE DEF e, f
      <3>1. CASE x.events = Append(y.events, f)
        <4>1. y.events \in Seq({e})
          <5>1. <<>> \in Seq({e}) /\ <<e>> \in Seq({e})
            OBVIOUS
          <5> QED
            BY <2>2, <5>1
        <4>2. Len(x.events) = Len(y.events) + 1 /\ x.events[Len(x.events)] = f
              /\ x.events \in Seq({e, f})
          BY <3>1, <4>1
        <4>3. Len(x.events) \in DOMAIN x.events
          BY <4>1, <4>2
        <4> QED
          BY <4>2, <4>3
      <3> QED
        BY <2>3, <3>1
    <2>7. \A i \in DOMAIN x.events : x.events[i].key = "notification" => x.events[i] = f
      BY <1>1, <2>5
    <2> QED
      BY <1>3, <2>1, <2>3, <2>5, <2>6, <2>7 DEF IsShared, h
  <1> QED
    BY <1>2, <1>3

-----------------------------------------------------------------------------
(* The steps.                                                              *)

LEMMA SameNewsPending ==
    ASSUME NEW u, SameNews(inbox'[u], inbox[u])
    PROVE  Pending(u) \subseteq Pending(u)'
  <1> SUFFICES ASSUME NEW n \in Pending(u) PROVE n \in Pending(u)'
    OBVIOUS
  <1>1. PICK i \in DOMAIN inbox[u] : inbox[u][i].key = "notification"
        /\ n \in ToSet(inbox[u][i].value)
    BY PendingMember
  <1>2. PICK d \in {0, 1} : \A j \in DOMAIN inbox[u] : inbox[u][j].key \in News =>
                               j - d \in DOMAIN inbox'[u] /\ inbox'[u][j - d] = inbox[u][j]
    BY DEF SameNews
  <1>3. i - d \in DOMAIN inbox'[u] /\ inbox'[u][i - d] = inbox[u][i]
    BY <1>1, <1>2 DEF News
  <1> QED
    BY <1>1, <1>3 DEF Pending

CalmTab(b, c) ==
    /\ IsTab(c) /\ c.last = b.last /\ c.first = b.first
    /\ c.poll = "open" => c.from = c.last \/ (b.poll = "open" /\ c.from = b.from)
    /\ c.state \in {"loaded", "registered"} => b.state \in {"loaded", "registered"}

CalmStep ==
    /\ Shape'
    /\ store'.last = store.last /\ UNCHANGED <<seen, skipped, untold>>
    /\ elected \subseteq elected'
    /\ \A u \in Tabs :
          /\ CalmTab(tab[u], tab'[u])
          /\ tab'[u].master \/ Polls(tab'[u]) => u \in elected'
          /\ \/ inbox'[u] \in Seq(Events) /\ SameNews(inbox'[u], inbox[u])
             \/ inbox'[u] = <<>> /\ tab'[u].state = "gone"

LEMMA CalmStepKeeps ==
    ASSUME CInv, CalmStep
    PROVE  CInv'
  <1>1. ASSUME NEW u \in Tabs
        PROVE  Sane(u)' /\ Shown(u)'
    <2>1. /\ Sane(u) /\ Shown(u) /\ CalmTab(tab[u], tab'[u])
          /\ tab'[u].master \/ Polls(tab'[u]) => u \in elected'
          /\ \/ inbox'[u] \in Seq(Events) /\ SameNews(inbox'[u], inbox[u])
             \/ inbox'[u] = <<>> /\ tab'[u].state = "gone"
      BY <1>1 DEF CInv, CalmStep
    <2>2. store'.last = store.last /\ UNCHANGED <<seen, skipped, untold>>
      BY DEF CalmStep
    <2>3. inbox'[u] \in Seq(Events)
      <3>1. <<>> \in Seq(Events)
        OBVIOUS
      <3> QED
        BY <2>1, <3>1
    <2>4. \A i \in DOMAIN inbox'[u] : inbox'[u][i].key = "last" =>
          inbox'[u][i].value <= store'.last
      <3>1. CASE inbox'[u] = <<>>
        BY <3>1
      <3>2. CASE SameNews(inbox'[u], inbox[u])
        <4>1. \A i \in DOMAIN inbox'[u] : inbox'[u][i].key = "last" =>
                 \E j \in DOMAIN inbox[u] : inbox[u][j] = inbox'[u][i]
          BY <3>2 DEF SameNews, News
        <4> QED
          BY <2>1, <2>2, <4>1 DEF Sane
      <3> QED
        BY <2>1, <3>1, <3>2
    <2>5. Sane(u)'
      BY <2>1, <2>2, <2>3, <2>4 DEF Sane, CalmTab
    <2>6. ASSUME u \in Open', NEW n \in (tab'[u].first + 1) .. store'.last
          PROVE  n \in ToSet(seen'[u]) \cup Pending(u)' \cup skipped'[u] \cup untold'
      <3>1. u \in Open /\ n \in (tab[u].first + 1) .. store.last /\ tab'[u].state # "gone"
        BY <2>1, <2>2, <2>6 DEF Open, CalmTab
      <3>2. n \in ToSet(seen[u]) \cup Pending(u) \cup skipped[u] \cup untold
        BY <2>1, <3>1 DEF Shown
      <3>3. Pending(u) \subseteq Pending(u)'
        BY <2>1, <3>1, SameNewsPending
      <3> QED
        BY <2>2, <3>2, <3>3
    <2>7. Shown(u)'
      BY <2>6 DEF Shown
    <2> QED
      BY <2>5, <2>7
  <1>2. ASSUME NEW e \in Tabs
        PROVE  Ordered(e)'
    <2>1. SUFFICES ASSUME elected' \subseteq {e}
                   PROVE  /\ \A i \in DOMAIN inbox'[e] : inbox'[e][i].key \notin News
                          /\ \A u \in Tabs : Line(seen'[u], inbox'[u], tab'[e])
      BY DEF Ordered
    <2>2. elected \subseteq {e}
      BY <2>1 DEF CalmStep
    <2>3. /\ \A i \in DOMAIN inbox[e] : inbox[e][i].key \notin News
          /\ \A u \in Tabs : Line(seen[u], inbox[u], tab[e])
      BY <2>2 DEF CInv, Ordered
    <2>4. \A i \in DOMAIN inbox'[e] : inbox'[e][i].key \notin News
      <3>1. CASE inbox'[e] = <<>>
        BY <3>1
      <3>2. CASE SameNews(inbox'[e], inbox[e])
        BY <2>3, <3>2 DEF SameNews
      <3> QED
        BY <3>1, <3>2 DEF CalmStep
    <2>5. \A n \in Int : Before(n, tab[e]) => Before(n, tab'[e])
      <3>1. CalmTab(tab[e], tab'[e])
        BY DEF CalmStep
      <3> QED
        BY <3>1 DEF CalmTab, Before
    <2>6. ASSUME NEW u \in Tabs
          PROVE  Line(seen'[u], inbox'[u], tab'[e])
      <3>1. /\ Line(seen[u], inbox[u], tab[e]) /\ seen'[u] = seen[u]
            /\ seen[u] \in Seq(Nat) /\ inbox[u] \in Seq(Events)
        BY <2>3 DEF CalmStep, CInv, Sane
      <3>2. CASE inbox'[u] = <<>>
        <4>1. DOMAIN inbox'[u] = {}
          BY <3>2
        <4> QED
          BY <2>5, <3>1, <4>1 DEF Line
      <3>3. CASE inbox'[u] \in Seq(Events) /\ SameNews(inbox'[u], inbox[u])
        BY <2>5, <3>1, <3>3, LineKept
      <3> QED
        BY <2>6, <3>2, <3>3 DEF CalmStep
    <2> QED
      BY <2>4, <2>6
  <1> QED
    BY <1>1, <1>2 DEF CInv, CalmStep

SpentKept ==
    DOMAIN spent' = {"opened", "sent", "added", "failed", "late"} /\ spent'.sent = spent.sent

LEMMA SpendOther ==
    ASSUME Shape, NEW k, k # "sent", Spend(k)
    PROVE  SpentKept
  BY DEF Shape, Spend, SpentKept

(* A handler ends that shares no notifications. *)
LEMMA QuietStepKeeps ==
    ASSUME CInv, SpentKept, NEW t \in Open, NEW x, Quiet(World(t), x), NEW rest,
           \/ rest = inbox[t]
           \/ inbox[t] # <<>> /\ Head(inbox[t]).key \notin News /\ rest = Tail(inbox[t]),
           Commit(t, x, rest), seen' = seen, skipped' = skipped /\ untold' = untold
    PROVE  CInv'
  <1>1. /\ t \in Tabs /\ Shape /\ Sane(t)
        /\ store' = x.s /\ tab' = [tab EXCEPT ![t] = x.b]
        /\ elected' = (IF x.b.master THEN elected \cup {t} ELSE elected)
    BY DEF Open, CInv, Commit
  <1>2. /\ World(t).s = store /\ World(t).b = tab[t]
        /\ IsWorld(x) /\ x.s.last = store.last /\ x.s.notification = store.notification
        /\ QuietTab(tab[t], x.b)
    BY DEF Quiet, World
  <1>3. Shape'
    <2>1. DOMAIN inbox' = Tabs
      BY DEF Commit
    <2>2. elected' \subseteq Tabs /\ IsFiniteSet(elected')
      BY <1>1, FS_AddElement DEF Shape
    <2> QED
      BY <1>1, <1>2, <2>1, <2>2 DEF Shape, SpentKept, sent, IsWorld
  <1>4. elected \subseteq elected' /\ store'.last = store.last
    BY <1>1, <1>2
  <1>5. ASSUME NEW u \in Tabs
        PROVE  /\ CalmTab(tab[u], tab'[u])
               /\ tab'[u].master \/ Polls(tab'[u]) => u \in elected'
    <2>1. Sane(u)
      BY DEF CInv
    <2>2. CASE u = t
      <3>1. tab'[u] = x.b
        BY <1>1, <2>2 DEF Shape
      <3>2. tab[u].state \in {"loaded", "registered"}
        BY <2>2 DEF Open
      <3>3. CalmTab(tab[u], tab'[u])
        BY <1>2, <2>2, <3>1, <3>2 DEF CalmTab, QuietTab, IsWorld
      <3>4. tab'[u].master \/ Polls(tab'[u]) => u \in elected'
        BY <1>1, <1>2, <2>1, <2>2, <3>1 DEF QuietTab, Sane
      <3> QED
        BY <3>3, <3>4
    <2>3. CASE u # t
      <3>1. tab'[u] = tab[u]
        BY <1>1, <2>3
      <3> QED
        BY <1>4, <2>1, <3>1 DEF CalmTab, Sane, IsTab
    <2> QED
      BY <2>2, <2>3
  <1>6. ASSUME NEW u \in Tabs
        PROVE  inbox'[u] \in Seq(Events) /\ SameNews(inbox'[u], inbox[u])
    <2>1. inbox[u] \in Seq(Events)
      BY DEF CInv, Sane
    <2>2. inbox'[u] = IF u = t THEN rest ELSE IF u \in Open THEN inbox[u] \o x.events
          ELSE inbox[u]
      BY DEF Commit
    <2>3. CASE u = t
      BY <2>1, <2>2, <2>3, TailNews, SameNewsReflexive
    <2>4. CASE u # t /\ u \in Open
      <3>1. x.events \in Seq(ChannelEvent \cup MasterEvent)
        BY <1>2 DEF IsWorld
      <3> QED
        BY <2>1, <2>2, <2>4, <3>1, AppendedNews
    <2>5. CASE u # t /\ u \notin Open
      BY <2>1, <2>2, <2>5, SameNewsReflexive
    <2> QED
      BY <2>3, <2>4, <2>5
  <1>7. CalmStep
    BY <1>3, <1>4, <1>5, <1>6 DEF CalmStep
  <1> QED
    BY <1>7, CalmStepKeeps

LEMMA WorldIsWorld ==
    ASSUME CInv, NEW t \in Tabs
    PROVE  IsWorld(World(t)) /\ World(t).s = store /\ World(t).b = tab[t]
  <1>1. <<>> \in Seq(ChannelEvent)
    OBVIOUS
  <1> QED
    BY <1>1 DEF CInv, Shape, Sane, World, IsWorld

LEMMA StartKeeps ==
    ASSUME CInv, NEW t \in Tabs, Start(t)
    PROVE  CInv'
  <1>1. PICK tie \in BOOLEAN : Commit(t, StartPolling(World(t), t, tie), inbox[t])
    BY DEF Start
  <1>2. t \in Open /\ UNCHANGED <<seen, skipped, untold>> /\ SpentKept
    BY DEF Start, Open, SpentKept, CInv, Shape
  <1>3. Quiet(World(t), StartPolling(World(t), t, tie))
    BY WorldIsWorld, StartPollingQuiet
  <1> QED
    BY <1>1, <1>2, <1>3, QuietStepKeeps

LEMMA AddChannelKeeps ==
    ASSUME CInv, NEW t \in Tabs, NEW c \in Channels, AddChannel(t, c)
    PROVE  CInv'
  <1>1. PICK tie \in BOOLEAN : Commit(t, Subscribed(World(t), c, t, tie), inbox[t])
    BY DEF AddChannel
  <1>2. t \in Open /\ UNCHANGED <<seen, skipped, untold>> /\ SpentKept
    BY SpendOther DEF AddChannel, CInv
  <1>3. Quiet(World(t), Subscribed(World(t), c, t, tie))
    BY WorldIsWorld, SubscribedQuiet
  <1> QED
    BY <1>1, <1>2, <1>3, QuietStepKeeps

LEMMA HeartbeatKeeps ==
    ASSUME CInv, NEW t \in Tabs, Heartbeat(t)
    PROVE  CInv'
  <1>1. PICK tie \in BOOLEAN : Commit(t, Beat(World(t), t, tie), inbox[t])
    BY DEF Heartbeat
  <1>2. t \in Open /\ UNCHANGED <<seen, skipped, untold>> /\ SpentKept
    BY DEF Heartbeat, Open, SpentKept, CInv, Shape
  <1>3. Quiet(World(t), Beat(World(t), t, tie))
    BY WorldIsWorld, BeatQuiet
  <1> QED
    BY <1>1, <1>2, <1>3, QuietStepKeeps

(* What changes but tabs and their queues. *)
LEMMA ShapeKept ==
    ASSUME Shape, store' = store, elected' = elected, SpentKept, DOMAIN tab' = Tabs,
           DOMAIN inbox' = Tabs, DOMAIN seen' = Tabs, DOMAIN skipped' = Tabs
    PROVE  Shape'
  BY DEF Shape, SpentKept, sent

LEMMA PollFailsKeeps ==
    ASSUME CInv, NEW t \in Tabs, PollFails(t)
    PROVE  CInv'
  <1>1. /\ tab' = [tab EXCEPT ![t].poll = "retry"] /\ inbox' = inbox /\ seen' = seen
        /\ skipped' = skipped /\ untold' = untold
        /\ store' = store /\ elected' = elected /\ tab[t].poll = "open" /\ SpentKept
    BY SpendOther DEF PollFails, CInv
  <1>2. Shape'
    BY <1>1, ShapeKept DEF CInv, Shape
  <1>3. ASSUME NEW u \in Tabs
        PROVE  /\ CalmTab(tab[u], tab'[u])
               /\ tab'[u].master \/ Polls(tab'[u]) => u \in elected'
               /\ inbox'[u] \in Seq(Events) /\ SameNews(inbox'[u], inbox[u])
    <2>1. Sane(u) /\ DOMAIN tab = Tabs
      BY DEF CInv, Shape
    <2>2. tab'[u] = IF u = t THEN [tab[u] EXCEPT !.poll = "retry"] ELSE tab[u]
      BY <1>1, <2>1
    <2>3. CalmTab(tab[u], tab'[u]) /\ (tab'[u].master \/ Polls(tab'[u]) => u \in elected')
      BY <1>1, <2>1, <2>2 DEF CalmTab, Sane, IsTab, Polls
    <2> QED
      BY <1>1, <2>1, <2>3, SameNewsReflexive DEF Sane
  <1>4. CalmStep
    BY <1>1, <1>2, <1>3 DEF CalmStep
  <1> QED
    BY <1>4, CalmStepKeeps

LEMMA PollAgainKeeps ==
    ASSUME CInv, NEW t \in Tabs, PollAgain(t)
    PROVE  CInv'
  <1>1. /\ tab' = [tab EXCEPT ![t] = Poll(tab[t])] /\ inbox' = inbox /\ seen' = seen
        /\ skipped' = skipped /\ untold' = untold
        /\ store' = store /\ elected' = elected /\ tab[t].poll = "retry" /\ SpentKept
    BY DEF PollAgain, CInv, SpentKept, Shape
  <1>2. Shape'
    BY <1>1, ShapeKept DEF CInv, Shape
  <1>3. ASSUME NEW u \in Tabs
        PROVE  /\ CalmTab(tab[u], tab'[u])
               /\ tab'[u].master \/ Polls(tab'[u]) => u \in elected'
               /\ inbox'[u] \in Seq(Events) /\ SameNews(inbox'[u], inbox[u])
    <2>1. Sane(u) /\ DOMAIN tab = Tabs
      BY DEF CInv, Shape
    <2>2. tab'[u] = IF u = t THEN Poll(tab[u]) ELSE tab[u]
      BY <1>1, <2>1
    <2>3. CalmTab(tab[u], tab'[u]) /\ (tab'[u].master \/ Polls(tab'[u]) => u \in elected')
      <3>1. CASE u = t
        <4>1. IsTab(Poll(tab[u])) /\ QuietTab(tab[u], Poll(tab[u]))
              /\ Poll(tab[u]).master = tab[u].master
              /\ Poll(tab[u]).state = tab[u].state
          BY <2>1, PollQuiet DEF Sane, Poll, IsTab
        <4>2. tab[u].poll = "retry" /\ u \in elected
          BY <1>1, <2>1, <3>1 DEF Sane, Polls
        <4> QED
          BY <1>1, <2>2, <3>1, <4>1, <4>2 DEF CalmTab, QuietTab
      <3>2. CASE u # t
        BY <1>1, <2>1, <2>2, <3>2 DEF CalmTab, Sane, IsTab
      <3> QED
        BY <3>1, <3>2
    <2> QED
      BY <1>1, <2>1, <2>3, SameNewsReflexive DEF Sane
  <1>4. CalmStep
    BY <1>1, <1>2, <1>3 DEF CalmStep
  <1> QED
    BY <1>4, CalmStepKeeps

LEMMA CrashTabKeeps ==
    ASSUME CInv, NEW t \in Tabs, CrashTab(t)
    PROVE  CInv'
  <1>1. /\ tab' = [tab EXCEPT ![t].state = "gone", ![t].master = FALSE]
        /\ inbox' = [inbox EXCEPT ![t] = <<>>]
        /\ UNCHANGED <<seen, skipped, untold>>
        /\ store' = store /\ elected' = elected /\ SpentKept
    BY SpendOther DEF CrashTab, CInv
  <1>2. Shape'
    BY <1>1, ShapeKept DEF CInv, Shape
  <1>3. ASSUME NEW u \in Tabs
        PROVE  /\ CalmTab(tab[u], tab'[u])
               /\ tab'[u].master \/ Polls(tab'[u]) => u \in elected'
               /\ \/ inbox'[u] \in Seq(Events) /\ SameNews(inbox'[u], inbox[u])
                  \/ inbox'[u] = <<>> /\ tab'[u].state = "gone"
    <2>1. Sane(u) /\ DOMAIN tab = Tabs /\ DOMAIN inbox = Tabs
      BY DEF CInv, Shape
    <2>2. tab'[u] = IF u = t THEN [tab[u] EXCEPT !.state = "gone", !.master = FALSE] ELSE tab[u]
      BY <1>1, <2>1
    <2>3. CASE u = t
      BY <1>1, <2>1, <2>2, <2>3 DEF CalmTab, Sane, IsTab, Polls
    <2>4. CASE u # t
      <3>1. inbox'[u] = inbox[u] /\ tab'[u] = tab[u]
        BY <1>1, <2>1, <2>2, <2>4
      <3>2. SameNews(inbox[u], inbox[u])
        BY <2>1, SameNewsReflexive DEF Sane
      <3> QED
        BY <1>1, <2>1, <3>1, <3>2 DEF CalmTab, Sane, IsTab
    <2> QED
      BY <2>3, <2>4
  <1>4. CalmStep
    BY <1>1, <1>2, <1>3 DEF CalmStep
  <1> QED
    BY <1>4, CalmStepKeeps

LEMMA SendKeeps ==
    ASSUME CInv, NEW m \in Messages, Send(m)
    PROVE  CInv'
  <1>1. /\ tab' = tab /\ inbox' = inbox /\ UNCHANGED <<seen, skipped, untold>> /\ store' = store
        /\ elected' = elected /\ spent' = [spent EXCEPT !["sent"] = @ + 1]
    BY DEF Send, Spend
  <1>2. Shape'
    <2>1. DOMAIN spent' = DOMAIN spent /\ spent'.sent = spent.sent + 1
      BY <1>1 DEF CInv, Shape
    <2> QED
      BY <1>1, <2>1 DEF CInv, Shape, sent, IsStore
  <1>3. ASSUME NEW u \in Tabs
        PROVE  /\ CalmTab(tab[u], tab'[u])
               /\ tab'[u].master \/ Polls(tab'[u]) => u \in elected'
               /\ inbox'[u] \in Seq(Events) /\ SameNews(inbox'[u], inbox[u])
    <2>1. Sane(u)
      BY DEF CInv
    <2> QED
      BY <1>1, <2>1, SameNewsReflexive DEF Sane, CalmTab, IsTab
  <1>4. CalmStep
    BY <1>1, <1>2, <1>3 DEF CalmStep
  <1> QED
    BY <1>4, CalmStepKeeps

LEMMA TickKeeps ==
    ASSUME CInv, Tick
    PROVE  CInv'
  <1>1. /\ inbox' = inbox /\ UNCHANGED <<seen, skipped, untold>> /\ elected' = elected
        /\ SpentKept
        /\ tab' = [t \in Tabs |-> IF tab[t].timer = 0 THEN tab[t]
           ELSE [tab[t] EXCEPT !.timer = @ - 1]]
    BY SpendOther DEF Tick, CInv, SpentKept, Shape
  <1>2. Shape'
    <2>1. /\ DOMAIN store' = DOMAIN store /\ store'.channels = store.channels
          /\ store'.last = store.last
          /\ store'.notification = store.notification
      BY DEF Tick, CInv, Shape, IsStore
    <2> QED
      BY <1>1, <2>1 DEF CInv, Shape, IsStore, sent, SpentKept
  <1>3. store'.last = store.last
    BY DEF Tick, CInv, Shape, IsStore
  <1>4. ASSUME NEW u \in Tabs
        PROVE  /\ CalmTab(tab[u], tab'[u])
               /\ tab'[u].master \/ Polls(tab'[u]) => u \in elected'
               /\ inbox'[u] \in Seq(Events) /\ SameNews(inbox'[u], inbox[u])
    <2>1. Sane(u)
      BY DEF CInv
    <2>2. tab'[u] = IF tab[u].timer = 0 THEN tab[u] ELSE [tab[u] EXCEPT !.timer = @ - 1]
      BY <1>1
    <2> QED
      BY <1>1, <2>1, <2>2, SameNewsReflexive DEF Sane, CalmTab, IsTab, Polls
  <1>5. CalmStep
    BY <1>1, <1>2, <1>3, <1>4 DEF CalmStep
  <1> QED
    BY <1>5, CalmStepKeeps

LEMMA UnloadKeeps ==
    ASSUME CInv, NEW t \in Tabs, Unload(t)
    PROVE  CInv'
  <1> DEFINE w == [World(t) EXCEPT !.b.state = "gone", !.b.master = FALSE]
             left == IF tab[t].state = "registered"
                     THEN [w EXCEPT !.s.peers = WithoutPeer(@, t)] ELSE w
             e == [key |-> "master", value |-> 0]
             x == IF tab[t].master /\ store.master
                  THEN [left EXCEPT !.s.master = FALSE, !.events = Append(@, e)]
                  ELSE left
  <1>1. Commit(t, x, <<>>) /\ UNCHANGED <<seen, skipped, untold>> /\ spent' = spent /\ t \in Open
    BY DEF Unload
  <1>2. IsWorld(World(t)) /\ World(t).s = store /\ World(t).b = tab[t] /\ World(t).events = <<>>
    BY WorldIsWorld DEF World
  <1>3. /\ DOMAIN w = {"s", "b", "events"} /\ w.s = store /\ w.events = <<>>
        /\ w.b = [tab[t] EXCEPT !.state = "gone", !.master = FALSE]
    BY <1>2 DEF IsWorld
  <1>4. IsStore(store) /\ IsTab(tab[t])
    BY <1>2 DEF IsWorld
  <1> HIDE DEF w
  <1>5. /\ DOMAIN left = {"s", "b", "events"} /\ left.b = w.b /\ left.events = <<>>
        /\ IsStore(left.s) /\ left.s.last = store.last
        /\ left.s.notification = store.notification
    BY <1>3, <1>4 DEF IsStore
  <1> HIDE DEF left
  <1>6. e \in MasterEvent
    BY DEF MasterEvent
  <1> HIDE DEF e
  <1>7. Append(<<>>, e) \in Seq(ChannelEvent \cup MasterEvent)
        /\ <<>> \in Seq(ChannelEvent \cup MasterEvent)
    BY <1>6
  <1>8. /\ x.b = w.b /\ x.events \in Seq(ChannelEvent \cup MasterEvent)
        /\ IsStore(x.s) /\ x.s.last = store.last /\ x.s.notification = store.notification
    BY <1>5, <1>7 DEF IsStore
  <1> HIDE DEF x
  <1>9. /\ IsTab(x.b) /\ x.b.last = tab[t].last /\ x.b.first = tab[t].first /\ ~x.b.master
        /\ x.b.state = "gone" /\ x.b.poll = tab[t].poll /\ x.b.from = tab[t].from
        /\ x.b.active = tab[t].active
    BY <1>3, <1>4, <1>8 DEF IsTab
  <1>10. store' = x.s /\ tab' = [tab EXCEPT ![t] = x.b] /\ elected' = elected
    BY <1>1, <1>9 DEF Commit
  <1>11. Shape'
    <2>1. DOMAIN inbox' = Tabs
      BY <1>1 DEF Commit
    <2> QED
      BY <1>1, <1>8, <1>10, <2>1 DEF CInv, Shape, sent
  <1>12. ASSUME NEW u \in Tabs
         PROVE  /\ CalmTab(tab[u], tab'[u])
                /\ tab'[u].master \/ Polls(tab'[u]) => u \in elected'
                /\ \/ inbox'[u] \in Seq(Events) /\ SameNews(inbox'[u], inbox[u])
                   \/ inbox'[u] = <<>> /\ tab'[u].state = "gone"
    <2>1. Sane(u) /\ DOMAIN tab = Tabs
      BY DEF CInv, Shape
    <2>2. inbox'[u] = IF u = t THEN <<>> ELSE IF u \in Open THEN inbox[u] \o x.events
          ELSE inbox[u]
      BY <1>1 DEF Commit
    <2>3. CASE u = t
      <3>1. tab'[u] = x.b /\ inbox'[u] = <<>>
        BY <1>10, <2>1, <2>2, <2>3
      <3>2. tab[t].state \in {"loaded", "registered"}
        BY <1>1 DEF Open
      <3> QED
        BY <1>9, <1>10, <2>1, <2>3, <3>1, <3>2 DEF CalmTab, Sane, Polls
    <2>4. CASE u # t
      <3>1. tab'[u] = tab[u]
        BY <1>10, <2>1, <2>4
      <3>2. CalmTab(tab[u], tab'[u]) /\ (tab'[u].master \/ Polls(tab'[u]) => u \in elected')
        BY <1>10, <2>1, <3>1 DEF CalmTab, Sane, IsTab
      <3>3. inbox[u] \in Seq(Events)
        BY <2>1 DEF Sane
      <3>4. inbox'[u] \in Seq(Events) /\ SameNews(inbox'[u], inbox[u])
        <4>1. CASE u \in Open
          BY <1>8, <2>2, <2>4, <3>3, <4>1, AppendedNews
        <4>2. CASE u \notin Open
          BY <2>2, <2>4, <3>3, <4>2, SameNewsReflexive
        <4> QED
          BY <4>1, <4>2
      <3> QED
        BY <3>2, <3>4
    <2> QED
      BY <2>3, <2>4
  <1>13. store'.last = store.last
    BY <1>8, <1>10
  <1>14. CalmStep
    BY <1>1, <1>10, <1>11, <1>12, <1>13 DEF CalmStep
  <1> QED
    BY <1>14, CalmStepKeeps

LEMMA LoadKeeps ==
    ASSUME CInv, NEW t \in Tabs, Load(t)
    PROVE  CInv'
  <1>1. /\ tab' = [tab EXCEPT ![t].state = "loaded", ![t].last = store.last,
           ![t].first = store.last]
        /\ inbox' = inbox /\ UNCHANGED <<seen, skipped, untold>> /\ store' = store
        /\ elected' = elected
        /\ SpentKept
    BY SpendOther DEF Load, CInv
  <1>2. Shape'
    BY <1>1, ShapeKept DEF CInv, Shape
  <1>3. \A u \in Tabs : tab'[u] = IF u = t
                                  THEN [tab[u] EXCEPT !.state = "loaded", !.last = store.last,
                                  !.first = store.last]
                                  ELSE tab[u]
    BY <1>1 DEF CInv, Shape
  <1>4. store.last \in Nat
    BY DEF CInv, Shape, IsStore
  <1>5. ASSUME NEW u \in Tabs
        PROVE  Sane(u)' /\ Shown(u)' /\ \A n \in Int : Before(n, tab[u]) => Before(n, tab'[u])
    <2>1. Sane(u) /\ Shown(u)
      BY DEF CInv
    <2>2. CASE u = t
      <3>1. /\ IsTab(tab'[u]) /\ tab'[u].last = store.last /\ tab'[u].first = store.last
            /\ tab'[u].poll = tab[u].poll /\ tab'[u].from = tab[u].from
            /\ tab'[u].master = tab[u].master
            /\ tab'[u].active = tab[u].active
        BY <1>3, <1>4, <2>1, <2>2 DEF Sane, IsTab
      <3>2. Sane(u)'
        BY <1>1, <1>4, <2>1, <3>1 DEF Sane, Polls
      <3>3. \A n \in (tab'[u].first + 1) .. store'.last : FALSE
        BY <1>1, <1>4, <3>1
      <3>4. Shown(u)'
        BY <3>3 DEF Shown
      <3>5. \A n \in Int : Before(n, tab[u]) => Before(n, tab'[u])
        BY <1>4, <2>1, <3>1 DEF Sane, IsTab, Before
      <3> QED
        BY <3>2, <3>4, <3>5
    <2>3. CASE u # t
      <3>1. tab'[u] = tab[u]
        BY <1>3, <2>3
      <3>2. Sane(u)'
        BY <1>1, <2>1, <3>1 DEF Sane
      <3>3. Shown(u)'
        BY <1>1, <2>1, <3>1 DEF Shown, Open, Pending
      <3> QED
        BY <3>1, <3>2, <3>3
    <2> QED
      BY <2>2, <2>3
  <1>6. ASSUME NEW e \in Tabs
        PROVE  Ordered(e)'
    <2>1. ASSUME elected \subseteq {e}, NEW u \in Tabs
          PROVE  Line(seen[u], inbox[u], tab'[e])
      <3>1. Line(seen[u], inbox[u], tab[e]) /\ seen[u] \in Seq(Nat) /\ inbox[u] \in Seq(Events)
        BY <2>1 DEF CInv, Ordered, Sane
      <3>2. \A n \in Int : Before(n, tab[e]) => Before(n, tab'[e])
        BY <1>5
      <3>3. \A i \in DOMAIN inbox[u] : inbox[u][i].key = "notification" =>
            inbox[u][i].value \in Seq(Nat)
        BY <3>1, NewsValues
      <3>4. \A i \in DOMAIN seen[u] : seen[u][i] \in Int
        BY <3>1
      <3>5. \A i \in DOMAIN inbox[u] : inbox[u][i].key = "notification" =>
               \A k \in DOMAIN inbox[u][i].value : inbox[u][i].value[k] \in Int
        BY <3>3
      <3> QED
        BY <3>1, <3>2, <3>4, <3>5 DEF Line
    <2> QED
      BY <1>1, <2>1 DEF CInv, Ordered
  <1> QED
    BY <1>2, <1>5, <1>6 DEF CInv

(* Without its head, a queue that starts with no notification. *)
LEMMA LineTail ==
    ASSUME NEW s, NEW q \in Seq(Events), q # <<>>, Head(q).key # "notification",
           NEW b, Line(s, q, b)
    PROVE  Line(s, Tail(q), b)
  <1> DEFINE r == Tail(q)
  <1>1. \A i \in DOMAIN r : i \in Int /\ i + 1 \in DOMAIN q /\ q[i + 1] = r[i]
    OBVIOUS
  <1> HIDE DEF r
  <1>2. \A i \in DOMAIN r, j \in DOMAIN r : i < j => i + 1 < j + 1
    BY <1>1
  <1>3. Line(s, r, b)
    BY <1>1, <1>2 DEF Line
  <1> QED
    BY <1>3 DEF r

(* A tab takes an event from its queue. *)
LEMMA TakenPending ==
    ASSUME NEW t, inbox[t] \in Seq(Events), inbox[t] # <<>>, inbox'[t] = Tail(inbox[t])
    PROVE  \A n \in Pending(t) : n \in Pending(t)' \/ (Head(inbox[t]).key = "notification"
                                                       /\ n \in ToSet(Head(inbox[t]).value))
  <1> SUFFICES ASSUME NEW n \in Pending(t)
               PROVE  n \in Pending(t)' \/ (Head(inbox[t]).key = "notification"
                                            /\ n \in ToSet(Head(inbox[t]).value))
    OBVIOUS
  <1>1. PICK i \in DOMAIN inbox[t] : inbox[t][i].key = "notification"
        /\ n \in ToSet(inbox[t][i].value)
    BY PendingMember
  <1>2. CASE i = 1
    BY <1>1, <1>2
  <1>3. CASE i # 1
    <2>1. i - 1 \in DOMAIN inbox'[t] /\ inbox'[t][i - 1] = inbox[t][i]
      BY <1>3
    <2> QED
      BY <1>1, <2>1 DEF Pending
  <1> QED
    BY <1>2, <1>3

LEMMA LastKeeps ==
    ASSUME CInv, NEW t \in Open, inbox[t] # <<>>, Head(inbox[t]).key = "last", OnStorage(t)
    PROVE  CInv'
  <1> DEFINE e == Head(inbox[t])
             x == [World(t) EXCEPT !.b.last = e.value]
  <1>1. t \in Tabs /\ Sane(t) /\ e = inbox[t][1] /\ 1 \in DOMAIN inbox[t] /\ e \in Events
    BY DEF Open, CInv, Sane
  <1>2. /\ Commit(t, x, Tail(inbox[t])) /\ UNCHANGED <<seen, skipped, untold>> /\ SpentKept
    BY DEF OnStorage, CInv, Shape, SpentKept
  <1>3. e.value \in Nat /\ e.value <= store.last
    BY <1>1 DEF Sane, Events, MasterEvent, ChannelEvent, LastEvent, NewsEvent
  <1> HIDE DEF e
  <1>4. IsWorld(World(t)) /\ World(t).s = store /\ World(t).b = tab[t] /\ World(t).events = <<>>
    BY <1>1, WorldIsWorld DEF World
  <1>5. x.s = store /\ x.b = [tab[t] EXCEPT !.last = e.value] /\ x.events = <<>>
    BY <1>4 DEF IsWorld
  <1> HIDE DEF x
  <1>6. IsTab(x.b) /\ x.b = [tab[t] EXCEPT !.last = e.value]
    BY <1>1, <1>3, <1>5 DEF Sane, IsTab
  <1>7. elected' = elected /\ store' = store /\ tab' = [tab EXCEPT ![t] = x.b]
    BY <1>1, <1>2, <1>5, <1>6 DEF Commit, Sane, IsTab
  <1>8. ASSUME NEW u \in Tabs
        PROVE  inbox'[u] = IF u = t THEN Tail(inbox[t]) ELSE inbox[u]
    <2>1. inbox[u] \in Seq(Events)
      BY DEF CInv, Sane
    <2>2. inbox[u] \o <<>> = inbox[u]
      BY <2>1
    <2> QED
      BY <1>2, <1>5, <2>2 DEF Commit
  <1>9. Shape'
    BY <1>2, <1>7, ShapeKept DEF CInv, Shape, Commit
  <1>10. ASSUME NEW u \in Tabs
         PROVE  Sane(u)' /\ Shown(u)'
    <2>1. Sane(u) /\ Shown(u) /\ DOMAIN tab = Tabs
      BY DEF CInv, Shape
    <2>2. CASE u = t
      <3>1. tab'[u] = x.b /\ inbox'[u] = Tail(inbox[u])
        BY <1>7, <1>8, <2>1, <2>2
      <3>2. inbox[u] \in Seq(Events) /\ inbox[u] # <<>>
        BY <2>1, <2>2 DEF Sane
      <3>3. \A i \in DOMAIN inbox'[u] : i + 1 \in DOMAIN inbox[u]
            /\ inbox[u][i + 1] = inbox'[u][i]
        BY <3>1, <3>2
      <3>4. inbox'[u] \in Seq(Events)
        BY <3>1, <3>2
      <3>5. /\ tab'[u].last = e.value /\ tab'[u].first = tab[u].first
            /\ tab'[u].state = tab[u].state
            /\ tab'[u].poll = tab[u].poll /\ tab'[u].from = tab[u].from
            /\ tab'[u].master = tab[u].master
            /\ tab'[u].active = tab[u].active
        BY <1>6, <2>1, <2>2, <3>1 DEF Sane, IsTab
      <3>6. Sane(u)'
        BY <1>2, <1>3, <1>6, <1>7, <2>1, <3>1, <3>3, <3>4, <3>5 DEF Sane, Polls
      <3>7. Pending(u) \subseteq Pending(u)'
        BY <2>2, <3>1, <3>2, TakenPending
      <3>8. Shown(u)'
        BY <1>2, <1>7, <2>1, <3>5, <3>7 DEF Shown, Open
      <3> QED
        BY <3>6, <3>8
    <2>3. CASE u # t
      <3>1. tab'[u] = tab[u] /\ inbox'[u] = inbox[u]
        BY <1>7, <1>8, <2>1, <2>3
      <3>2. Pending(u)' = Pending(u)
        BY <3>1 DEF Pending
      <3> QED
        BY <1>2, <1>7, <2>1, <3>1, <3>2 DEF Sane, Shown, Open
    <2> QED
      BY <2>2, <2>3
  <1>11. ASSUME NEW f \in Tabs
         PROVE  Ordered(f)'
    <2>1. SUFFICES ASSUME elected \subseteq {f}
                   PROVE  /\ \A i \in DOMAIN inbox'[f] : inbox'[f][i].key \notin News
                          /\ \A u \in Tabs : Line(seen[u], inbox'[u], tab'[f])
      BY <1>2, <1>7 DEF Ordered
    <2>2. /\ \A i \in DOMAIN inbox[f] : inbox[f][i].key \notin News
          /\ \A u \in Tabs : Line(seen[u], inbox[u], tab[f])
      BY <2>1 DEF CInv, Ordered
    <2>3. f # t
      <3>1. inbox[t][1].key \in News
        BY <1>1 DEF News, e
      <3> QED
        BY <1>1, <2>2, <3>1
    <2>4. tab'[f] = tab[f] /\ inbox'[f] = inbox[f]
      BY <1>7, <1>8, <2>3 DEF CInv, Shape
    <2>5. ASSUME NEW u \in Tabs PROVE Line(seen[u], inbox'[u], tab[f])
      <3>1. CASE u = t
        BY <1>1, <1>8, <2>2, <3>1, LineTail DEF Sane
      <3>2. CASE u # t
        BY <1>8, <2>2, <3>2
      <3> QED
        BY <3>1, <3>2
    <2> QED
      BY <2>2, <2>4, <2>5
  <1> QED
    BY <1>9, <1>10, <1>11 DEF CInv

LEMMA NotificationKeeps ==
    ASSUME CInv, NEW t \in Open, inbox[t] # <<>>, Head(inbox[t]).key = "notification",
           OnStorage(t)
    PROVE  CInv'
  <1> DEFINE v == Head(inbox[t]).value
  <1>1. t \in Tabs /\ Sane(t) /\ Head(inbox[t]) = inbox[t][1] /\ 1 \in DOMAIN inbox[t]
        /\ inbox[t] \in Seq(Events)
    BY DEF Open, CInv, Sane
  <1>2. /\ Commit(t, World(t), Tail(inbox[t])) /\ SpentKept /\ untold' = untold
        /\ IF World(t).b.master
           THEN skipped' = [skipped EXCEPT ![t] = @ \cup ToSet(v)] /\ seen' = seen
           ELSE seen' = [seen EXCEPT ![t] = @ \o v] /\ skipped' = skipped
    BY DEF OnStorage, CInv, Shape, SpentKept
  <1>3. v \in Seq(Nat)
    BY <1>1 DEF Events, MasterEvent, ChannelEvent, LastEvent, NewsEvent
  <1> HIDE DEF v
  <1>4. World(t).s = store /\ World(t).b = tab[t] /\ World(t).events = <<>>
    BY <1>1, WorldIsWorld DEF World
  <1>5. /\ store' = store /\ elected' = elected /\ DOMAIN tab' = Tabs
        /\ \A u \in Tabs : tab'[u] = tab[u]
    BY <1>1, <1>2, <1>4 DEF Commit, CInv, Shape, Sane
  <1>6. ASSUME NEW u \in Tabs
        PROVE  inbox'[u] = IF u = t THEN Tail(inbox[t]) ELSE inbox[u]
    <2>1. inbox[u] \in Seq(Events)
      BY DEF CInv, Sane
    <2>2. inbox[u] \o <<>> = inbox[u]
      BY <2>1
    <2> QED
      BY <1>2, <1>4, <2>2 DEF Commit
  <1>7. Shape'
    <2>1. DOMAIN inbox' = Tabs
      BY <1>2 DEF Commit
    <2>2. DOMAIN seen' = Tabs /\ DOMAIN skipped' = Tabs
      BY <1>2 DEF CInv, Shape
    <2> QED
      BY <1>2, <1>5, <2>1, <2>2, ShapeKept DEF CInv, Shape
  <1>8. ASSUME NEW u \in Tabs
        PROVE  Sane(u)' /\ Shown(u)'
    <2>1. Sane(u) /\ Shown(u) /\ DOMAIN seen = Tabs /\ DOMAIN skipped = Tabs
      BY DEF CInv, Shape
    <2>2. CASE u = t
      <3>1. inbox'[u] = Tail(inbox[u]) /\ inbox[u] \in Seq(Events) /\ inbox[u] # <<>>
        BY <1>6, <2>1, <2>2 DEF Sane
      <3>2. \A i \in DOMAIN inbox'[u] : i + 1 \in DOMAIN inbox[u]
            /\ inbox[u][i + 1] = inbox'[u][i]
        BY <3>1
      <3>3. inbox'[u] \in Seq(Events)
        BY <3>1
      <3>4. seen[u] \in Seq(Nat) /\ seen[u] \o v \in Seq(Nat)
        BY <1>3, <2>1 DEF Sane
      <3>5. \/ seen'[u] = seen[u] /\ skipped'[u] = skipped[u] \cup ToSet(v)
            \/ seen'[u] = seen[u] \o v /\ skipped'[u] = skipped[u]
        BY <1>2, <2>1, <2>2
      <3>6. /\ seen'[u] \in Seq(Nat)
            /\ ToSet(seen[u]) \cup skipped[u] \cup ToSet(v)
                  \subseteq ToSet(seen'[u]) \cup skipped'[u]
        <4>1. ToSet(seen[u]) \cup ToSet(v) \subseteq ToSet(seen[u] \o v)
          <5>1. \A i \in DOMAIN seen[u] : i \in DOMAIN (seen[u] \o v)
                /\ (seen[u] \o v)[i] = seen[u][i]
            BY <1>3, <3>4
          <5>2. \A i \in DOMAIN v : i + Len(seen[u]) \in DOMAIN (seen[u] \o v)
                                    /\ (seen[u] \o v)[i + Len(seen[u])] = v[i]
            BY <1>3, <3>4
          <5> DEFINE z == seen[u] \o v
          <5> HIDE DEF z
          <5>3. ToSet(seen[u]) \subseteq ToSet(z)
            BY <5>1 DEF ToSet, z
          <5>4. ToSet(v) \subseteq ToSet(z)
            BY <5>2 DEF ToSet, z
          <5> QED
            BY <5>3, <5>4 DEF z
        <4> QED
          BY <3>4, <3>5, <4>1
      <3>7. Sane(u)'
        BY <1>2, <1>5, <2>1, <3>2, <3>3, <3>6 DEF Sane
      <3>8. Pending(u) \subseteq Pending(u)' \cup ToSet(v)
        BY <2>2, <3>1, TakenPending DEF v
      <3>9. Shown(u)'
        BY <1>2, <1>5, <2>1, <3>6, <3>8 DEF Shown, Open
      <3> QED
        BY <3>7, <3>9
    <2>3. CASE u # t
      <3>1. inbox'[u] = inbox[u] /\ seen'[u] = seen[u] /\ skipped'[u] = skipped[u]
        BY <1>2, <1>6, <2>1, <2>3
      <3>2. Pending(u)' = Pending(u)
        BY <3>1 DEF Pending
      <3> QED
        BY <1>2, <1>5, <2>1, <3>1, <3>2 DEF Sane, Shown, Open
    <2> QED
      BY <2>2, <2>3
  <1>9. ASSUME NEW f \in Tabs
        PROVE  Ordered(f)'
    <2>1. SUFFICES ASSUME elected \subseteq {f}
                   PROVE  /\ \A i \in DOMAIN inbox'[f] : inbox'[f][i].key \notin News
                          /\ \A u \in Tabs : Line(seen'[u], inbox'[u], tab[f])
      BY <1>5 DEF Ordered
    <2>2. /\ \A i \in DOMAIN inbox[f] : inbox[f][i].key \notin News
          /\ \A u \in Tabs : Line(seen[u], inbox[u], tab[f])
      BY <2>1 DEF CInv, Ordered
    <2>3. f # t
      <3>1. inbox[t][1].key \in News
        BY <1>1 DEF News
      <3> QED
        BY <1>1, <2>2, <3>1
    <2>4. ~tab[t].master
      BY <1>1, <2>1, <2>3 DEF Sane
    <2>5. ASSUME NEW u \in Tabs PROVE Line(seen'[u], inbox'[u], tab[f])
      <3>1. seen' = [seen EXCEPT ![t] = @ \o v] /\ DOMAIN seen = Tabs
        BY <1>2, <1>4, <2>4 DEF CInv, Shape
      <3>2. CASE u = t
        <4>1. seen'[u] = seen[u] \o v /\ inbox'[u] = Tail(inbox[u]) /\ seen[u] \in Seq(Nat)
          BY <1>1, <1>6, <3>1, <3>2 DEF Sane
        <4> QED
          BY <1>1, <2>2, <3>2, <4>1, LineHandled DEF v
      <3>3. CASE u # t
        BY <1>6, <2>2, <3>1, <3>3
      <3> QED
        BY <3>2, <3>3
    <2>6. inbox'[f] = inbox[f]
      BY <1>6, <2>3
    <2> QED
      BY <2>2, <2>5, <2>6
  <1> QED
    BY <1>7, <1>8, <1>9 DEF CInv

LEMMA OnStorageKeeps ==
    ASSUME CInv, NEW t \in Tabs, OnStorage(t)
    PROVE  CInv'
  <1> DEFINE e == Head(inbox[t])
             w == World(t)
  <1>1. /\ t \in Open /\ inbox[t] # <<>> /\ inbox[t] \in Seq(Events) /\ e \in Events
        /\ SpentKept
    BY DEF OnStorage, CInv, Sane, Shape, SpentKept
  <1>2. e.key \in {"master", "last", "notification", "channels"}
    BY <1>1 DEF Events, MasterEvent, ChannelEvent, LastEvent, NewsEvent
  <1>3. IsWorld(w)
    BY WorldIsWorld
  <1>4. CASE e.key = "master"
    <2>1. PICK h : /\ Commit(t, h, Tail(inbox[t]))
                   /\ h = w \/ \E tie \in BOOLEAN : h = StartElection(w, t, tie)
      BY <1>4 DEF OnStorage
    <2>2. Quiet(w, h)
      BY <1>3, <2>1, StartElectionQuiet, QuietReflexive
    <2>3. UNCHANGED <<seen, skipped, untold>> /\ e.key \notin News
      BY <1>4 DEF OnStorage, News
    <2> QED
      BY <1>1, <2>1, <2>2, <2>3, QuietStepKeeps
  <1>5. CASE e.key = "channels"
    <2>1. PICK h \in Adopted(w, e.value, t) : Commit(t, h, Tail(inbox[t]))
      BY <1>5 DEF OnStorage
    <2>2. e.value \in Seq(Channels)
      BY <1>1, <1>5 DEF Events, MasterEvent, ChannelEvent, LastEvent, NewsEvent
    <2>3. Quiet(w, h)
      BY <1>3, <2>1, <2>2, AdoptedQuiet
    <2>4. UNCHANGED <<seen, skipped, untold>> /\ e.key \notin News
      BY <1>5 DEF OnStorage, News
    <2> QED
      BY <1>1, <2>1, <2>3, <2>4, QuietStepKeeps
  <1> QED
    BY <1>1, <1>2, <1>4, <1>5, LastKeeps, NotificationKeeps

IsConcatenation(r, p, q) ==
    /\ \A i \in DOMAIN p : i \in DOMAIN r /\ r[i] = p[i]
    /\ \A i \in DOMAIN q : i + Len(p) \in DOMAIN r /\ r[i + Len(p)] = q[i]
    /\ \A i \in DOMAIN r :
          \/ i \in DOMAIN p /\ r[i] = p[i]
          \/ i - Len(p) \in DOMAIN q /\ r[i] = q[i - Len(p)]

LEMMA Concatenation ==
    ASSUME NEW S, NEW p \in Seq(S), NEW q \in Seq(S)
    PROVE  p \o q \in Seq(S) /\ IsConcatenation(p \o q, p, q)
  BY DEF IsConcatenation

(* What the server answers. *)
LEMMA Answered ==
    ASSUME NEW from \in Nat, NEW n \in Nat, from <= n
    PROVE  LET answer == [i \in 1 .. n - from |-> from + i]
           IN  /\ answer \in Seq(Nat) /\ DOMAIN answer = 1 .. n - from
               /\ \A i \in DOMAIN answer : answer[i] = from + i
               /\ answer = <<>> <=> n = from
  <1> DEFINE answer == [i \in 1 .. n - from |-> from + i]
  <1>1. n - from \in Nat /\ \A i \in 1 .. n - from : from + i \in Nat
    OBVIOUS
  <1>2. answer \in Seq(Nat) /\ Len(answer) = n - from
    BY <1>1
  <1> QED
    BY <1>2

LEMMA OnPollKeeps ==
    ASSUME CInv, NEW t \in Tabs, OnPoll(t)
    PROVE  CInv'
  <1> DEFINE b == tab[t]
             w == World(t)
             news == [i \in 1 .. sent - w.b.from |-> w.b.from + i]
             noted == IF news # <<>> /\ sent > w.b.last THEN [w EXCEPT !.b.last = sent] ELSE w
             y == Shared(noted, news)
             x == [y EXCEPT !.b = Poll(@)]
             c == Poll(noted.b)
  <1>1. /\ t \in Open /\ b.poll = "open" /\ Commit(t, x, inbox[t])
        /\ seen' = [seen EXCEPT ![t] = @ \o news] /\ skipped' = skipped /\ SpentKept
        /\ untold' = IF store.notification = Held(news) THEN untold \cup ToSet(news) ELSE untold
    BY DEF OnPoll, CInv, Shape, SpentKept, World
  <1>2. Shape /\ Sane(t) /\ t \in elected
    BY <1>1 DEF CInv, Sane, Polls
  <1>3. /\ w.s = store /\ w.b = b /\ w.events = <<>> /\ DOMAIN w = {"s", "b", "events"}
        /\ IsStore(store) /\ IsTab(b)
    BY WorldIsWorld DEF World, IsWorld
  <1>4. /\ sent \in Nat /\ store.last \in Nat /\ b.from \in Nat /\ b.last \in Nat
        /\ b.from <= store.last /\ b.last <= store.last /\ store.last <= sent
    BY <1>1, <1>2 DEF Shape, Sane, IsStore, IsTab, sent
  <1>5. /\ news \in Seq(Nat) /\ DOMAIN news = 1 .. sent - b.from
        /\ \A i \in DOMAIN news : news[i] = b.from + i
        /\ news = <<>> <=> sent = b.from
    <2>1. news = [i \in 1 .. sent - b.from |-> b.from + i]
      BY <1>3
    <2> HIDE DEF b, news
    <2>2. LET answer == [i \in 1 .. sent - b.from |-> b.from + i]
          IN  /\ answer \in Seq(Nat) /\ DOMAIN answer = 1 .. sent - b.from
              /\ \A i \in DOMAIN answer : answer[i] = b.from + i
              /\ answer = <<>> <=> sent = b.from
      <3>1. b.from \in Nat /\ sent \in Nat /\ b.from <= sent
        BY <1>4
      <3> QED
        BY <3>1, Answered, Zenon
    <2> QED
      BY <2>1, <2>2, Zenon
  <1> HIDE DEF news
  <1>7. /\ DOMAIN noted = {"s", "b", "events"} /\ noted.s = store /\ noted.events = <<>>
        /\ \/ noted = w /\ noted.b = b
           \/ noted.b = [b EXCEPT !.last = sent] /\ news # <<>>
        /\ noted.b.last = IF news # <<>> THEN sent ELSE b.last
    <2>1. CASE news # <<>> /\ sent > b.last
      <3>1. noted = [w EXCEPT !.b.last = sent]
        BY <1>3, <2>1
      <3>2. [b EXCEPT !.last = sent].last = sent
        BY <1>3 DEF IsTab
      <3> HIDE DEF noted
      <3>3. noted.b = [b EXCEPT !.last = sent] /\ DOMAIN noted = DOMAIN w /\ noted.s = w.s
            /\ noted.events = w.events
        BY <1>3, <3>1
      <3> QED
        BY <1>3, <2>1, <3>2, <3>3
    <2>2. CASE ~(news # <<>> /\ sent > b.last)
      <3>1. noted = w
        BY <1>3, <2>2
      <3> QED
        BY <1>3, <1>4, <2>2, <3>1
    <2> QED
      BY <2>1, <2>2
  <1> HIDE DEF noted
  <1>8. /\ IsTab(noted.b) /\ noted.b.first = b.first /\ noted.b.state = b.state
        /\ noted.b.master = b.master
        /\ noted.b.last \in Nat
    BY <1>3, <1>4, <1>7 DEF IsTab
  <1>9. /\ IsTab(c) /\ c.last = noted.b.last /\ c.first = b.first /\ c.state = b.state
        /\ c.poll = "open" => c.from = c.last
    BY <1>8 DEF Poll, IsTab
  <1>10. IsShared(noted, y, news)
    BY <1>3, <1>5, <1>7, <1>8, SharedNews
  <1> HIDE DEF y
  <1>11. x.s = y.s /\ x.b = c /\ x.events = y.events /\ IsStore(x.s)
    BY <1>10 DEF IsShared
  <1> HIDE DEF x, c
  <1>12. /\ store' = x.s /\ tab' = [tab EXCEPT ![t] = c] /\ elected' \subseteq elected
         /\ elected \subseteq elected'
    BY <1>1, <1>2, <1>11 DEF Commit
  <1>13. /\ news = <<>> => store'.last = store.last
         /\ news # <<>> => store'.last = sent
    BY <1>7, <1>10, <1>11, <1>12 DEF IsShared
  <1>14. store'.last \in Nat /\ store.last <= store'.last /\ store'.last <= sent
         /\ c.last <= store'.last
    BY <1>4, <1>7, <1>9, <1>13
  <1>15. y.events \in Seq(Events)
    BY <1>10 DEF IsShared, Events
  <1>16. /\ \A i \in DOMAIN y.events : y.events[i].key = "last" =>
            y.events[i].value <= store'.last
         /\ \A i \in DOMAIN y.events : y.events[i].key = "notification" =>
            y.events[i].value = news
         /\ \A i, j \in DOMAIN y.events :
               y.events[i].key = "notification" /\ y.events[j].key = "notification" => i = j
    <2>1. \A i \in DOMAIN y.events : \/ y.events[i] = [key |-> "last", value |-> noted.b.last]
                                     \/ y.events[i] = [key |-> "notification", value |-> news]
      BY <1>10 DEF IsShared
    <2>2. noted.b.last <= store'.last
      BY <1>9, <1>14
    <2> QED
      BY <1>10, <2>1, <2>2 DEF IsShared
  <1>17. ASSUME NEW u \in Tabs
         PROVE  /\ inbox'[u] = IF u = t THEN inbox[u]
                   ELSE IF u \in Open THEN inbox[u] \o y.events ELSE inbox[u]
                /\ tab'[u] = IF u = t THEN c ELSE tab[u]
                /\ seen'[u] = IF u = t THEN seen[u] \o news ELSE seen[u]
                /\ skipped'[u] = skipped[u]
    BY <1>1, <1>2, <1>11, <1>12 DEF Commit, Shape
  <1>18. Shape'
    <2>1. elected' = elected
      BY <1>12
    <2>3. sent' = sent
      BY <1>1 DEF SpentKept, sent
    <2>4. /\ DOMAIN tab' = Tabs /\ DOMAIN inbox' = Tabs /\ DOMAIN seen' = Tabs
          /\ DOMAIN skipped' = Tabs
      BY <1>1, <1>2, <1>12 DEF Shape, Commit
    <2> QED
      BY <1>1, <1>2, <1>11, <1>12, <1>14, <2>1, <2>3, <2>4 DEF Shape, SpentKept
  <1>19. ASSUME NEW u \in Tabs
         PROVE  Sane(u)'
    <2>1. Sane(u) /\ elected' = elected
      BY <1>12 DEF CInv
    <2>2. inbox'[u] \in Seq(Events)
      <3>1. inbox[u] \in Seq(Events)
        BY <2>1 DEF Sane
      <3>2. inbox[u] \o y.events \in Seq(Events)
        BY <1>15, <3>1, Concatenation
      <3> QED
        BY <1>17, <3>1, <3>2
    <2>3. \A i \in DOMAIN inbox[u] : inbox[u][i].key = "last" =>
          inbox[u][i].value <= store'.last
      <3> SUFFICES ASSUME NEW i \in DOMAIN inbox[u], inbox[u][i].key = "last"
                   PROVE  inbox[u][i].value <= store'.last
        OBVIOUS
      <3>1. inbox[u][i] \in Events /\ inbox[u][i].value <= store.last
        BY <2>1 DEF Sane
      <3>2. inbox[u][i].value \in Nat
        BY <3>1 DEF Events, MasterEvent, ChannelEvent, LastEvent, NewsEvent
      <3> QED
        BY <1>4, <1>14, <3>1, <3>2
    <2>4. \A i \in DOMAIN inbox'[u] : inbox'[u][i].key = "last" =>
          inbox'[u][i].value <= store'.last
      <3>1. CASE inbox'[u] = inbox[u]
        BY <2>3, <3>1
      <3>2. CASE inbox'[u] = inbox[u] \o y.events
        <4>1. \A i \in DOMAIN inbox'[u] :
                 \/ i \in DOMAIN inbox[u] /\ inbox'[u][i] = inbox[u][i]
                 \/ /\ i - Len(inbox[u]) \in DOMAIN y.events
                    /\ inbox'[u][i] = y.events[i - Len(inbox[u])]
          <5>1. inbox[u] \in Seq(Events)
            BY <2>1 DEF Sane
          <5>2. \A i \in DOMAIN (inbox[u] \o y.events) :
                   \/ i \in DOMAIN inbox[u] /\ (inbox[u] \o y.events)[i] = inbox[u][i]
                   \/ /\ i - Len(inbox[u]) \in DOMAIN y.events
                      /\ (inbox[u] \o y.events)[i] = y.events[i - Len(inbox[u])]
            <6>1. IsConcatenation(inbox[u] \o y.events, inbox[u], y.events)
              BY <1>15, <5>1, Concatenation
            <6> QED
              BY <6>1 DEF IsConcatenation
          <5> QED
            BY <3>2, <5>2, Zenon
        <4> QED
          BY <1>16, <2>3, <4>1
      <3> QED
        BY <1>17, <3>1, <3>2
    <2>5. seen'[u] \in Seq(Nat)
      <3>1. seen[u] \in Seq(Nat)
        BY <2>1 DEF Sane
      <3>2. seen[u] \o news \in Seq(Nat)
        BY <1>5, <3>1, Concatenation
      <3> QED
        BY <1>17, <3>1, <3>2
    <2>6. IsTab(tab'[u]) /\ tab'[u].last <= store'.last
          /\ (tab'[u].poll = "open" => tab'[u].from <= store'.last)
          /\ (tab'[u].master \/ Polls(tab'[u]) => u \in elected)
      <3>1. CASE u = t
        BY <1>2, <1>9, <1>14, <1>17, <3>1
      <3>2. CASE u # t
        <4>1. tab'[u] = tab[u]
          BY <1>17, <3>2
        <4> QED
          BY <1>4, <1>14, <2>1, <4>1 DEF Sane, IsTab
      <3> QED
        BY <3>1, <3>2
    <2> QED
      BY <2>1, <2>2, <2>4, <2>5, <2>6 DEF Sane
  <1>20. ASSUME NEW u \in Tabs
         PROVE  Shown(u)'
    <2>1. SUFFICES ASSUME u \in Open', NEW n \in (tab'[u].first + 1) .. store'.last
                   PROVE  n \in ToSet(seen'[u]) \cup Pending(u)' \cup skipped'[u] \cup untold'
      BY DEF Shown
    <2>2. Sane(u) /\ Shown(u) /\ tab'[u].first = tab[u].first /\ u \in Open
      BY <1>9, <1>17, <2>1 DEF CInv, Open
    <2>3. inbox[u] \in Seq(Events) /\ seen[u] \in Seq(Nat) /\ tab[u].first \in Nat
      BY <2>2 DEF Sane, IsTab
    <2>4. CASE n <= store.last
      <3>1. n \in ToSet(seen[u]) \cup Pending(u) \cup skipped[u] \cup untold
        BY <1>4, <1>14, <2>1, <2>2, <2>3, <2>4 DEF Shown
      <3>2. ToSet(seen[u]) \subseteq ToSet(seen'[u])
        <4>1. CASE u = t
          <5>1. \A i \in DOMAIN seen[u] : i \in DOMAIN (seen[u] \o news)
                /\ (seen[u] \o news)[i] = seen[u][i]
            BY <1>5, <2>3
          <5>2. seen'[u] = seen[u] \o news
            BY <1>17, <4>1
          <5> QED
            BY <5>1, <5>2 DEF ToSet
        <4>2. CASE u # t
          BY <1>17, <4>2
        <4> QED
          BY <4>1, <4>2
      <3>3. Pending(u) \subseteq Pending(u)'
        <4>1. \A i \in DOMAIN inbox[u] : i \in DOMAIN inbox'[u] /\ inbox'[u][i] = inbox[u][i]
          <5>1. CASE inbox'[u] = inbox[u]
            BY <5>1
          <5>2. CASE inbox'[u] = inbox[u] \o y.events
            <6>1. \A i \in DOMAIN inbox[u] : /\ i \in DOMAIN (inbox[u] \o y.events)
                                              /\ (inbox[u] \o y.events)[i] = inbox[u][i]
              <7>1. IsConcatenation(inbox[u] \o y.events, inbox[u], y.events)
                BY <1>15, <2>3, Concatenation
              <7> QED
                BY <7>1 DEF IsConcatenation
            <6> QED
              BY <5>2, <6>1, Zenon
          <5> QED
            BY <1>17, <5>1, <5>2
        <4> QED
          BY <4>1 DEF Pending
      <3> QED
        BY <1>1, <1>17, <3>1, <3>2, <3>3
    <2>5. CASE n > store.last
      <3>1. news # <<>> /\ n \in (b.from + 1) .. sent
        BY <1>4, <1>13, <1>14, <2>1, <2>3, <2>5
      <3>2. n - b.from \in DOMAIN news /\ news[n - b.from] = n
        BY <1>4, <1>5, <3>1
      <3>3. CASE u = t
        <4>1. /\ n - b.from + Len(seen[u]) \in DOMAIN (seen[u] \o news)
              /\ (seen[u] \o news)[n - b.from + Len(seen[u])] = n
          <5>1. \A i \in DOMAIN news : /\ i + Len(seen[u]) \in DOMAIN (seen[u] \o news)
                                        /\ (seen[u] \o news)[i + Len(seen[u])] = news[i]
            <6>1. IsConcatenation(seen[u] \o news, seen[u], news)
              BY <1>5, <2>3, Concatenation
            <6> QED
              BY <6>1 DEF IsConcatenation
          <5> QED
            BY <3>2, <5>1, Zenon
        <4>2. seen'[u] = seen[u] \o news
          BY <1>17, <3>3
        <4> QED
          BY <4>1, <4>2 DEF ToSet
      <3>4. CASE u # t
        <4>1. inbox'[u] = inbox[u] \o y.events
          BY <1>17, <2>2, <3>4
        <4>2. n \in ToSet(news)
          BY <3>2 DEF ToSet
        <4>3. CASE store.notification = Held(news)
          BY <1>1, <4>2, <4>3
        <4>4. CASE store.notification # Held(news)
          <5>1. PICK i \in DOMAIN y.events :
                y.events[i] = [key |-> "notification", value |-> news]
            BY <1>7, <1>10, <3>1, <4>4 DEF IsShared
          <5>2. /\ i + Len(inbox[u]) \in DOMAIN inbox'[u]
                /\ inbox'[u][i + Len(inbox[u])] = [key |-> "notification", value |-> news]
            <6>1. \A j \in DOMAIN y.events :
                     /\ j + Len(inbox[u]) \in DOMAIN (inbox[u] \o y.events)
                     /\ (inbox[u] \o y.events)[j + Len(inbox[u])] = y.events[j]
              <7>1. IsConcatenation(inbox[u] \o y.events, inbox[u], y.events)
                BY <1>15, <2>3, Concatenation
              <7> QED
                BY <7>1 DEF IsConcatenation
            <6> QED
              BY <4>1, <5>1, <6>1, Zenon
          <5> QED
            BY <4>2, <5>2 DEF Pending
        <4> QED
          BY <4>3, <4>4
      <3> QED
        BY <3>3, <3>4
    <2> QED
      BY <1>4, <1>14, <2>1, <2>3, <2>4, <2>5
  <1>21. ASSUME NEW e \in Tabs
         PROVE  Ordered(e)'
    <2>1. SUFFICES ASSUME elected \subseteq {e}
                   PROVE  /\ \A i \in DOMAIN inbox'[e] : inbox'[e][i].key \notin News
                          /\ \A u \in Tabs : Line(seen'[u], inbox'[u], tab'[e])
      BY <1>12 DEF Ordered
    <2>2. e = t /\ tab'[e] = c /\ inbox'[e] = inbox[e]
      BY <1>2, <1>17, <2>1
    <2>3. /\ \A i \in DOMAIN inbox[e] : inbox[e][i].key \notin News
          /\ \A u \in Tabs : Line(seen[u], inbox[u], b)
      BY <2>1, <2>2 DEF CInv, Ordered
    <2>4. \A n \in Int : Before(n, b) => Before(n, c)
      BY <1>1, <1>4, <1>7, <1>9 DEF Before
    <2>5. Rising(news)
      BY <1>4, <1>5 DEF Rising
    <2>6. \A k \in DOMAIN news : Before(news[k], c)
          /\ \A n \in Nat : Before(n, b) => n < news[k]
      <3>1. \A k \in DOMAIN news : news # <<>> /\ news[k] \in Nat /\ news[k] <= sent
            /\ b.from < news[k]
        BY <1>4, <1>5
      <3>2. news # <<>> => c.last = sent
        BY <1>7, <1>9
      <3> QED
        BY <1>1, <1>4, <1>9, <3>1, <3>2 DEF Before
    <2>7. ASSUME NEW u \in Tabs PROVE Line(seen'[u], inbox'[u], c)
      <3>1. Line(seen[u], inbox[u], b) /\ seen[u] \in Seq(Nat) /\ inbox[u] \in Seq(Events)
        BY <2>3 DEF CInv, Sane
      <3>2. CASE u = t
        <4>1. /\ seen[u] \o news \in Seq(Nat) /\ Rising(seen[u] \o news)
              /\ \A i \in DOMAIN (seen[u] \o news) :
                    \/ \E j \in DOMAIN seen[u] : (seen[u] \o news)[i] = seen[u][j]
                    \/ \E k \in DOMAIN news : (seen[u] \o news)[i] = news[k]
          <5>1. \A i \in DOMAIN seen[u], k \in DOMAIN news : seen[u][i] < news[k]
            BY <2>6, <3>1 DEF Line
          <5> QED
            BY <1>5, <2>5, <3>1, <5>1, RisingAppended DEF Line
        <4>2. \A i \in DOMAIN (seen[u] \o news) : Before((seen[u] \o news)[i], c)
          <5>1. \A i \in DOMAIN seen[u] : Before(seen[u][i], c)
            BY <2>4, <3>1 DEF Line
          <5> QED
            BY <2>6, <4>1, <5>1
        <4>3. \A i \in DOMAIN inbox'[u] : inbox'[u][i].key # "notification"
          BY <2>2, <2>3, <3>2 DEF News
        <4>4. seen'[u] = seen[u] \o news
          BY <1>17, <3>2
        <4> QED
          BY <4>1, <4>2, <4>3, <4>4 DEF Line
      <3>3. CASE u # t /\ u \in Open
        <4>1. inbox'[u] = inbox[u] \o y.events /\ seen'[u] = seen[u]
          BY <1>17, <3>3
        <4> QED
          BY <1>5, <1>15, <1>16, <2>4, <2>5, <2>6, <3>1, <4>1, LineGrows
      <3>4. CASE u # t /\ u \notin Open
        BY <1>17, <2>4, <3>1, <3>4, LineKept, SameNewsReflexive
      <3> QED
        BY <3>2, <3>3, <3>4
    <2> QED
      BY <2>2, <2>3, <2>7
  <1> QED
    BY <1>18, <1>19, <1>20, <1>21 DEF CInv

LEMMA InitHolds ==
    ASSUME Init
    PROVE  CInv
  <1> DEFINE absent == [state |-> "absent", master |-> FALSE, active |-> FALSE, poll |-> "no",
                        from |-> 0, last |-> 0, first |-> 0, channels |-> <<>>, timer |-> 0]
  <1>1. /\ \A u \in Tabs : tab[u] = absent /\ inbox[u] = <<>> /\ seen[u] = <<>>
        /\ store.last = 0 /\ elected = {} /\ sent = 0
        /\ IsStore(store)
    BY DEF Init, sent, IsStore
  <1>2. Shape
    <2>1. IsFiniteSet({})
      BY FS_EmptySet
    <2> QED
      BY <1>1, <2>1 DEF Shape, Init, sent
  <1>3. IsTab(absent) /\ absent.last = 0 /\ ~Polls(absent) /\ ~absent.master
        /\ absent.state = "absent"
        /\ absent.poll = "no"
    BY DEF IsTab, Polls
  <1> HIDE DEF absent
  <1>4. ASSUME NEW u \in Tabs
        PROVE  Sane(u) /\ Shown(u)
    <2>1. <<>> \in Seq(Events) /\ <<>> \in Seq(Nat) /\ DOMAIN inbox[u] = {}
      BY <1>1
    <2>2. Sane(u)
      <3>1. tab[u] = absent /\ inbox[u] \in Seq(Events) /\ seen[u] \in Seq(Nat)
            /\ store.last = 0
        BY <1>1, <2>1
      <3>2. IsTab(tab[u]) /\ tab[u].last <= store.last /\ tab[u].poll = "no"
            /\ ~(tab[u].master \/ Polls(tab[u]))
        BY <1>3, <3>1
      <3>3. \A i \in DOMAIN inbox[u] : inbox[u][i].key = "last" =>
            inbox[u][i].value <= store.last
        BY <2>1
      <3> QED
        BY <3>1, <3>2, <3>3 DEF Sane
    <2>3. Shown(u)
      BY <1>1, <1>3 DEF Shown, Open
    <2> QED
      BY <2>2, <2>3
  <1>5. ASSUME NEW e \in Tabs
        PROVE  Ordered(e)
    <2>1. \A u \in Tabs : DOMAIN inbox[u] = {} /\ DOMAIN seen[u] = {}
      BY <1>1
    <2>2. \A u \in Tabs : Line(seen[u], inbox[u], tab[e])
      BY <2>1 DEF Line, Rising
    <2> QED
      BY <2>1, <2>2 DEF Ordered
  <1> QED
    BY <1>2, <1>4, <1>5 DEF CInv

LEMMA NextKeeps ==
    ASSUME CInv, [Next]_vars
    PROVE  CInv'
  <1>1. ASSUME NEW t \in Tabs, Load(t) PROVE CInv'
    BY <1>1, LoadKeeps
  <1>2. ASSUME NEW t \in Tabs, Start(t) PROVE CInv'
    BY <1>2, StartKeeps
  <1>3. ASSUME NEW t \in Tabs, NEW c \in Channels, AddChannel(t, c) PROVE CInv'
    BY <1>3, AddChannelKeeps
  <1>4. ASSUME NEW t \in Tabs, Heartbeat(t) PROVE CInv'
    BY <1>4, HeartbeatKeeps
  <1>5. ASSUME NEW t \in Tabs, OnStorage(t) PROVE CInv'
    BY <1>5, OnStorageKeeps
  <1>6. ASSUME NEW t \in Tabs, OnPoll(t) PROVE CInv'
    BY <1>6, OnPollKeeps
  <1>7. ASSUME NEW t \in Tabs, PollFails(t) PROVE CInv'
    BY <1>7, PollFailsKeeps
  <1>8. ASSUME NEW t \in Tabs, PollAgain(t) PROVE CInv'
    BY <1>8, PollAgainKeeps
  <1>9. ASSUME NEW t \in Tabs, Unload(t) PROVE CInv'
    BY <1>9, UnloadKeeps
  <1>10. ASSUME NEW t \in Tabs, CrashTab(t) PROVE CInv'
    BY <1>10, CrashTabKeeps
  <1>11. ASSUME NEW m \in Messages, Send(m) PROVE CInv'
    BY <1>11, SendKeeps
  <1>12. CASE Tick
    BY <1>12, TickKeeps
  <1>13. CASE UNCHANGED vars
    <2>1. store' = store /\ tab' = tab /\ inbox' = inbox /\ UNCHANGED <<seen, skipped, untold>>
          /\ elected' = elected /\ spent' = spent
      BY <1>13 DEF vars
    <2> QED
      BY <2>1 DEF CInv, Shape, Sane, Shown, Ordered, Open, Pending, sent
  <1> QED
    BY <1>1, <1>2, <1>3, <1>4, <1>5, <1>6, <1>7, <1>8, <1>9, <1>10, <1>11, <1>12, <1>13 DEF Next

(* The invariant of the cross-tab bus, whatever tabs are opened, elected,  *)
(* closed or crash and whatever the clock does.                            *)
THEOREM CrosstabInvariance == Spec => []CInv
  <1>1. Init => CInv
    BY InitHolds
  <1>2. CInv /\ [Next]_vars => CInv'
    BY NextKeeps
  <1> QED
    BY <1>1, <1>2, PTL DEF Spec

(* What a tab knows the identifier of, it triggered, will trigger or       *)
(* ignored while it was master (_onStorage, crosstab_bus.js), or the       *)
(* storage had the same value before and told no tab (_onPoll).            *)
THEOREM NothingIsSkipped == Spec => []NothingSkipped
  <1>1. CInv => NothingSkipped
    <2> SUFFICES ASSUME CInv, NEW t \in Open, NEW n \in (tab[t].first + 1) .. tab[t].last
                 PROVE  n \in ToSet(seen[t]) \cup Pending(t) \cup skipped[t] \cup untold
      BY DEF NothingSkipped
    <2>1. t \in Tabs /\ Sane(t) /\ Shown(t) /\ store.last \in Nat
      BY DEF Open, CInv, Shape, IsStore
    <2>2. tab[t].last <= store.last /\ tab[t].last \in Nat /\ tab[t].first \in Nat
      BY <2>1 DEF Sane, IsTab
    <2>3. n \in (tab[t].first + 1) .. store.last
      BY <2>1, <2>2
    <2> QED
      BY <2>1, <2>3 DEF Shown
  <1> QED
    BY <1>1, CrosstabInvariance, PTL

(* While one tab only was elected, no tab triggers a notification twice or *)
(* after a later one.                                                      *)
THEOREM OnceIsKept == Spec => []OnceWithOneMaster
  <1>1. CInv => OnceWithOneMaster
    <2> SUFFICES ASSUME CInv, Cardinality(elected) <= 1, NEW t \in Open
                 PROVE  \A i, j \in DOMAIN seen[t] : i < j => seen[t][i] < seen[t][j]
      BY DEF OnceWithOneMaster
    <2>1. t \in Tabs /\ elected \subseteq Tabs /\ IsFiniteSet(elected)
      BY DEF Open, CInv, Shape
    <2>2. PICK e \in Tabs : elected \subseteq {e}
      <3>1. CASE elected = {}
        BY <2>1, <3>1
      <3>2. CASE elected # {}
        <4>1. PICK e \in elected : TRUE
          BY <3>2
        <4>2. ASSUME NEW d \in elected PROVE d = e
          <5>1. SUFFICES ASSUME d # e PROVE FALSE
            OBVIOUS
          <5>2. Cardinality({d, e}) = 2 /\ {d, e} \subseteq elected
            <6>1. IsFiniteSet({e}) /\ Cardinality({e}) = 1
              BY FS_Singleton
            <6>2. Cardinality({e} \cup {d}) = 2
              BY <5>1, <6>1, FS_AddElement
            <6>3. {d, e} = {e} \cup {d}
              OBVIOUS
            <6> QED
              BY <4>1, <6>2, <6>3
          <5>3. Cardinality({d, e}) <= Cardinality(elected) /\ Cardinality(elected) \in Nat
            BY <2>1, <5>2, FS_Subset, FS_CardinalityType
          <5> QED
            BY <5>2, <5>3
        <4> QED
          BY <2>1, <4>1, <4>2
      <3> QED
        BY <3>1, <3>2
    <2>3. Line(seen[t], inbox[t], tab[e])
      BY <2>1, <2>2 DEF CInv, Ordered
    <2> QED
      BY <2>3 DEF Line, Rising
  <1> QED
    BY <1>1, CrosstabInvariance, PTL

-----------------------------------------------------------------------------
(* Type correctness.                                                       *)

(* No tab is twice in the list.                                            *)
Distinct(peers) == \A i, j \in DOMAIN peers : peers[i].id = peers[j].id => i = j

Peers == {p \in Seq(Peer) : Distinct(p)}

(* What a typed handler works on.                                          *)
Worlds == [s : [master : BOOLEAN, heartbeat : Ages, writers : SUBSET Tabs, peers : Peers,
                channels : Seq(Channels), last : 0 .. sent, notification : Seq(Messages)],
           b : Tab, events : Seq(Event)]

LEMMA AtIsPeers ==
    ASSUME NEW p \in Peers, NEW I \in SUBSET DOMAIN p
    PROVE  At(p, I) \in Peers
  <1>1. p \in Seq(Peer) /\ Distinct(p)
    BY DEF Peers
  <1>2. At(p, I) \in Seq(Peer)
    BY <1>1, AtFacts
  <1>3. PICK f \in [DOMAIN At(p, I) -> I] :
           /\ \A k \in DOMAIN At(p, I) : At(p, I)[k] = p[f[k]]
           /\ \A k, l \in DOMAIN At(p, I) : f[k] = f[l] => k = l
    BY <1>1, AtFacts
  <1>4. Distinct(At(p, I))
    <2> SUFFICES ASSUME NEW k \in DOMAIN At(p, I), NEW l \in DOMAIN At(p, I),
                        At(p, I)[k].id = At(p, I)[l].id
                 PROVE  k = l
      BY DEF Distinct
    <2>1. f[k] \in DOMAIN p /\ f[l] \in DOMAIN p /\ p[f[k]].id = p[f[l]].id
      BY <1>3
    <2> QED
      BY <1>1, <1>3, <2>1 DEF Distinct
  <1> QED
    BY <1>2, <1>4 DEF Peers

LEMMA WithoutPeerIsPeers ==
    ASSUME NEW p \in Peers, NEW t
    PROVE  WithoutPeer(p, t) \in Peers
  <1>1. {i \in DOMAIN p : p[i].id # t} \in SUBSET DOMAIN p
    OBVIOUS
  <1> QED
    BY <1>1, AtIsPeers DEF WithoutPeer

LEMMA WithPeerIsPeers ==
    ASSUME NEW p \in Peers, NEW t \in Tabs
    PROVE  WithPeer(p, t) \in Peers
  <1> DEFINE e == [id |-> t, age |-> 0]
             q == [i \in DOMAIN p |-> IF p[i].id = t THEN e ELSE p[i]]
  <1>1. p \in Seq(Peer) /\ Distinct(p) /\ e \in Peer /\ e.id = t
    BY PeriodsAssumption DEF Peers, Peer, Ages, Old
  <1> HIDE DEF e
  <1>2. CASE \E i \in DOMAIN p : p[i].id = t
    <2>1. WithPeer(p, t) = q
      BY <1>2 DEF WithPeer, e
    <2>2. \A i \in DOMAIN p : q[i] \in Peer /\ q[i].id = p[i].id
      BY <1>1
    <2>3. q \in Seq(Peer) /\ DOMAIN q = DOMAIN p
      BY <1>1, <2>2
    <2> QED
      BY <1>1, <2>1, <2>2, <2>3 DEF Distinct, Peers
  <1>3. CASE ~\E i \in DOMAIN p : p[i].id = t
    <2>1. WithPeer(p, t) = Append(p, e)
      BY <1>3 DEF WithPeer, e
    <2>2. /\ Append(p, e) \in Seq(Peer) /\ DOMAIN Append(p, e) = 1 .. Len(p) + 1
          /\ \A i \in DOMAIN p : Append(p, e)[i] = p[i]
          /\ Append(p, e)[Len(p) + 1] = e /\ DOMAIN p = 1 .. Len(p) /\ Len(p) \in Nat
      BY <1>1
    <2>3. Distinct(Append(p, e))
      BY <1>1, <1>3, <2>2 DEF Distinct
    <2> QED
      BY <2>1, <2>2, <2>3 DEF Peers
  <1> QED
    BY <1>2, <1>3

LEMMA PollIsTab ==
    ASSUME NEW b \in Tab
    PROVE  Poll(b) \in Tab
  BY DEF Poll, Tab

LEMMA ActivateIsTab ==
    ASSUME NEW b \in Tab
    PROVE  Activate([b EXCEPT !.master = TRUE]) \in Tab
  <1>1. /\ [b EXCEPT !.master = TRUE] \in Tab
        /\ [[b EXCEPT !.master = TRUE] EXCEPT !.active = TRUE] \in Tab
    BY DEF Tab
  <1> QED
    BY <1>1, PollIsTab DEF Activate

LEMMA ActiveIsTab ==
    ASSUME NEW b \in Tab
    PROVE  Activate(b) \in Tab
  <1>1. [b EXCEPT !.active = TRUE] \in Tab
    BY DEF Tab
  <1> QED
    BY <1>1, PollIsTab DEF Activate

LEMMA StopPollingIsTab ==
    ASSUME NEW b \in Tab
    PROVE  StopPolling([b EXCEPT !.master = FALSE]) \in Tab
  <1>1. <<>> \in Seq(Channels)
    OBVIOUS
  <1>2. [b EXCEPT !.master = FALSE] \in Tab
    BY DEF Tab
  <1> QED
    BY <1>1, <1>2 DEF StopPolling, Tab

(* Changes of one part. *)
LEMMA PeersTyped ==
    ASSUME NEW w \in Worlds, NEW p \in Peers
    PROVE  [w EXCEPT !.s.peers = p] \in Worlds
  BY DEF Worlds

LEMMA TabTyped ==
    ASSUME NEW w \in Worlds, NEW b \in Tab
    PROVE  [w EXCEPT !.b = b] \in Worlds
  BY DEF Worlds

LEMMA SetItemTyped ==
    ASSUME NEW w \in Worlds, NEW key \in {"last", "channels"}, NEW v,
           key = "last" => v \in 0 .. sent,
           key = "channels" => v \in Seq(Channels)
    PROVE  SetItem(w, key, v) \in Worlds /\ SetItem(w, key, v).b = w.b
  <1> DEFINE e == [key |-> key, value |-> v]
  <1>1. e \in Event
    BY DEF Event
  <1> HIDE DEF e
  <1>2. Append(w.events, e) \in Seq(Event)
    BY <1>1 DEF Worlds
  <1>3. SetItem(w, key, v) = IF w.s[key] = v THEN w
                             ELSE [w EXCEPT !.s[key] = v, !.events = Append(@, e)]
    BY DEF SetItem, e
  <1>4. [w EXCEPT !.s[key] = v, !.events = Append(@, e)] \in Worlds
    <2> DEFINE events == Append(w.events, e)
    <2>1. [w EXCEPT !.s[key] = v, !.events = Append(@, e)]
            = [w EXCEPT !.s[key] = v, !.events = events]
      BY DEF Worlds
    <2> HIDE DEF events
    <2>2. CASE key = "last"
      <3>1. [w EXCEPT !.s.last = v, !.events = events] \in Worlds
        BY <1>2, <2>2 DEF Worlds, events
      <3> QED
        BY <2>1, <2>2, <3>1
    <2>4. CASE key = "channels"
      <3>1. [w EXCEPT !.s.channels = v, !.events = events] \in Worlds
        BY <1>2, <2>4 DEF Worlds, events
      <3> QED
        BY <2>1, <2>4, <3>1
    <2> QED
      BY <2>2, <2>4
  <1>5. [w EXCEPT !.s[key] = v, !.events = Append(@, e)].b = w.b
    BY DEF Worlds
  <1> QED
    BY <1>3, <1>4, <1>5

LEMMA WriteHeartbeatTyped ==
    ASSUME NEW w \in Worlds, NEW t \in Tabs, NEW tie \in BOOLEAN
    PROVE  WriteHeartbeat(w, t, tie) \in Worlds
  <1>1. 0 \in Ages
    BY PeriodsAssumption DEF Ages, Old
  <1> QED
    BY <1>1 DEF WriteHeartbeat, Worlds

LEMMA StartElectionTyped ==
    ASSUME NEW w \in Worlds, NEW t \in Tabs, NEW tie \in BOOLEAN
    PROVE  StartElection(w, t, tie) \in Worlds
  <1> DEFINE h == WriteHeartbeat(w, t, tie)
             p == WithoutPeer(h.s.peers, t)
             b == Activate([h.b EXCEPT !.master = TRUE])
             x == [h EXCEPT !.s.master = TRUE, !.s.peers = WithoutPeer(@, t),
                            !.b = Activate([@ EXCEPT !.master = TRUE])]
  <1>1. h \in Worlds
    BY WriteHeartbeatTyped
  <1>2. StartElection(w, t, tie) = w \/ StartElection(w, t, tie) = x
    BY DEF StartElection
  <1> HIDE DEF h
  <1>3. h.s.peers \in Peers /\ h.b \in Tab
    BY <1>1 DEF Worlds
  <1>4. p \in Peers /\ b \in Tab
    BY <1>3, WithoutPeerIsPeers, ActivateIsTab
  <1>5. x = [h EXCEPT !.s.master = TRUE, !.s.peers = p, !.b = b]
    BY <1>1 DEF Worlds
  <1> HIDE DEF p, b, x
  <1>6. x \in Worlds
    BY <1>1, <1>4, <1>5 DEF Worlds
  <1> QED
    BY <1>2, <1>6

LEMMA BeatTyped ==
    ASSUME NEW w0 \in Worlds, NEW t \in Tabs, NEW tie \in BOOLEAN
    PROVE  Beat(w0, t, tie) \in Worlds
  <1> DEFINE peers == w0.s.peers
             w == IF w0.s.heartbeat > HEARTBEAT_OUT_OF_DATE_PERIOD
                  THEN StartElection(w0, t, tie) ELSE w0
             alive == At(peers, {i \in DOMAIN peers : peers[i].age < HEARTBEAT_KILL_OLD_PERIOD})
             slave == [w EXCEPT !.s.peers = WithPeer(peers, t)]
             master == [WriteHeartbeat(w, t, tie) EXCEPT !.s.peers = alive]
             stopped == [w EXCEPT !.s.peers = WithPeer(peers, t),
                                  !.b = StopPolling([@ EXCEPT !.master = FALSE])]
             beaten == IF ~w.b.master THEN slave
                       ELSE IF t \in w.s.writers THEN master ELSE stopped
             x == [beaten EXCEPT !.b.timer = IF beaten.b.master THEN MASTER_TAB_HEARTBEAT_PERIOD
                                                                ELSE TAB_HEARTBEAT_PERIOD]
  <1>1. Beat(w0, t, tie) = x
    BY DEF Beat
  <1>2. w \in Worlds
    BY StartElectionTyped
  <1>3. peers \in Peers /\ WithPeer(peers, t) \in Peers
    BY WithPeerIsPeers DEF Worlds
  <1>4. alive \in Peers
    BY <1>3, AtIsPeers
  <1> HIDE DEF w, peers, alive
  <1>5. slave \in Worlds
    BY <1>2, <1>3, PeersTyped
  <1>6. master \in Worlds
    BY <1>2, <1>4, WriteHeartbeatTyped, PeersTyped
  <1>7. stopped \in Worlds
    <2> DEFINE b == StopPolling([w.b EXCEPT !.master = FALSE])
    <2>1. b \in Tab
      BY <1>2, StopPollingIsTab DEF Worlds
    <2>2. stopped = [slave EXCEPT !.b = b]
      BY <1>2 DEF Worlds
    <2> QED
      BY <1>5, <2>1, <2>2, TabTyped
  <1>8. beaten \in Worlds
    BY <1>5, <1>6, <1>7
  <1> HIDE DEF beaten
  <1>9. x \in Worlds
    <2> DEFINE n == IF beaten.b.master THEN MASTER_TAB_HEARTBEAT_PERIOD
                    ELSE TAB_HEARTBEAT_PERIOD
    <2>1. n \in 0 .. TAB_HEARTBEAT_PERIOD
      BY PeriodsAssumption
    <2> HIDE DEF n
    <2>2. [beaten.b EXCEPT !.timer = n] \in Tab
      BY <1>8, <2>1 DEF Worlds, Tab
    <2>3. x = [beaten EXCEPT !.b = [beaten.b EXCEPT !.timer = n]]
      BY <1>8 DEF Worlds, n
    <2> QED
      BY <1>8, <2>2, <2>3, TabTyped
  <1> QED
    BY <1>1, <1>9

LEMMA RegisterTyped ==
    ASSUME NEW w0 \in Worlds, NEW t \in Tabs, NEW tie \in BOOLEAN
    PROVE  Register(w0, t, tie) \in Worlds
  <1> DEFINE listed == [w0 EXCEPT !.b.state = "registered", !.s.peers = WithPeer(@, t)]
             e == IF listed.s.master THEN listed ELSE StartElection(listed, t, tie)
             w == Beat(e, t, tie)
             slave == [w EXCEPT !.b.channels = w.s.channels]
  <1>1. listed \in Worlds
    <2> DEFINE b == [w0.b EXCEPT !.state = "registered"]
               p == WithPeer(w0.s.peers, t)
               y == [w0 EXCEPT !.b = b]
    <2>1. b \in Tab /\ p \in Peers
      BY WithPeerIsPeers DEF Worlds, Tab
    <2>2. listed = [y EXCEPT !.s.peers = p]
      BY DEF Worlds
    <2>3. y \in Worlds
      BY <2>1, TabTyped
    <2> QED
      BY <2>1, <2>2, <2>3, PeersTyped
  <1> HIDE DEF listed
  <1>2. e \in Worlds
    BY <1>1, StartElectionTyped
  <1> HIDE DEF e
  <1>3. w \in Worlds
    BY <1>2, BeatTyped
  <1> HIDE DEF w
  <1>4. SetItem(w, "channels", w.b.channels) \in Worlds
    BY <1>3, SetItemTyped DEF Worlds, Tab
  <1>5. slave \in Worlds
    BY <1>3 DEF Worlds, Tab
  <1>6. Register(w0, t, tie) = IF w.b.master THEN SetItem(w, "channels", w.b.channels)
        ELSE slave
    BY DEF Register, w, e, listed
  <1> QED
    BY <1>4, <1>5, <1>6

LEMMA StartPollingTyped ==
    ASSUME NEW w \in Worlds, NEW t \in Tabs, NEW tie \in BOOLEAN
    PROVE  StartPolling(w, t, tie) \in Worlds
  <1>1. Activate(w.b) \in Tab
    BY ActiveIsTab DEF Worlds
  <1>2. [w EXCEPT !.b = Activate(@)] = [w EXCEPT !.b = Activate(w.b)]
    BY DEF Worlds
  <1> QED
    BY <1>1, <1>2, RegisterTyped, TabTyped DEF StartPolling

(* The list of channels changes and, if a poll is open, it starts again.   *)
LEMMA ChannelsTyped ==
    ASSUME NEW w \in Worlds, NEW C \in Seq(Channels)
    PROVE  LET x == [w EXCEPT !.b.channels = C]
           IN  x \in Worlds /\ [x EXCEPT !.b = Poll(@)] \in Worlds
  <1> DEFINE x == [w EXCEPT !.b.channels = C]
  <1>1. x \in Worlds
    BY DEF Worlds, Tab
  <1> HIDE DEF x
  <1>2. Poll(x.b) \in Tab
    BY <1>1, PollIsTab DEF Worlds
  <1>3. [x EXCEPT !.b = Poll(@)] = [x EXCEPT !.b = Poll(x.b)]
    BY <1>1 DEF Worlds
  <1>4. [x EXCEPT !.b = Poll(@)] \in Worlds
    BY <1>1, <1>2, <1>3, TabTyped
  <1> QED
    BY <1>1, <1>4 DEF x

LEMMA SubscribedTyped ==
    ASSUME NEW w \in Worlds, NEW c \in Channels, NEW t \in Tabs, NEW tie \in BOOLEAN
    PROVE  Subscribed(w, c, t, tie) \in Worlds
  <1> DEFINE C == Append(w.b.channels, c)
             pushed == [w EXCEPT !.b.channels = C]
             polled == IF w.b.poll = "open" THEN [pushed EXCEPT !.b = Poll(@)]
                       ELSE StartPolling(pushed, t, tie)
             added == IF c \in ToSet(w.b.channels) THEN w ELSE polled
  <1>1. C \in Seq(Channels)
    BY DEF Worlds, Tab
  <1> HIDE DEF C
  <1>2. pushed \in Worlds /\ [pushed EXCEPT !.b = Poll(@)] \in Worlds
    BY <1>1, ChannelsTyped
  <1>3. pushed = [w EXCEPT !.b.channels = Append(@, c)]
    BY DEF C, Worlds
  <1> HIDE DEF pushed
  <1>4. added \in Worlds
    BY <1>2, StartPollingTyped
  <1>5. Subscribed(w, c, t, tie) = SetItem(added, "channels", added.b.channels)
    BY <1>3 DEF Subscribed
  <1> HIDE DEF added
  <1>6. added.b.channels \in Seq(Channels)
    BY <1>4 DEF Worlds, Tab
  <1> QED
    BY <1>4, <1>5, <1>6, SetItemTyped

LEMMA UnsubscribedTyped ==
    ASSUME NEW w \in Worlds, NEW c
    PROVE  Unsubscribed(w, c) \in Worlds
  <1> DEFINE own == w.b.channels
             C == At(own, {i \in DOMAIN own : own[i] # c})
             spliced == [w EXCEPT !.b.channels = C]
             deleted == IF w.b.poll = "open" THEN [spliced EXCEPT !.b = Poll(@)] ELSE spliced
  <1>1. C \in Seq(Channels)
    <2>1. own \in Seq(Channels) /\ {i \in DOMAIN own : own[i] # c} \in SUBSET DOMAIN own
      BY DEF Worlds, Tab
    <2> QED
      BY <2>1, AtFacts
  <1>2. Unsubscribed(w, c) = SetItem(deleted, "channels", deleted.b.channels)
    <2>1. spliced = [w EXCEPT !.b.channels = At(@, {i \in DOMAIN @ : @[i] # c})]
      BY DEF Worlds
    <2> QED
      BY <2>1 DEF Unsubscribed
  <1> HIDE DEF C
  <1>3. deleted \in Worlds
    BY <1>1, ChannelsTyped
  <1> HIDE DEF deleted
  <1>4. deleted.b.channels \in Seq(Channels)
    BY <1>3 DEF Worlds, Tab
  <1> QED
    BY <1>2, <1>3, <1>4, SetItemTyped

LEMMA AdoptedTyped ==
    ASSUME NEW w \in Worlds, NEW list \in Seq(Channels), NEW t \in Tabs
    PROVE  Adopted(w, list, t) \subseteq Worlds
  <1>0. PICK after : \E N \in Nat : Adopting(w, list, t, after, N)
    <2>1. w.b.channels \in Seq(Channels)
      BY DEF Worlds, Tab
    <2> QED
      BY <2>1, AdoptedCalls
  <1>1. PICK N \in Nat : Adopting(w, list, t, after, N)
    BY <1>0
  <1> DEFINE T == {n \in 0 .. N : ~(after[n] \subseteq Worlds)}
  <1>2. T = {}
    <2> SUFFICES ASSUME T # {} PROVE FALSE
      OBVIOUS
    <2>0. T \subseteq Nat
      OBVIOUS
    <2>1. PICK m \in T : \A n \in T : ~(<<n, m>> \in OpToRel(<, Nat))
      BY <2>0, NatLessThanWellFounded, WFMin
    <2>2. m \in 0 .. N /\ ~(after[m] \subseteq Worlds)
      OBVIOUS
    <2>3. m # 0
      BY <1>1, <2>2 DEF Adopting
    <2>4. after[m - 1] \subseteq Worlds
      <3>1. m - 1 \in 0 .. N /\ m - 1 < m /\ m - 1 \in Nat /\ m \in Nat
        BY <2>2, <2>3
      <3> QED
        BY <2>1, <3>1 DEF OpToRel
    <2>5. \/ after[m] = after[m - 1]
          \/ \E c \in Channels :
                \/ after[m] = {Unsubscribed(u, c) : u \in after[m - 1]}
                \/ after[m] = {Subscribed(u, c, t, tie) : u \in after[m - 1], tie \in BOOLEAN}
      <3>1. m \in 1 .. N
        BY <2>2, <2>3
      <3> QED
        BY <1>1, <3>1 DEF Adopting
    <2> QED
      BY <2>2, <2>4, <2>5, UnsubscribedTyped, SubscribedTyped
  <1>3. N \in 0 .. N
    OBVIOUS
  <1> QED
    BY <1>1, <1>2, <1>3 DEF Adopting

LEMMA SentType ==
    ASSUME TypeOK
    PROVE  sent \in Nat /\ DOMAIN spent = {"opened", "sent", "added", "failed", "late"}
  <1>1. PICK b \in Budgets : spent \in [DOMAIN b -> Nat]
    BY DEF TypeOK, Budgeted
  <1>2. DOMAIN b = {"opened", "sent", "added", "failed", "late"}
    BY BudgetsAssumption
  <1> QED
    BY <1>1, <1>2 DEF sent

LEMMA SpentTyped ==
    ASSUME TypeOK, NEW k \in {"opened", "sent", "added", "failed", "late"}, Spend(k)
    PROVE  /\ Budgeted'
           /\ sent' = IF k = "sent" THEN sent + 1 ELSE sent
  <1>1. PICK b \in Budgets : \A j \in DOMAIN b : spent[j] + (IF j = k THEN 1 ELSE 0) <= b[j]
    BY DEF Spend
  <1>2. PICK c \in Budgets : spent \in [DOMAIN c -> Nat]
    BY DEF TypeOK, Budgeted
  <1>3. DOMAIN b = {"opened", "sent", "added", "failed", "late"} /\ DOMAIN b = DOMAIN c
    BY BudgetsAssumption
  <1>4. \A j \in DOMAIN b : b[j] \in Nat
    BY BudgetsAssumption
  <1>5. spent' = [spent EXCEPT ![k] = @ + 1] /\ spent \in [DOMAIN b -> Nat]
    BY <1>2, <1>3 DEF Spend
  <1>6. spent' \in [DOMAIN b -> Nat]
    BY <1>3, <1>5
  <1>7. \A j \in DOMAIN b : spent'[j] = spent[j] + (IF j = k THEN 1 ELSE 0)
    BY <1>3, <1>5
  <1>8. \A j \in DOMAIN b : spent'[j] <= b[j]
    BY <1>1, <1>7
  <1>9. sent' = IF k = "sent" THEN sent + 1 ELSE sent
    BY <1>3, <1>5, <1>7 DEF sent
  <1> QED
    BY <1>6, <1>8, <1>9 DEF Budgeted

LEMMA SeqGrows ==
    ASSUME NEW X, NEW Y, X \subseteq Y
    PROVE  Seq(X) \subseteq Seq(Y)
  OBVIOUS

(* The types of the notifications grow when one is sent.                   *)
LEMMA TypesGrow ==
    ASSUME TypeOK, sent' \in {sent, sent + 1}
    PROVE  /\ Store \subseteq Store' /\ Tab \subseteq Tab' /\ Seq(Event) \subseteq Seq(Event')
           /\ Seq(1 .. sent) \subseteq Seq(1 .. sent') /\ 1 .. sent \subseteq 1 .. sent'
  <1>1. sent \in Nat
    BY SentType
  <1>2. 1 .. sent \subseteq 1 .. sent' /\ 0 .. sent \subseteq 0 .. sent'
    BY <1>1
  <1>3. Seq(1 .. sent) \subseteq Seq(1 .. sent')
    BY <1>2, SeqGrows
  <1>4. Event \subseteq Event'
    BY <1>2, <1>3 DEF Event
  <1>5. Seq(Event) \subseteq Seq(Event')
    BY <1>4
  <1>6. Store \subseteq Store'
    BY <1>2, <1>3 DEF Store
  <1>7. Tab \subseteq Tab'
    BY <1>2 DEF Tab
  <1> QED
    BY <1>2, <1>3, <1>5, <1>6, <1>7

LEMMA PeersDistinct ==
    ASSUME NEW p
    PROVE  IsInjective([i \in DOMAIN p |-> p[i].id]) <=> Distinct(p)
  BY DEF IsInjective, Distinct

LEMMA WorldTyped ==
    ASSUME TypeOK, NEW t \in Tabs
    PROVE  World(t) \in Worlds
  <1>1. store \in Store /\ store.peers \in Peers /\ tab[t] \in Tab
    BY PeersDistinct DEF TypeOK, Peers, Store
  <1>2. <<>> \in Seq(Event)
    OBVIOUS
  <1> QED
    BY <1>1, <1>2 DEF World, Worlds, Store

(* A handler ends: what it worked on is stored and its events sent.        *)
LEMMA CommitTyped ==
    ASSUME TypeOK, NEW t \in Tabs, NEW w \in Worlds, NEW rest \in Seq(Event), Commit(t, w, rest),
           sent' = sent
    PROVE  /\ (store \in Store)' /\ IsInjective([i \in DOMAIN store.peers |-> store.peers[i].id])'
           /\ (tab \in [Tabs -> Tab])'
           /\ (inbox \in [Tabs -> Seq(Event)])'
           /\ elected' \subseteq Tabs
  <1>1. Store' = Store /\ Tab' = Tab /\ Event' = Event
    BY DEF Store, Tab, Event
  <1>2. /\ w.s \in Store /\ w.s.peers \in Peers /\ w.b \in Tab /\ w.events \in Seq(Event)
    BY DEF Worlds, Store, Peers
  <1>3. /\ store' = w.s /\ tab' = [tab EXCEPT ![t] = w.b]
        /\ elected' = IF w.b.master THEN elected \cup {t} ELSE elected
    BY DEF Commit
  <1>4. Distinct(store'.peers)
    BY <1>2, <1>3 DEF Peers
  <1>5. IsInjective([i \in DOMAIN store.peers |-> store.peers[i].id])'
    BY <1>4, PeersDistinct
  <1>6. tab' \in [Tabs -> Tab] /\ elected' \subseteq Tabs
    BY <1>2, <1>3 DEF TypeOK
  <1>7. inbox' \in [Tabs -> Seq(Event)]
    <2>1. inbox' = [u \in Tabs |-> IF u = t THEN rest
                                   ELSE IF u \in Open THEN inbox[u] \o w.events
                                   ELSE inbox[u]]
      BY DEF Commit
    <2>2. ASSUME NEW u \in Tabs PROVE inbox[u] \in Seq(Event) /\ inbox[u] \o w.events \in Seq(Event)
      BY <1>2 DEF TypeOK
    <2> QED
      BY <2>1, <2>2
  <1> QED
    BY <1>1, <1>2, <1>3, <1>5, <1>6, <1>7

(* The other parts do not change.                                          *)
LEMMA Unseen ==
    ASSUME TypeOK, sent' = sent, UNCHANGED <<message, seen, skipped, untold>>
    PROVE  /\ (message \in [1 .. sent -> Messages])'
           /\ (seen \in [Tabs -> Seq(1 .. sent)])'
           /\ (skipped \in [Tabs -> SUBSET (1 .. sent)])'
           /\ untold' \subseteq 1 .. sent'
  BY DEF TypeOK

LEMMA Unspent ==
    ASSUME TypeOK, spent' = spent
    PROVE  /\ sent' = sent
           /\ Budgeted'
  BY DEF TypeOK, Budgeted, sent

LEMMA LoadTyped ==
    ASSUME TypeOK, NEW t \in Tabs, Load(t)
    PROVE  TypeOK'
  <1>1. sent' = sent /\ Budgeted'
    BY SpentTyped DEF Load
  <1>2. Store' = Store /\ Tab' = Tab /\ Event' = Event
    BY <1>1 DEF Store, Tab, Event
  <1>3. store.last \in 0 .. sent /\ tab[t] \in Tab /\ tab \in [Tabs -> Tab]
    BY DEF TypeOK, Store
  <1> DEFINE c == [tab[t] EXCEPT !.state = "loaded", !.last = store.last, !.first = store.last]
  <1>4. c \in Tab
    BY <1>3 DEF Tab
  <1>5. tab' = [tab EXCEPT ![t] = c]
    BY <1>3 DEF Load, Tab
  <1> HIDE DEF c
  <1>6. tab' \in [Tabs -> Tab]
    BY <1>3, <1>4, <1>5
  <1> QED
    BY <1>1, <1>2, <1>6, Unseen DEF TypeOK, Load

AskedTyped == asked \in [Tabs -> SUBSET Channels]

(* A handler of the tab that leaves the notifications alone.               *)
LEMMA HandlersTyped ==
    ASSUME TypeOK, NEW t \in Tabs, NEW tie \in BOOLEAN, NEW w \in Worlds, Commit(t, w, inbox[t]),
           UNCHANGED <<message, seen, skipped, untold>>,
           AskedTyped', crossed' \in BOOLEAN,
           sent' = sent, Budgeted'
    PROVE  TypeOK'
  <1>1. inbox[t] \in Seq(Event)
    BY DEF TypeOK
  <1> QED
    BY <1>1, CommitTyped, Unseen DEF TypeOK, AskedTyped

LEMMA StartTyped ==
    ASSUME TypeOK, NEW t \in Tabs, Start(t)
    PROVE  TypeOK'
  <1>1. PICK tie \in BOOLEAN : Commit(t, StartPolling(World(t), t, tie), inbox[t])
    BY DEF Start
  <1>2. StartPolling(World(t), t, tie) \in Worlds
    BY WorldTyped, StartPollingTyped
  <1>3. AskedTyped' /\ crossed' \in BOOLEAN /\ UNCHANGED <<message, seen, skipped, untold, spent>>
    BY DEF TypeOK, AskedTyped, Start
  <1> QED
    BY <1>1, <1>2, <1>3, Unspent, HandlersTyped

LEMMA AddChannelTyped ==
    ASSUME TypeOK, NEW t \in Tabs, NEW c \in Channels, AddChannel(t, c)
    PROVE  TypeOK'
  <1>1. PICK tie \in BOOLEAN : Commit(t, Subscribed(World(t), c, t, tie), inbox[t])
    BY DEF AddChannel
  <1>2. Subscribed(World(t), c, t, tie) \in Worlds
    BY WorldTyped, SubscribedTyped
  <1>3. AskedTyped' /\ crossed' \in BOOLEAN /\ Spend("added")
        /\ UNCHANGED <<message, seen, skipped, untold>>
    <2>1. AskedTyped'
      BY DEF TypeOK, AddChannel, AskedTyped
    <2> QED
      BY <2>1 DEF TypeOK, AddChannel
  <1> QED
    BY <1>1, <1>2, <1>3, SpentTyped, HandlersTyped

LEMMA HeartbeatTyped ==
    ASSUME TypeOK, NEW t \in Tabs, Heartbeat(t)
    PROVE  TypeOK'
  <1>1. PICK tie \in BOOLEAN : Commit(t, Beat(World(t), t, tie), inbox[t])
    BY DEF Heartbeat
  <1>2. Beat(World(t), t, tie) \in Worlds
    BY WorldTyped, BeatTyped
  <1>3. AskedTyped' /\ crossed' \in BOOLEAN /\ UNCHANGED <<message, seen, skipped, untold, spent>>
    BY DEF TypeOK, AskedTyped, Heartbeat
  <1> QED
    BY <1>1, <1>2, <1>3, Unspent, HandlersTyped

LEMMA OnStorageTyped ==
    ASSUME TypeOK, NEW t \in Tabs, OnStorage(t)
    PROVE  TypeOK'
  <1> DEFINE e == Head(inbox[t])
             w == World(t)
  <1>1. inbox[t] \in Seq(Event) /\ e \in Event /\ Tail(inbox[t]) \in Seq(Event)
    BY DEF TypeOK, OnStorage
  <1>2. PICK h : /\ Commit(t, h, Tail(inbox[t]))
                 /\ \/ h = w
                    \/ \E tie \in BOOLEAN : h = StartElection(w, t, tie)
                    \/ e.key = "last" /\ h = [w EXCEPT !.b.last = e.value]
                    \/ e.key = "channels" /\ h \in Adopted(w, e.value, t)
    BY DEF OnStorage
  <1>3. w \in Worlds
    BY WorldTyped
  <1>4. IF e.key # "notification" THEN UNCHANGED <<seen, skipped>>
        ELSE IF w.b.master
        THEN skipped' = [skipped EXCEPT ![t] = @ \cup ToSet(e.value)] /\ UNCHANGED seen
        ELSE seen' = [seen EXCEPT ![t] = @ \o e.value] /\ UNCHANGED skipped
    BY DEF OnStorage
  <1>5. UNCHANGED <<message, untold, asked, crossed, spent>>
    BY DEF OnStorage
  <1> HIDE DEF e, w
  <1>6. /\ e.key = "last" => e.value \in 0 .. sent
        /\ e.key = "notification" => e.value \in Seq(1 .. sent)
        /\ e.key = "channels" => e.value \in Seq(Channels)
    BY <1>1 DEF Event
  <1>7. h \in Worlds
    <2>1. CASE \E tie \in BOOLEAN : h = StartElection(w, t, tie)
      BY <1>3, <2>1, StartElectionTyped
    <2>2. CASE e.key = "last" /\ h = [w EXCEPT !.b.last = e.value]
      BY <1>3, <1>6, <2>2 DEF Worlds, Tab
    <2>3. CASE e.key = "channels" /\ h \in Adopted(w, e.value, t)
      BY <1>3, <1>6, <2>3, AdoptedTyped
    <2> QED
      BY <1>2, <1>3, <2>1, <2>2, <2>3
  <1>8. sent' = sent
    BY <1>5, Unspent
  <1>9. /\ (seen \in [Tabs -> Seq(1 .. sent)])'
        /\ (skipped \in [Tabs -> SUBSET (1 .. sent)])'
    <2>1. seen \in [Tabs -> Seq(1 .. sent)] /\ skipped \in [Tabs -> SUBSET (1 .. sent)]
      BY DEF TypeOK
    <2>2. CASE e.key # "notification"
      BY <1>4, <1>8, <2>1, <2>2
    <2>3. CASE e.key = "notification"
      <3>1. e.value \in Seq(1 .. sent) /\ ToSet(e.value) \subseteq 1 .. sent
            /\ seen[t] \o e.value \in Seq(1 .. sent)
        <4> DEFINE N == 1 .. sent
        <4>1. e.value \in Seq(N) /\ seen[t] \in Seq(N)
          BY <1>6, <2>1, <2>3
        <4> HIDE DEF N
        <4>2. ToSet(e.value) \subseteq N /\ seen[t] \o e.value \in Seq(N)
          BY <4>1 DEF ToSet
        <4> QED
          BY <4>1, <4>2 DEF N
      <3> QED
        BY <1>4, <1>8, <2>1, <2>3, <3>1
    <2> QED
      BY <2>2, <2>3
  <1> QED
    BY <1>1, <1>2, <1>5, <1>7, <1>8, <1>9, CommitTyped, Unspent DEF TypeOK

LEMMA SharedTyped ==
    ASSUME TypeOK, NEW w \in Worlds, NEW news \in Seq(1 .. sent)
    PROVE  Shared(w, news) \in Worlds
  <1>1. w.b.last \in 0 .. sent
    BY DEF Worlds, Tab
  <1>2. SetItem(w, "last", w.b.last) \in Worlds
    BY <1>1, SetItemTyped
  <1>3. Held(news) \in Seq(Messages)
    <2>1. ASSUME NEW i \in DOMAIN news PROVE message[news[i]] \in Messages
      <3>1. news[i] \in 1 .. sent
        <4> DEFINE N == 1 .. sent
        <4>1. news \in Seq(N) /\ i \in DOMAIN news
          OBVIOUS
        <4> HIDE DEF N
        <4>2. news[i] \in N
          BY <4>1
        <4> QED
          BY <4>2 DEF N
      <3>2. message \in [1 .. sent -> Messages]
        BY DEF TypeOK
      <3> QED
        BY <3>1, <3>2
    <2>2. DOMAIN news = 1 .. Len(news) /\ Len(news) \in Nat
      OBVIOUS
    <2> QED
      BY <2>1, <2>2 DEF Held
  <1> DEFINE y == SetItem(w, "last", w.b.last)
             f == [key |-> "notification", value |-> news]
             h == Held(news)
             x == [y EXCEPT !.s.notification = h, !.events = Append(@, f)]
  <1>4. Shared(w, news) \in {w, y, x}
    BY DEF Shared
  <1>5. f \in Event
    BY DEF Event
  <1> HIDE DEF y, f, h
  <1>6. Append(y.events, f) \in Seq(Event) /\ h \in Seq(Messages)
    BY <1>2, <1>3, <1>5 DEF Worlds, y, h
  <1>7. [y EXCEPT !.s.notification = h, !.events = Append(y.events, f)] \in Worlds
    BY <1>2, <1>6 DEF Worlds, y
  <1>8. x = [y EXCEPT !.s.notification = h, !.events = Append(y.events, f)]
    BY <1>2 DEF Worlds, y
  <1> HIDE DEF x
  <1> QED
    BY <1>2, <1>4, <1>7, <1>8 DEF y

LEMMA OnPollTyped ==
    ASSUME TypeOK, NEW t \in Tabs, OnPoll(t)
    PROVE  TypeOK'
  <1> DEFINE w == World(t)
             news == [i \in 1 .. sent - w.b.from |-> w.b.from + i]
             noted == IF news # <<>> /\ sent > w.b.last THEN [w EXCEPT !.b.last = sent] ELSE w
             x == Shared(noted, news)
  <1>1. /\ Commit(t, [x EXCEPT !.b = Poll(@)], inbox[t])
        /\ seen' = [seen EXCEPT ![t] = @ \o news]
        /\ untold' \subseteq untold \cup ToSet(news)
        /\ UNCHANGED <<message, skipped, asked, crossed, spent>>
    BY DEF OnPoll
  <1>2. w \in Worlds /\ sent \in Nat
    BY WorldTyped, SentType
  <1> HIDE DEF w
  <1>3. w.b.from \in 0 .. sent
    BY <1>2 DEF Worlds, Tab
  <1>4. news \in Seq(1 .. sent)
    BY <1>2, <1>3
  <1> HIDE DEF news
  <1>5. noted \in Worlds
    <2>1. sent \in 0 .. sent
      BY <1>2
    <2>2. [w EXCEPT !.b.last = sent] \in Worlds
      BY <1>2, <2>1 DEF Worlds, Tab
    <2> QED
      BY <1>2, <2>2
  <1>6. x \in Worlds
    BY <1>4, <1>5, SharedTyped
  <1> HIDE DEF x
  <1>7. [x EXCEPT !.b = Poll(@)] \in Worlds
    <2>1. Poll(x.b) \in Tab
      BY <1>6, PollIsTab DEF Worlds
    <2>2. [x EXCEPT !.b = Poll(@)] = [x EXCEPT !.b = Poll(x.b)]
      BY <1>6 DEF Worlds
    <2> QED
      BY <1>6, <2>1, <2>2, TabTyped
  <1>8. sent' = sent /\ inbox[t] \in Seq(Event)
    BY <1>1, Unspent DEF TypeOK
  <1>9. (seen \in [Tabs -> Seq(1 .. sent)])'
    <2>1. seen \in [Tabs -> Seq(1 .. sent)]
      BY DEF TypeOK
    <2>2. seen[t] \o news \in Seq(1 .. sent)
      BY <1>4, <2>1
    <2> QED
      BY <1>1, <1>8, <2>1, <2>2
  <1>10. untold' \subseteq 1 .. sent
    <2> DEFINE N == 1 .. sent
    <2>1. news \in Seq(N) /\ untold \subseteq N
      BY <1>4 DEF TypeOK
    <2> HIDE DEF N
    <2>2. ToSet(news) \subseteq N
      BY <2>1 DEF ToSet
    <2> QED
      BY <1>1, <2>1, <2>2 DEF N
  <1> QED
    BY <1>1, <1>7, <1>8, <1>9, <1>10, CommitTyped, Unspent DEF TypeOK

(* Handlers that change their own tab only.                                *)
LEMMA OwnTabTyped ==
    ASSUME TypeOK, NEW t \in Tabs, NEW c \in Tab, tab' = [tab EXCEPT ![t] = c],
           UNCHANGED <<store, message, seen, skipped, untold, elected, asked, crossed>>,
           inbox' \in [Tabs -> Seq(Event)],
           sent' = sent, Budgeted'
    PROVE  TypeOK'
  <1>1. Store' = Store /\ Tab' = Tab /\ Event' = Event
    BY DEF Store, Tab, Event
  <1>2. tab' \in [Tabs -> Tab]
    BY DEF TypeOK
  <1> QED
    BY <1>1, <1>2, Unseen DEF TypeOK

LEMMA PollFailsTyped ==
    ASSUME TypeOK, NEW t \in Tabs, PollFails(t)
    PROVE  TypeOK'
  <1>1. tab \in [Tabs -> Tab] /\ inbox \in [Tabs -> Seq(Event)]
    BY DEF TypeOK
  <1>2. tab' = [tab EXCEPT ![t] = [tab[t] EXCEPT !.poll = "retry"]]
    BY <1>1 DEF PollFails
  <1>3. [tab[t] EXCEPT !.poll = "retry"] \in Tab
    BY <1>1 DEF Tab
  <1> QED
    BY <1>1, <1>2, <1>3, OwnTabTyped, SpentTyped DEF PollFails

LEMMA PollAgainTyped ==
    ASSUME TypeOK, NEW t \in Tabs, PollAgain(t)
    PROVE  TypeOK'
  <1>1. tab \in [Tabs -> Tab] /\ inbox \in [Tabs -> Seq(Event)]
    BY DEF TypeOK
  <1>2. tab' = [tab EXCEPT ![t] = Poll(tab[t])]
    BY <1>1 DEF PollAgain
  <1>3. Poll(tab[t]) \in Tab
    BY <1>1, PollIsTab
  <1> QED
    BY <1>1, <1>2, <1>3, OwnTabTyped, Unspent DEF PollAgain

LEMMA CrashTabTyped ==
    ASSUME TypeOK, NEW t \in Tabs, CrashTab(t)
    PROVE  TypeOK'
  <1>1. tab \in [Tabs -> Tab] /\ inbox \in [Tabs -> Seq(Event)]
    BY DEF TypeOK
  <1>2. tab' = [tab EXCEPT ![t] = [tab[t] EXCEPT !.state = "gone", !.master = FALSE]]
    BY <1>1 DEF CrashTab
  <1>3. [tab[t] EXCEPT !.state = "gone", !.master = FALSE] \in Tab
    BY <1>1 DEF Tab
  <1>4. inbox' \in [Tabs -> Seq(Event)]
    BY <1>1 DEF CrashTab
  <1> QED
    BY <1>2, <1>3, <1>4, OwnTabTyped, SpentTyped DEF CrashTab

LEMMA UnloadTyped ==
    ASSUME TypeOK, NEW t \in Tabs, Unload(t)
    PROVE  TypeOK'
  <1> DEFINE w == [World(t) EXCEPT !.b.state = "gone", !.b.master = FALSE]
             left == IF tab[t].state = "registered"
                     THEN [w EXCEPT !.s.peers = WithoutPeer(@, t)] ELSE w
             e == [key |-> "master", value |-> 0]
             freed == [left EXCEPT !.s.master = FALSE, !.events = Append(@, e)]
             x == IF tab[t].master /\ store.master THEN freed ELSE left
  <1>1. Commit(t, x, <<>>) /\ UNCHANGED <<message, seen, skipped, untold, asked, crossed, spent>>
    BY DEF Unload
  <1>2. w \in Worlds
    <2>1. World(t) \in Worlds
      BY WorldTyped
    <2> QED
      BY <2>1 DEF Worlds, Tab
  <1> HIDE DEF w
  <1>3. left \in Worlds
    <2>1. WithoutPeer(w.s.peers, t) \in Peers
      BY <1>2, WithoutPeerIsPeers DEF Worlds
    <2>2. [w EXCEPT !.s.peers = WithoutPeer(@, t)]
            = [w EXCEPT !.s.peers = WithoutPeer(w.s.peers, t)]
      BY <1>2 DEF Worlds
    <2> QED
      BY <1>2, <2>1, <2>2, PeersTyped
  <1> HIDE DEF left
  <1>4. e \in Event
    BY DEF Event
  <1> HIDE DEF e
  <1>5. freed \in Worlds
    <2>1. Append(left.events, e) \in Seq(Event)
      BY <1>3, <1>4 DEF Worlds
    <2>2. [left EXCEPT !.s.master = FALSE, !.events = Append(left.events, e)] \in Worlds
      BY <1>3, <2>1 DEF Worlds
    <2>3. freed = [left EXCEPT !.s.master = FALSE, !.events = Append(left.events, e)]
      BY <1>3 DEF Worlds
    <2> QED
      BY <2>2, <2>3
  <1>6. x \in Worlds /\ <<>> \in Seq(Event)
    BY <1>3, <1>5
  <1> HIDE DEF x
  <1>7. sent' = sent
    BY <1>1, Unspent
  <1> QED
    BY <1>1, <1>6, <1>7, CommitTyped, Unseen, Unspent DEF TypeOK

LEMMA SendTyped ==
    ASSUME TypeOK, NEW m \in Messages, Send(m)
    PROVE  TypeOK'
  <1>1. /\ sent' = sent + 1
        /\ Budgeted'
    BY SpentTyped DEF Send
  <1>2. /\ Store \subseteq Store' /\ Tab \subseteq Tab' /\ Seq(Event) \subseteq Seq(Event')
        /\ Seq(1 .. sent) \subseteq Seq(1 .. sent') /\ 1 .. sent \subseteq 1 .. sent'
    BY <1>1, TypesGrow
  <1>3. UNCHANGED <<store, tab, inbox, seen, skipped, untold, elected, asked, crossed>>
    BY DEF Send
  <1>4. (message \in [1 .. sent -> Messages])'
    <2>1. sent \in Nat /\ message \in [1 .. sent -> Messages]
      BY SentType DEF TypeOK
    <2>2. message' = [n \in 1 .. sent + 1 |-> IF n <= sent THEN message[n] ELSE m]
      BY DEF Send
    <2>3. \A n \in 1 .. sent + 1 : n <= sent => message[n] \in Messages
      BY <2>1
    <2> QED
      BY <1>1, <2>2, <2>3
  <1> QED
    BY <1>1, <1>2, <1>3, <1>4 DEF TypeOK

LEMMA TickTyped ==
    ASSUME TypeOK, Tick
    PROVE  TypeOK'
  <1> DEFINE older(age) == IF age < Old THEN age + 1 ELSE Old
             p == store.peers
             peers == [i \in DOMAIN p |-> [p[i] EXCEPT !.age = older(@)]]
  <1>1. /\ sent' = sent
        /\ Budgeted'
    BY SpentTyped, Unspent DEF Tick
  <1>2. Store' = Store /\ Tab' = Tab /\ Event' = Event
    BY <1>1 DEF Store, Tab, Event
  <1>3. store' = [store EXCEPT !.heartbeat = older(@), !.peers = peers]
    BY DEF Tick
  <1>4. \A age \in Ages : older(age) \in Ages
    BY PeriodsAssumption DEF Ages, Old
  <1>5. store \in Store /\ p \in Seq(Peer) /\ Distinct(p) /\ store.heartbeat \in Ages
    BY PeersDistinct DEF TypeOK, Store
  <1> HIDE DEF older
  <1>6. ASSUME NEW i \in DOMAIN p PROVE peers[i] \in Peer /\ peers[i].id = p[i].id
    <2>1. p[i] \in Peer
      BY <1>5
    <2>2. older(p[i].age) \in Ages
      BY <1>4, <2>1 DEF Peer
    <2>3. peers[i] = [p[i] EXCEPT !.age = older(p[i].age)]
      BY <2>1 DEF Peer
    <2> QED
      BY <2>1, <2>2, <2>3 DEF Peer
  <1>7. peers \in Seq(Peer) /\ DOMAIN peers = DOMAIN p
    <2>1. DOMAIN p = 1 .. Len(p) /\ Len(p) \in Nat
      BY <1>5
    <2>2. DOMAIN peers = DOMAIN p /\ peers = [i \in DOMAIN p |-> peers[i]]
      OBVIOUS
    <2>3. \A i \in DOMAIN p : peers[i] \in Peer
      BY <1>6
    <2> HIDE DEF peers
    <2> QED
      BY <2>1, <2>2, <2>3
  <1>8. Distinct(peers)
    BY <1>5, <1>6, <1>7 DEF Distinct
  <1> HIDE DEF peers
  <1>9. store' \in Store /\ store'.peers = peers
    BY <1>3, <1>4, <1>5, <1>7 DEF Store
  <1>10. IsInjective([i \in DOMAIN store.peers |-> store.peers[i].id])'
    BY <1>8, <1>9, PeersDistinct
  <1>11. tab' \in [Tabs -> Tab]
    <2>1. tab' = [u \in Tabs |-> IF tab[u].timer = 0 THEN tab[u]
                                ELSE [tab[u] EXCEPT !.timer = @ - 1]]
      BY DEF Tick
    <2>2. ASSUME NEW u \in Tabs PROVE tab'[u] \in Tab
      <3>1. tab[u] \in Tab
        BY DEF TypeOK
      <3>2. CASE tab[u].timer # 0
        <4>1. tab[u].timer - 1 \in 0 .. TAB_HEARTBEAT_PERIOD
          BY <3>1, <3>2, PeriodsAssumption DEF Tab
        <4>2. [tab[u] EXCEPT !.timer = tab[u].timer - 1] \in Tab
          BY <3>1, <4>1 DEF Tab
        <4> QED
          BY <2>1, <3>1, <3>2, <4>2 DEF Tab
      <3> QED
        BY <2>1, <3>1, <3>2
    <2> QED
      BY <2>1, <2>2
  <1> QED
    BY <1>1, <1>2, <1>9, <1>10, <1>11, Unseen DEF TypeOK, Tick

LEMMA InitTyped ==
    ASSUME Init
    PROVE  TypeOK
  <1>1. sent = 0
    BY DEF Init, sent
  <1>2. PICK b \in Budgets : TRUE
    BY BudgetsAssumption
  <1>3. DOMAIN b = {"opened", "sent", "added", "failed", "late"} /\ \A k \in DOMAIN b : b[k] \in Nat
    BY BudgetsAssumption
  <1>4. spent \in [DOMAIN b -> Nat] /\ \A k \in DOMAIN b : spent[k] <= b[k]
    BY <1>3 DEF Init
  <1>5. store \in Store
    BY <1>1, PeriodsAssumption DEF Init, Store, Ages, Old
  <1>6. IsInjective([i \in DOMAIN store.peers |-> store.peers[i].id])
    <2>1. Distinct(store.peers)
      BY DEF Init, Distinct
    <2> QED
      BY <2>1, PeersDistinct
  <1>7. tab \in [Tabs -> Tab]
    BY <1>1, PeriodsAssumption DEF Init, Tab
  <1>8. /\ inbox \in [Tabs -> Seq(Event)] /\ seen \in [Tabs -> Seq(1 .. sent)]
        /\ skipped \in [Tabs -> SUBSET (1 .. sent)]
        /\ elected \subseteq Tabs /\ asked \in [Tabs -> SUBSET Channels]
        /\ untold \subseteq 1 .. sent /\ crossed \in BOOLEAN
    <2>1. \A S : <<>> \in Seq(S) /\ {} \in SUBSET S
      OBVIOUS
    <2> QED
      BY <2>1 DEF Init
  <1>9. message \in [1 .. sent -> Messages]
    <2>1. <<>> \in [1 .. 0 -> Messages]
      OBVIOUS
    <2> QED
      BY <1>1, <2>1 DEF Init
  <1> QED
    BY <1>4, <1>5, <1>6, <1>7, <1>8, <1>9 DEF TypeOK, Budgeted

(* The types of the local storage and of the tabs, and no tab twice in the *)
(* list of peers.                                                          *)
THEOREM TypeCorrect == Spec => []TypeOK
  <1>1. Init => TypeOK
    BY InitTyped
  <1>2. TypeOK /\ [Next]_vars => TypeOK'
    <2> SUFFICES ASSUME TypeOK, [Next]_vars PROVE TypeOK'
      OBVIOUS
    <2>1. ASSUME NEW t \in Tabs, Load(t) PROVE TypeOK'
      BY <2>1, LoadTyped
    <2>2. ASSUME NEW t \in Tabs, Start(t) PROVE TypeOK'
      BY <2>2, StartTyped
    <2>3. ASSUME NEW t \in Tabs, NEW c \in Channels, AddChannel(t, c) PROVE TypeOK'
      BY <2>3, AddChannelTyped
    <2>4. ASSUME NEW t \in Tabs, Heartbeat(t) PROVE TypeOK'
      BY <2>4, HeartbeatTyped
    <2>5. ASSUME NEW t \in Tabs, OnStorage(t) PROVE TypeOK'
      BY <2>5, OnStorageTyped
    <2>6. ASSUME NEW t \in Tabs, OnPoll(t) PROVE TypeOK'
      BY <2>6, OnPollTyped
    <2>7. ASSUME NEW t \in Tabs, PollFails(t) PROVE TypeOK'
      BY <2>7, PollFailsTyped
    <2>8. ASSUME NEW t \in Tabs, PollAgain(t) PROVE TypeOK'
      BY <2>8, PollAgainTyped
    <2>9. ASSUME NEW t \in Tabs, Unload(t) PROVE TypeOK'
      BY <2>9, UnloadTyped
    <2>10. ASSUME NEW t \in Tabs, CrashTab(t) PROVE TypeOK'
      BY <2>10, CrashTabTyped
    <2>11. ASSUME NEW m \in Messages, Send(m) PROVE TypeOK'
      BY <2>11, SendTyped
    <2>12. CASE Tick
      BY <2>12, TickTyped
    <2>13. CASE UNCHANGED vars
      BY <2>13 DEF vars, TypeOK, Budgeted, Store, Tab, Event, sent
    <2> QED
      BY <2>1, <2>2, <2>3, <2>4, <2>5, <2>6, <2>7, <2>8, <2>9, <2>10, <2>11, <2>12, <2>13 DEF Next
  <1> QED
    BY <1>1, <1>2, PTL DEF Spec
====
