------------------------------ MODULE Crosstab ------------------------------
(***************************************************************************)
(* The notification bus of the web client: CrossTabBus                     *)
(* (src/addons/bus/static/src/js/crosstab_bus.js) on LongpollingBus        *)
(* (longpolling_bus.js).                                                   *)
(*                                                                         *)
(* The tabs of a browser share one long polling: the tab that is master    *)
(* polls and passes the notifications on through the local storage.  The   *)
(* master is elected by heartbeats and a list of peers kept in the local   *)
(* storage; nothing locks it.  A tab hears of changes by storage events,   *)
(* which come later and only if the value changed: notifications with the  *)
(* same channels and messages as those before are shared without an event. *)
(*                                                                         *)
(* The server answers a poll with all notifications after its last; what   *)
(* it leaves out of the first answer (those older than 50 seconds) is in   *)
(* BusDispatch: here none waits that long.                                 *)
(*                                                                         *)
(* One action is one handler of one tab.  Timestamps are kept as ages: the *)
(* code only compares them with the present.                               *)
(***************************************************************************)
EXTENDS Integers, Sequences, SequencesExt, FiniteSets

CONSTANTS
    Tabs,             \* numbers
    Channels,         \* the channels that widgets add
    Messages,         \* what notifications hold: their channel and message
    MASTER_TAB_HEARTBEAT_PERIOD,
    TAB_HEARTBEAT_PERIOD,
    HEARTBEAT_OUT_OF_DATE_PERIOD,
    HEARTBEAT_KILL_OLD_PERIOD,
    Budgets           \* bounds: each allows so many opened tabs, notifications,
                      \* calls of addChannel, failures (crashed tabs, failed polls)
                      \* and instants that pass while handlers wait

ASSUME PeriodsAssumption ==
    /\ MASTER_TAB_HEARTBEAT_PERIOD \in Nat /\ TAB_HEARTBEAT_PERIOD \in Nat
    /\ HEARTBEAT_OUT_OF_DATE_PERIOD \in Nat /\ HEARTBEAT_KILL_OLD_PERIOD \in Nat
    /\ MASTER_TAB_HEARTBEAT_PERIOD <= HEARTBEAT_OUT_OF_DATE_PERIOD
    /\ MASTER_TAB_HEARTBEAT_PERIOD <= TAB_HEARTBEAT_PERIOD
    /\ TAB_HEARTBEAT_PERIOD < HEARTBEAT_KILL_OLD_PERIOD
    /\ Tabs \subseteq Nat

ASSUME BudgetsAssumption ==
    /\ Budgets # {}
    /\ Budgets \subseteq [opened : Nat, sent : Nat, added : Nat, failed : Nat, late : Nat]

VARIABLES
    store,      \* the local storage
    tab,        \* Tabs -> the tab's bus
    inbox,      \* Tabs -> storage events not handled yet
    message,    \* what the notifications sent hold, by identifier
    seen,       \* Tabs -> sequence of the notifications triggered in the tab (history)
    skipped,    \* Tabs -> those it ignored as it was master itself (history)
    untold,     \* the notifications shared without a storage event (history)
    elected,    \* the tabs that ever were master (history)
    asked,      \* Tabs -> the channels it added once registered (history)
    crossed,    \* a channel was added with a list of channels on its way to a tab
                \* (history)
    spent       \* of the budgets; spent.sent is the last notification committed

vars == <<store, tab, inbox, message, seen, skipped, untold, elected, asked, crossed, spent>>

sent == spent.sent

Old == HEARTBEAT_KILL_OLD_PERIOD + 1    \* ages stop growing here
Ages == 0 .. Old
Peer == [id : Tabs, age : Ages]

(* heartbeat is the age of the value, writers the tabs whose lastHeartbeat *)
(* it equals (two, if they wrote in the same millisecond).                 *)
Store == [master : BOOLEAN, heartbeat : Ages, writers : SUBSET Tabs, peers : Seq(Peer),
          channels : Seq(Channels), last : 0 .. sent, notification : Seq(Messages)]

(* state: "absent", "loaded" (init done, startPolling not called),         *)
(* "registered", "gone".  poll: "no", "open", "retry" (waiting for         *)
(* ERROR_RETRY_DELAY); from is the parameter last of the open poll, first  *)
(* the last notification when the tab was loaded.                          *)
Tab == [state : {"absent", "loaded", "registered", "gone"}, master : BOOLEAN,
        active : BOOLEAN, poll : {"no", "open", "retry"}, from : 0 .. sent,
        last : 0 .. sent, first : 0 .. sent, channels : Seq(Channels),
        timer : 0 .. TAB_HEARTBEAT_PERIOD]

(* The value of an event of notification stands for what the notifications *)
(* hold; the identifiers are not passed on.                                *)
Event == [key : {"master"}, value : {0}]
         \cup [key : {"last"}, value : 0 .. sent]
         \cup [key : {"notification"}, value : Seq(1 .. sent)]
         \cup [key : {"channels"}, value : Seq(Channels)]

Budgeted == \E b \in Budgets : spent \in [DOMAIN b -> Nat] /\ \A k \in DOMAIN b : spent[k] <= b[k]

TypeOK ==
    /\ store \in Store
    /\ IsInjective([i \in DOMAIN store.peers |-> store.peers[i].id])
    /\ tab \in [Tabs -> Tab]
    /\ inbox \in [Tabs -> Seq(Event)]
    /\ message \in [1 .. sent -> Messages]
    /\ seen \in [Tabs -> Seq(1 .. sent)]
    /\ skipped \in [Tabs -> SUBSET (1 .. sent)]
    /\ untold \subseteq 1 .. sent
    /\ elected \subseteq Tabs
    /\ asked \in [Tabs -> SUBSET Channels]
    /\ crossed \in BOOLEAN
    /\ Budgeted

Init ==
    /\ store = [master |-> FALSE, heartbeat |-> Old, writers |-> {}, peers |-> <<>>,
                channels |-> <<>>, last |-> 0, notification |-> <<>>]
    /\ tab = [t \in Tabs |->
                [state |-> "absent", master |-> FALSE, active |-> FALSE, poll |-> "no",
                 from |-> 0, last |-> 0, first |-> 0, channels |-> <<>>, timer |-> 0]]
    /\ inbox = [t \in Tabs |-> <<>>]
    /\ message = <<>>
    /\ seen = [t \in Tabs |-> <<>>]
    /\ skipped = [t \in Tabs |-> {}]
    /\ untold = {}
    /\ elected = {}
    /\ asked = [t \in Tabs |-> {}]
    /\ crossed = FALSE
    /\ spent = [opened |-> 0, sent |-> 0, added |-> 0, failed |-> 0, late |-> 0]

Open == {t \in Tabs : tab[t].state \in {"loaded", "registered"}}
Registered == {t \in Tabs : tab[t].state = "registered"}
Masters == {t \in Open : tab[t].master}

-----------------------------------------------------------------------------
(* The object peers: keys in the order of their insertion.                 *)

(* Mutant: a list rather than an object.                                   *)
MutWithPeer(peers, t) == Append(peers, [id |-> t, age |-> 0])

WithPeer(peers, t) ==
    IF \E i \in DOMAIN peers : peers[i].id = t
    THEN [i \in DOMAIN peers |-> IF peers[i].id = t THEN [id |-> t, age |-> 0] ELSE peers[i]]
    ELSE Append(peers, [id |-> t, age |-> 0])

(* The elements of s at the places I, in their order.                      *)
At(s, I) == [k \in 1 .. Cardinality(I) |->
                s[CHOOSE i \in I : Cardinality({j \in I : j <= i}) = k]]

WithoutPeer(peers, t) == At(peers, {i \in DOMAIN peers : peers[i].id # t})

(* t is the first peer that is not dead: the next master.                  *)
FirstAlive(peers, t) ==
    \E i \in DOMAIN peers :
        /\ peers[i].id = t /\ peers[i].age <= HEARTBEAT_KILL_OLD_PERIOD
        /\ \A j \in 1 .. i - 1 : peers[j].age > HEARTBEAT_KILL_OLD_PERIOD

(* What a handler works on: the local storage s and its own tab b, and the *)
(* events it causes.                                                       *)
World(t) == [s |-> store, b |-> tab[t], events |-> <<>>]

SetItem(w, key, value) ==
    IF w.s[key] = value THEN w
    ELSE [w EXCEPT !.s[key] = value, !.events = Append(@, [key |-> key, value |-> value])]

(* Mutant: the parameter last of the poll is that of the first poll.       *)
MutPoll(b) == IF b.active THEN [b EXCEPT !.poll = "open", !.from = b.first]
              ELSE [b EXCEPT !.poll = "no"]

(* _poll, which every change of the list of channels starts again.         *)
Poll(b) == IF b.active THEN [b EXCEPT !.poll = "open", !.from = b.last]
           ELSE [b EXCEPT !.poll = "no"]

(* startPolling of LongpollingBus                                          *)
Activate(b) == IF b.active THEN b ELSE Poll([b EXCEPT !.active = TRUE])

StopPolling(b) == [b EXCEPT !.active = FALSE, !.channels = <<>>, !.poll = "no"]

(* The heartbeat is now; that of another tab may be the same millisecond.  *)
WriteHeartbeat(w, t, tie) ==
    [w EXCEPT !.s.heartbeat = 0,
              !.s.writers = IF tie /\ w.s.heartbeat = 0 THEN @ \cup {t} ELSE {t}]

(* Mutant: dead peers stay candidates.                                     *)
MutStartElection(w, t, tie) ==
    IF w.b.master \/ w.s.peers = <<>> \/ Head(w.s.peers).id # t
    THEN w
    ELSE LET chosen == WriteHeartbeat(w, t, tie)
         IN  [chosen EXCEPT !.s.master = TRUE,
                            !.s.peers = WithoutPeer(@, t),
                            !.b = Activate([@ EXCEPT !.master = TRUE])]

(* _startElection                                                          *)
StartElection(w, t, tie) ==
    IF w.b.master \/ ~FirstAlive(w.s.peers, t)
    THEN w
    ELSE LET chosen == WriteHeartbeat(w, t, tie)
         IN  [chosen EXCEPT !.s.master = TRUE,
                            !.s.peers = WithoutPeer(@, t),
                            !.b = Activate([@ EXCEPT !.master = TRUE])]

(* _heartbeat.  peers was read before the election: writing it back undoes *)
(* the removal of the new master from the list.                            *)
Beat(w0, t, tie) ==
    LET peers == w0.s.peers
        w == IF w0.s.heartbeat > HEARTBEAT_OUT_OF_DATE_PERIOD
             THEN StartElection(w0, t, tie) ELSE w0
        alone == t \in w.s.writers
        beaten ==
            IF ~w.b.master
            THEN [w EXCEPT !.s.peers = WithPeer(peers, t)]
            ELSE IF alone
            THEN [WriteHeartbeat(w, t, tie) EXCEPT
                     !.s.peers = At(peers, {i \in DOMAIN peers :
                                               peers[i].age < HEARTBEAT_KILL_OLD_PERIOD})]
            ELSE [w EXCEPT !.s.peers = WithPeer(peers, t),
                           !.b = StopPolling([@ EXCEPT !.master = FALSE])]
    IN  [beaten EXCEPT !.b.timer = IF beaten.b.master THEN MASTER_TAB_HEARTBEAT_PERIOD
                                                      ELSE TAB_HEARTBEAT_PERIOD]

(* startPolling of a tab that is not registered.                           *)
Register(w0, t, tie) ==
    LET listed == [w0 EXCEPT !.b.state = "registered", !.s.peers = WithPeer(@, t)]
        w == Beat(IF listed.s.master THEN listed ELSE StartElection(listed, t, tie), t, tie)
    IN  IF w.b.master THEN SetItem(w, "channels", w.b.channels)
        ELSE [w EXCEPT !.b.channels = w.s.channels]

StartPolling(w, t, tie) ==
    IF w.b.state = "loaded" THEN Register(w, t, tie)
    ELSE IF w.b.master THEN [w EXCEPT !.b = Activate(@)]
    ELSE w

(* Mutant: addChannel does not share the channels.                         *)
MutSubscribed(w, c, t, tie) ==
    IF c \in ToSet(w.b.channels) THEN w
    ELSE LET pushed == [w EXCEPT !.b.channels = Append(@, c)]
         IN  IF w.b.poll = "open" THEN [pushed EXCEPT !.b = Poll(@)]
             ELSE StartPolling(pushed, t, tie)

(* addChannel and deleteChannel of channel c, of both classes.             *)
Subscribed(w, c, t, tie) ==
    LET pushed == [w EXCEPT !.b.channels = Append(@, c)]
        polled == IF w.b.poll = "open" THEN [pushed EXCEPT !.b = Poll(@)]
                  ELSE StartPolling(pushed, t, tie)
        added == IF c \in ToSet(w.b.channels) THEN w ELSE polled
    IN  SetItem(added, "channels", added.b.channels)

Unsubscribed(w, c) ==
    LET spliced == [w EXCEPT !.b.channels = At(@, {i \in DOMAIN @ : @[i] # c})]
        deleted == IF w.b.poll = "open" THEN [spliced EXCEPT !.b = Poll(@)] ELSE spliced
    IN  SetItem(deleted, "channels", deleted.b.channels)

(* Another tab has set the channels to list: one call for each channel     *)
(* that is missing there, then one for each that is new (_.difference).    *)
(* Called: what may result of the nth channel of both lists.               *)
Called(worlds, own, list, n, t) ==
    LET c == (own \o list)[n]
    IN  IF c \in ToSet(own) /\ c \in ToSet(list) THEN worlds
        ELSE IF n <= Len(own) THEN {Unsubscribed(u, c) : u \in worlds}
        ELSE {Subscribed(u, c, t, tie) : u \in worlds, tie \in BOOLEAN}

Adopted(w, list, t) ==
    LET own == w.b.channels
        after[n \in 0 .. Len(own) + Len(list)] ==
            IF n = 0 THEN {w} ELSE Called(after[n - 1], own, list, n, t)
    IN  after[Len(own) + Len(list)]

(* The handler ends: its events go to the other tabs.                      *)
Commit(t, w, rest) ==
    /\ store' = w.s
    /\ tab' = [tab EXCEPT ![t] = w.b]
    /\ inbox' = [u \in Tabs |-> IF u = t THEN rest
                                ELSE IF u \in Open THEN inbox[u] \o w.events
                                ELSE inbox[u]]
    /\ elected' = IF w.b.master THEN elected \cup {t} ELSE elected

-----------------------------------------------------------------------------

Spend(k) ==
    /\ \E b \in Budgets : \A j \in DOMAIN b : spent[j] + (IF j = k THEN 1 ELSE 0) <= b[j]
    /\ spent' = [spent EXCEPT ![k] = @ + 1]

(* init.  Tabs are numbered in the order in which they are opened.         *)
Load(t) ==
    /\ tab[t].state = "absent"
    /\ \A u \in Tabs : u < t => tab[u].state # "absent"
    /\ Spend("opened")
    /\ tab' = [tab EXCEPT ![t].state = "loaded", ![t].last = store.last, ![t].first = store.last]
    /\ UNCHANGED <<store, inbox, message, seen, skipped, untold, elected, asked, crossed>>

(* startPolling, called by the services of the tab.                        *)
Start(t) ==
    /\ tab[t].state = "loaded"
    /\ \E tie \in BOOLEAN : Commit(t, StartPolling(World(t), t, tie), inbox[t])
    /\ UNCHANGED <<message, seen, skipped, untold, asked, crossed, spent>>

(* addChannel, called by a widget of the tab.                              *)
AddChannel(t, c) ==
    /\ t \in Open
    /\ Spend("added")
    /\ \E tie \in BOOLEAN : Commit(t, Subscribed(World(t), c, t, tie), inbox[t])
    /\ asked' = IF t \in Registered THEN [asked EXCEPT ![t] = @ \cup {c}] ELSE asked
    /\ crossed' = (crossed \/ \E u \in Tabs : \E i \in DOMAIN inbox[u] :
                                    inbox[u][i].key = "channels")
    /\ UNCHANGED <<message, seen, skipped, untold>>

Heartbeat(t) ==
    /\ tab[t].state = "registered"
    /\ tab[t].timer = 0
    /\ \E tie \in BOOLEAN : Commit(t, Beat(World(t), t, tie), inbox[t])
    /\ UNCHANGED <<message, seen, skipped, untold, asked, crossed, spent>>

(* _onStorage *)
OnStorage(t) ==
    /\ t \in Open
    /\ inbox[t] # <<>>
    /\ LET e == Head(inbox[t])
           w == World(t)
           handled ==
             CASE e.key = "master" /\ w.b.state = "registered" ->
                        {StartElection(w, t, tie) : tie \in BOOLEAN}
               [] e.key = "last" -> {[w EXCEPT !.b.last = e.value]}
               [] e.key = "channels" -> Adopted(w, e.value, t)
               [] OTHER -> {w}
       IN  /\ \E h \in handled : Commit(t, h, Tail(inbox[t]))
           /\ IF e.key # "notification" THEN UNCHANGED <<seen, skipped>>
              ELSE IF w.b.master
              THEN skipped' = [skipped EXCEPT ![t] = @ \cup ToSet(e.value)] /\ UNCHANGED seen
              ELSE seen' = [seen EXCEPT ![t] = @ \o e.value] /\ UNCHANGED skipped
    /\ UNCHANGED <<message, untold, asked, crossed, spent>>

(* Mutant: the master shares the last identifier, not the notifications.   *)
MutShared(w, news) == SetItem(w, "last", w.b.last)

(* What the notifications hold.                                            *)
Held(news) == [i \in DOMAIN news |-> message[news[i]]]

(* What the master's _onPoll passes on.                                    *)
Shared(w, news) ==
    IF news = <<>> THEN w
    ELSE LET noted == SetItem(w, "last", w.b.last)
         IN  IF noted.s.notification = Held(news) THEN noted
             ELSE [noted EXCEPT !.s.notification = Held(news),
                                !.events = Append(@, [key |-> "notification", value |-> news])]

(* _onPoll: the poll is answered, with the notifications after its last or *)
(* (when it timed out) with none, and the next one is sent.                *)
OnPoll(t) ==
    /\ t \in Open
    /\ tab[t].poll = "open"
    /\ LET w == World(t)
           news == [i \in 1 .. sent - w.b.from |-> w.b.from + i]
           noted == IF news # <<>> /\ sent > w.b.last THEN [w EXCEPT !.b.last = sent] ELSE w
       IN  /\ news # <<>> \/ w.b.last # w.b.from
           /\ Commit(t, [Shared(noted, news) EXCEPT !.b = Poll(@)], inbox[t])
           /\ seen' = [seen EXCEPT ![t] = @ \o news]
           /\ untold' = IF w.s.notification = Held(news) THEN untold \cup ToSet(news) ELSE untold
    /\ UNCHANGED <<message, skipped, asked, crossed, spent>>

(* The request fails; the next one is sent after ERROR_RETRY_DELAY.        *)
PollFails(t) ==
    /\ t \in Open
    /\ tab[t].poll = "open"
    /\ Spend("failed")
    /\ tab' = [tab EXCEPT ![t].poll = "retry"]
    /\ UNCHANGED <<store, inbox, message, seen, skipped, untold, elected, asked, crossed>>

PollAgain(t) ==
    /\ t \in Open
    /\ tab[t].poll = "retry"
    /\ tab' = [tab EXCEPT ![t] = Poll(@)]
    /\ UNCHANGED <<store, inbox, message, seen, skipped, untold, elected, asked, crossed,
                   spent>>

(* _onUnload, registered by startPolling: the window is closed.            *)
Unload(t) ==
    /\ t \in Open
    /\ LET w == [World(t) EXCEPT !.b.state = "gone", !.b.master = FALSE]
           left == IF tab[t].state = "registered"
                   THEN [w EXCEPT !.s.peers = WithoutPeer(@, t)] ELSE w
       IN  Commit(t, IF tab[t].master /\ store.master
                     THEN [left EXCEPT !.s.master = FALSE,
                                       !.events = Append(@, [key |-> "master", value |-> 0])]
                     ELSE left, <<>>)
    /\ UNCHANGED <<message, seen, skipped, untold, asked, crossed, spent>>

(* The tab crashes, or its process is killed: no handler runs.             *)
CrashTab(t) ==
    /\ t \in Open
    /\ Spend("failed")
    /\ tab' = [tab EXCEPT ![t].state = "gone", ![t].master = FALSE]
    /\ inbox' = [inbox EXCEPT ![t] = <<>>]
    /\ UNCHANGED <<store, message, seen, skipped, untold, elected, asked, crossed>>

Send(m) ==
    /\ Spend("sent")
    /\ message' = [n \in 1 .. sent + 1 |-> IF n <= sent THEN message[n] ELSE m]
    /\ UNCHANGED <<store, tab, inbox, seen, skipped, untold, elected, asked, crossed>>

(* Timers are punctual, except that some instants pass while they wait:    *)
(* the browser throttles its tabs, the computer sleeps.  Storage events    *)
(* may take any time.                                                      *)
Tick ==
    /\ IF \E t \in Registered : tab[t].timer = 0
       THEN Spend("late")
       ELSE UNCHANGED spent
    /\ LET older(age) == IF age < Old THEN age + 1 ELSE Old
           peers == [i \in DOMAIN store.peers |->
                       [store.peers[i] EXCEPT !.age = older(@)]]
       IN store' = [store EXCEPT !.heartbeat = older(@), !.peers = peers]
    /\ tab' = [t \in Tabs |-> IF tab[t].timer = 0 THEN tab[t] ELSE [tab[t] EXCEPT !.timer = @ - 1]]
    /\ UNCHANGED <<inbox, message, seen, skipped, untold, elected, asked, crossed>>

Next ==
    \/ \E t \in Tabs :
          \/ Load(t) \/ Start(t) \/ Heartbeat(t) \/ OnStorage(t) \/ OnPoll(t)
          \/ PollFails(t) \/ PollAgain(t) \/ Unload(t) \/ CrashTab(t)
    \/ \E t \in Tabs, c \in Channels : AddChannel(t, c)
    \/ \E m \in Messages : Send(m)
    \/ Tick

Spec == Init /\ [][Next]_vars

(* The event loop of an open tab runs its timers and handlers, the server  *)
(* answers, time passes; users need not do anything.                       *)
FairSpec ==
    /\ Spec
    /\ \A t \in Tabs : /\ WF_vars(Heartbeat(t)) /\ WF_vars(OnStorage(t))
                       /\ WF_vars(OnPoll(t) \/ PollAgain(t))
    /\ WF_vars(Tick)

-----------------------------------------------------------------------------

Pending(t) == UNION {ToSet(inbox[t][i].value) :
                        i \in {j \in DOMAIN inbox[t] : inbox[t][j].key = "notification"}}

(* A tab never passes over a notification that was sent after it was       *)
(* loaded: if the last identifier it knows is beyond it, the notification  *)
(* was triggered in the tab or is on its way, or the tab ignored it while  *)
(* it was master itself, or it came with notifications that hold the same  *)
(* as those shared before and no tab but the one that polled heard of it.  *)
NothingSkipped ==
    \A t \in Open : \A n \in (tab[t].first + 1) .. tab[t].last :
        n \in ToSet(seen[t]) \cup Pending(t) \cup skipped[t] \cup untold

(* As long as the master does not change, every tab triggers the           *)
(* notifications in order and each of them once.                           *)
OnceWithOneMaster ==
    Cardinality(elected) <= 1 =>
        \A t \in Open : \A i, j \in DOMAIN seen[t] : i < j => seen[t][i] < seen[t][j]

(* Tabs agree in the end: when no tab is opened, closed or late any more,  *)
(* one tab, and only one, is master.                                       *)
OneMasterInTheEnd ==
    <>[](Registered # {} => Cardinality(Masters) = 1)

(* In the end every registered tab has been notified of all that was sent  *)
(* since it was loaded, whoever is master: no notification stays on its    *)
(* way.  Excepted are those the tab ignored while it was master itself and *)
(* those that the storage told no tab of.                                  *)
EveryTabNotified ==
    <>[](\A t \in Registered :
            (tab[t].first + 1) .. sent \subseteq ToSet(seen[t]) \cup skipped[t] \cup untold)

(* As long as the master does not change, it comes to poll all channels    *)
(* that registered tabs add, and goes on doing so, unless one was added    *)
(* while a list of channels was on its way to a tab: a tab that hears of a *)
(* list shares it again, and a list and its successor may then chase each  *)
(* other for ever.                                                         *)
ChannelsPolled ==
    <>[](Cardinality(elected) <= 1 /\ ~crossed =>
            \A m \in Masters : \A t \in Registered : asked[t] \subseteq ToSet(tab[m].channels))
=============================================================================
