---------------------------- MODULE BusDispatch ----------------------------
(***************************************************************************)
(* Long polling on the server: bus.bus and ImDispatch                      *)
(* (src/addons/bus/models/bus.py).  A transaction writes notifications in  *)
(* the table bus_bus and, once committed, runs NOTIFY imbus on another     *)
(* connection.  A poll returns the notifications after the client's last   *)
(* one, or, to a client that has none yet, those of the last TIMEOUT       *)
(* seconds; when there is none it waits for the event that the             *)
(* dispatcher's thread sets when it hears NOTIFY, or for the timeout, and  *)
(* reads again.                                                            *)
(*                                                                         *)
(* One channel; the table is not cleaned (gc removes rows after twice the  *)
(* duration of a poll).                                                    *)
(***************************************************************************)
EXTENDS Naturals, FiniteSets, FiniteSetsExt

CONSTANTS
    Pollers,          \* clients that poll
    MaxId,            \* bound: notifications
    MaxFaults         \* bound: failures of NOTIFY, of the dispatcher, of polls

ASSUME BusAssumption == MaxId \in Nat /\ MaxFaults \in Nat

VARIABLES
    bus,          \* the notifications by id: where their transaction is
    old,          \* those created more than TIMEOUT seconds ago
    listener,     \* the dispatcher's thread: "off", "starting", "listening", "down"
    notifies,     \* a NOTIFY waits on the dispatcher's connection
    channel,      \* pollers whose event is registered: ImDispatch.channels
    poller,       \* Pollers -> the poll and its client
    missed,       \* pollers that no NOTIFY will wake any more (history)
    late,         \* Pollers -> ids committed after the client went beyond (history)
    aged,         \* Pollers -> ids that were old when the client got its first (history)
    busFaults

busVars == <<bus, old, listener, notifies, channel, poller, missed, late, aged, busFaults>>

Ids == 1 .. MaxId

(* pc: "read" (the first read of poll), "register", "wait" (event.wait).   *)
Poller == [pc : {"read", "register", "wait"}, set : BOOLEAN, last : 0 .. MaxId, got : SUBSET Ids]

BusTypeOK ==
    /\ bus \in [Ids -> {"none", "created", "rolledback", "committed", "notified"}]
    /\ old \subseteq Ids
    /\ listener \in {"off", "starting", "listening", "down"}
    /\ notifies \in BOOLEAN
    /\ channel \subseteq Pollers
    /\ poller \in [Pollers -> Poller]
    /\ missed \subseteq Pollers
    /\ late \in [Pollers -> SUBSET Ids]
    /\ aged \in [Pollers -> SUBSET Ids]
    /\ busFaults \in 0 .. MaxFaults

BusInit ==
    /\ bus = [i \in Ids |-> "none"]
    /\ old = {}
    /\ listener = "off"
    /\ notifies = FALSE
    /\ channel = {}
    /\ poller = [p \in Pollers |-> [pc |-> "read", set |-> FALSE, last |-> 0, got |-> {}]]
    /\ missed = {}
    /\ late = [p \in Pollers |-> {}]
    /\ aged = [p \in Pollers |-> {}]
    /\ busFaults = 0

InTable == {i \in Ids : bus[i] \in {"committed", "notified"}}

Fault == busFaults < MaxFaults /\ busFaults' = busFaults + 1

(* Those that have read the table and do not hear of what is notified now. *)
Deaf == {p \in Pollers : poller[p].pc = "register"}
NotHearing == {p \in Pollers : poller[p].pc \in {"register", "wait"} /\ ~poller[p].set}

-----------------------------------------------------------------------------
(* sendmany: the id is drawn from a PostgreSQL sequence.                   *)
CreateNotification(i) ==
    /\ bus[i] = "none"
    /\ \A j \in Ids : j < i => bus[j] # "none"
    /\ bus' = [bus EXCEPT ![i] = "created"]
    /\ UNCHANGED <<old, listener, notifies, channel, poller, missed, late, aged, busFaults>>

RollbackNotification(i) ==
    /\ bus[i] = "created"
    /\ bus' = [bus EXCEPT ![i] = "rolledback"]
    /\ UNCHANGED <<old, listener, notifies, channel, poller, missed, late, aged, busFaults>>

(* TIMEOUT seconds have passed since its transaction began (create_date),  *)
(* which only clients without notifications ask for.                       *)
Expire(i) ==
    /\ bus[i] \in {"created", "committed", "notified"}
    /\ i \notin old
    /\ \E p \in Pollers : poller[p].last = 0
    /\ old' = old \cup {i}
    /\ UNCHANGED <<bus, listener, notifies, channel, poller, missed, late, aged, busFaults>>

(* Mutant: NOTIFY was sent by sendmany, and is not after the commit.       *)
MutCommitNotification(i) ==
    /\ bus[i] = "created"
    /\ bus' = [bus EXCEPT ![i] = "notified"]
    /\ late' = [p \in Pollers |-> IF poller[p].last > i THEN late[p] \cup {i} ELSE late[p]]
    /\ UNCHANGED <<old, listener, notifies, channel, poller, missed, aged, busFaults>>

CommitNotification(i) ==
    /\ bus[i] = "created"
    /\ bus' = [bus EXCEPT ![i] = "committed"]
    /\ late' = [p \in Pollers |-> IF poller[p].last > i THEN late[p] \cup {i} ELSE late[p]]
    /\ UNCHANGED <<old, listener, notifies, channel, poller, missed, aged, busFaults>>

(* Who hears a NOTIFY: those registered, if the thread listens.            *)
Heard ==
    IF listener = "listening"
    THEN notifies' = TRUE /\ UNCHANGED missed
    ELSE missed' = missed \cup NotHearing /\ UNCHANGED notifies

(* notify, after the commit                                                *)
Notify(i) ==
    /\ bus[i] = "committed"
    /\ bus' = [bus EXCEPT ![i] = "notified"]
    /\ Heard
    /\ UNCHANGED <<old, listener, channel, poller, late, aged, busFaults>>

(* notify fails (no connection left, crash).                               *)
NotifyFails(i) ==
    /\ bus[i] = "committed"
    /\ Fault
    /\ bus' = [bus EXCEPT ![i] = "notified"]
    /\ missed' = missed \cup NotHearing
    /\ UNCHANGED <<old, listener, notifies, channel, poller, late, aged>>

-----------------------------------------------------------------------------
(* The dispatcher's thread: run and loop.                                  *)

Listen ==
    /\ listener = "starting"
    /\ listener' = "listening"
    /\ UNCHANGED <<bus, old, notifies, channel, poller, missed, late, aged, busFaults>>

Dispatch ==
    /\ listener = "listening"
    /\ notifies
    /\ notifies' = FALSE
    /\ poller' = [p \in Pollers |-> IF p \in channel THEN [poller[p] EXCEPT !.set = TRUE]
                                    ELSE poller[p]]
    /\ channel' = {}
    /\ missed' = missed \cup Deaf
    /\ UNCHANGED <<bus, old, listener, late, aged, busFaults>>

(* loop raises: run sleeps, then listens again on a new connection.        *)
LoopError ==
    /\ listener = "listening"
    /\ Fault
    /\ listener' = "down"
    /\ notifies' = FALSE
    /\ missed' = IF notifies THEN missed \cup NotHearing ELSE missed
    /\ UNCHANGED <<bus, old, channel, poller, late, aged>>

Restart ==
    /\ listener = "down"
    /\ listener' = "starting"
    /\ UNCHANGED <<bus, old, notifies, channel, poller, missed, late, aged, busFaults>>

-----------------------------------------------------------------------------
(* ImDispatch.poll, and the client that calls it again and again.          *)

(* Mutant: the notification next to last is left out.                      *)
MutNews(p) ==
    {i \in InTable : IF poller[p].last = 0 THEN i \notin old ELSE i > poller[p].last + 1}

News(p) ==
    {i \in InTable : IF poller[p].last = 0 THEN i \notin old ELSE i > poller[p].last}

(* What is too old for a client that gets its first notifications now.     *)
Aged(p, news) ==
    aged' = IF poller[p].last = 0 /\ news # {}
            THEN [aged EXCEPT ![p] = {i \in InTable \cap old : i <= Max(news)}]
            ELSE aged

(* Mutant: the client asks from the id after the largest one it got.       *)
MutAnswer(p, news) ==
    /\ poller' = [poller EXCEPT ![p] = [pc |-> "read", set |-> FALSE, got |-> @.got \cup news,
                                        last |-> IF news = {} THEN @.last ELSE Max(news) + 1]]
    /\ missed' = missed \ {p}
    /\ Aged(p, news)

(* The answer: the client goes on from the largest id it got.  (_onPoll of *)
(* LongpollingBus)                                                         *)
Answer(p, news) ==
    /\ poller' = [poller EXCEPT ![p] = [pc |-> "read", set |-> FALSE, got |-> @.got \cup news,
                                        last |-> IF news = {} THEN @.last ELSE Max(news)]]
    /\ missed' = missed \ {p}
    /\ Aged(p, news)

(* past notifications are returned at once                                 *)
Read(p) ==
    /\ poller[p].pc = "read"
    /\ IF News(p) # {} THEN Answer(p, News(p))
       ELSE /\ poller' = [poller EXCEPT ![p].pc = "register"]
            /\ UNCHANGED <<missed, aged>>
    /\ UNCHANGED <<bus, old, listener, notifies, channel, late, busFaults>>

Register(p) ==
    /\ poller[p].pc = "register"
    /\ listener' = IF listener = "off" THEN "starting" ELSE listener
    /\ channel' = channel \cup {p}
    /\ poller' = [poller EXCEPT ![p].pc = "wait"]
    /\ UNCHANGED <<bus, old, notifies, missed, late, aged, busFaults>>

(* The event is set, or the timeout is reached.                            *)
Wake(p) ==
    /\ poller[p].pc = "wait"
    /\ Answer(p, News(p))
    /\ channel' = channel \ {p}
    /\ UNCHANGED <<bus, old, listener, notifies, late, busFaults>>

(* The read raises, or the client does not receive the answer.             *)
PollLost(p) ==
    /\ Fault
    /\ Answer(p, {})
    /\ channel' = channel \ {p}
    /\ UNCHANGED <<bus, old, listener, notifies, late>>

BusNext ==
    \/ \E i \in Ids : \/ CreateNotification(i) \/ RollbackNotification(i)
                      \/ CommitNotification(i) \/ Notify(i) \/ NotifyFails(i)
                      \/ Expire(i)
    \/ Listen \/ Dispatch \/ LoopError \/ Restart
    \/ \E p \in Pollers : Read(p) \/ Register(p) \/ Wake(p) \/ PollLost(p)

BusSpec == BusInit /\ [][BusNext]_busVars

-----------------------------------------------------------------------------

(* A poll that waits while there is something to return is about to be     *)
(* woken, unless the NOTIFY failed, or was dispatched or came to nobody    *)
(* between its first read and its registration, or while nobody listened.  *)
WaitersWoken ==
    \A p \in Pollers :
        (poller[p].pc = "wait" /\ ~poller[p].set /\ News(p) # {}) =>
            \/ p \in missed
            \/ \E i \in News(p) : bus[i] = "committed"
            \/ notifies /\ p \in channel /\ listener = "listening"

(* A client never moves past a notification it did not get, except one     *)
(* whose transaction committed after a later one was delivered, or one     *)
(* that was TIMEOUT seconds old when the client got its first: because it  *)
(* was sent long before, but also because its transaction was long, its    *)
(* NOTIFY was missed or the answer that held it was lost.                  *)
NothingPassedOver ==
    \A p \in Pollers : \A i \in InTable :
        i <= poller[p].last => i \in poller[p].got \cup late[p] \cup aged[p]
=============================================================================
