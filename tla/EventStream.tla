------------------------------ MODULE EventStream ------------------------------
(***************************************************************************)
(* Realtime events of one project in one API process: the outbox that      *)
(* triggers fill inside the transactions of their effects, the LISTEN      *)
(* relay (lib/realtime-listener.ts), the project's room                    *)
(* (lib/room-manager.ts), and the replay that a WebSocket connection asks  *)
(* for with last_event_id (lib/event-replay.ts, routes/ws.ts).             *)
(*                                                                         *)
(* An event is the id its INSERT draws from the sequence; ids are drawn in *)
(* order, transactions commit in any order. A socket that is still open    *)
(* receives what is sent to it at once; what is sent to one whose peer has *)
(* vanished is lost, which also covers messages lost on the way.           *)
(***************************************************************************)
EXTENDS Naturals, FiniteSets

CONSTANTS
    MaxEvents,      \* bound on the ids drawn
    Connections,    \* WebSocket connections, each used once
    Clients,
    ClientOf,       \* the client that opens a connection
    ReplayLimit     \* rows one replay returns at most

ASSUME StreamAssumption ==
    /\ MaxEvents \in Nat /\ ReplayLimit \in Nat \ {0}
    /\ ClientOf \in [Connections -> Clients]

VARIABLES
    txn,        \* the transaction that drew each id
    outbox,     \* committed rows of the events table
    relaying,   \* the LISTEN connection is up
    fetching,   \* notified ids whose row is being fetched
    room,       \* the room: whether it exists, its members, its bus listeners
    socket,     \* each connection
    pointer,    \* the largest event id each client has seen
    missed      \* history: ids whose notification or fetch failed

streamVars == <<txn, outbox, relaying, fetching, room, socket, pointer, missed>>

EventIds == 1..MaxEvents

\* The state of a connection that has not been opened.
Unopened ==
    [peer |-> "unopened", since |-> 0, replay |-> "none", rows |-> {},
     before |-> {}, replayed |-> {}, live |-> [i \in EventIds |-> 0]]

\* peer: vanished means that the server has not noticed yet. since: the
\* last_event_id of the request, 0 when there was none. before: the events
\* committed when the connection opened. live: deliveries through the room.
Sockets ==
    [peer: {"unopened", "open", "vanished", "closed"}, since: 0..MaxEvents,
     replay: {"none", "wanted", "read", "sent"}, rows: SUBSET EventIds,
     before: SUBSET EventIds, replayed: SUBSET EventIds, live: [EventIds -> Nat]]

StreamTypeOK ==
    /\ txn \in [EventIds -> {"none", "open", "committed", "rolled back"}]
    /\ outbox \subseteq {i \in EventIds : txn[i] = "committed"}
    /\ relaying \in BOOLEAN
    /\ fetching \subseteq EventIds /\ missed \subseteq EventIds
    /\ room \in [exists: BOOLEAN, members: SUBSET Connections, listeners: Nat]
    /\ socket \in [Connections -> Sockets]
    /\ pointer \in [Clients -> 0..MaxEvents]

CommittedEvents == {i \in EventIds : txn[i] = "committed"}

Largest(ids) == CHOOSE i \in ids : \A j \in ids : j <= i

Received(k) == socket[k].replayed \cup {i \in EventIds : socket[k].live[i] > 0}

StreamInit ==
    /\ txn = [i \in EventIds |-> "none"]
    /\ outbox = {} /\ fetching = {} /\ missed = {}
    /\ relaying = TRUE
    /\ room = [exists |-> FALSE, members |-> {}, listeners |-> 0]
    /\ socket = [k \in Connections |-> Unopened]
    /\ pointer = [c \in Clients |-> 0]

(***************************************************************************)
(* The outbox.                                                             *)
(***************************************************************************)
\* A trigger or recordEvent inserts the row: it takes the next id.
DrawId(i) ==
    /\ txn[i] = "none"
    /\ \A j \in 1..(i - 1) : txn[j] # "none"
    /\ txn' = [txn EXCEPT ![i] = "open"]
    /\ UNCHANGED <<outbox, relaying, fetching, room, socket, pointer, missed>>

\* pg_notify is delivered at commit, to the connections that listen then.
CommitEvent(i) ==
    /\ txn[i] = "open"
    /\ txn' = [txn EXCEPT ![i] = "committed"]
    /\ outbox' = outbox \cup {i}
    /\ fetching' = IF relaying THEN fetching \cup {i} ELSE fetching
    /\ missed' = IF relaying THEN missed ELSE missed \cup {i}
    /\ UNCHANGED <<relaying, room, socket, pointer>>

RollbackEvent(i) ==
    /\ txn[i] = "open"
    /\ txn' = [txn EXCEPT ![i] = "rolled back"]
    /\ UNCHANGED <<outbox, relaying, fetching, room, socket, pointer, missed>>

\* cleanupOldEvents; a row is fetched long before it is old.
CleanupEvent(i) ==
    /\ i \in outbox \ fetching
    /\ outbox' = outbox \ {i}
    /\ UNCHANGED <<txn, relaying, fetching, room, socket, pointer, missed>>

(***************************************************************************)
(* The relay. Fetches run concurrently and complete in any order.          *)
(***************************************************************************)
\* The LISTEN connection drops or is set up again; what was notified in
\* between is not asked for.
Relisten ==
    /\ relaying' = ~relaying
    /\ UNCHANGED <<txn, outbox, fetching, room, socket, pointer, missed>>

\* broadcastToRoom for every listener of the bus. A send to a peer that has
\* vanished may throw, which takes the connection out of the members.
Broadcast(i) ==
    LET live == {k \in room.members : socket[k].peer = "open" /\ room.listeners > 0}
    IN  /\ \E thrown \in SUBSET {k \in room.members : socket[k].peer = "vanished"} :
              room' = IF room.listeners > 0
                      THEN [room EXCEPT !.members = @ \ thrown]
                      ELSE room
        /\ socket' = [k \in Connections |->
                        IF k \in live
                        THEN [socket[k] EXCEPT !.live[i] = @ + room.listeners]
                        ELSE socket[k]]
        /\ pointer' = [c \in Clients |->
                         IF \E k \in live : ClientOf[k] = c
                         THEN Largest({pointer[c], i}) ELSE pointer[c]]

FetchCompletes(i) ==
    /\ i \in fetching
    /\ fetching' = fetching \ {i}
    /\ Broadcast(i)
    /\ UNCHANGED <<txn, outbox, relaying, missed>>

\* handleNotification logs an error of the fetch and drops the event.
FetchFails(i) ==
    /\ i \in fetching
    /\ fetching' = fetching \ {i}
    /\ missed' = missed \cup {i}
    /\ UNCHANGED <<txn, outbox, relaying, room, socket, pointer>>

(***************************************************************************)
(* Connections and the room.                                               *)
(***************************************************************************)
\* RoomManager.join: the first member of a new room subscribes it to the bus.
Join(k) ==
    room' = [exists |-> TRUE,
             members |-> room.members \cup {k},
             listeners |-> IF room.exists THEN room.listeners ELSE room.listeners + 1]

\* RoomManager.leave: the last member takes the room and its listener along.
Leave_KeepsListener(k) ==       \* fault: the listener stays on the bus
    LET rest == room.members \ {k}
    IN  room' = [room EXCEPT !.members = rest, !.exists = @ /\ rest # {}]
Leave_NoRoomCheck(k) ==         \* fault: a room that is gone is destroyed again
    LET rest == room.members \ {k}
    IN  room' = IF rest # {} THEN [room EXCEPT !.members = rest]
                ELSE [exists |-> FALSE, members |-> {}, listeners |-> room.listeners - 1]
Leave(k) ==
    LET rest == room.members \ {k}
    IN  room' = IF ~room.exists THEN room
                ELSE IF rest # {} THEN [room EXCEPT !.members = rest]
                ELSE [exists |-> FALSE, members |-> {}, listeners |-> room.listeners - 1]

\* onOpen. A client has one socket at a time; it names its pointer when it has
\* one, and the replay is started after the room has been joined.
Open(k) ==
    /\ socket[k].peer = "unopened"
    /\ \A l \in Connections : ClientOf[l] = ClientOf[k] => socket[l].peer # "open"
    /\ Join(k)
    /\ socket' = [socket EXCEPT ![k] =
                    [@ EXCEPT !.peer = "open", !.since = pointer[ClientOf[k]],
                              !.replay = IF pointer[ClientOf[k]] = 0 THEN "none" ELSE "wanted",
                              !.before = CommittedEvents]]
    /\ UNCHANGED <<txn, outbox, relaying, fetching, pointer, missed>>

\* The peer is gone and the server has not noticed.
Vanish(k) ==
    /\ socket[k].peer = "open"
    /\ socket' = [socket EXCEPT ![k].peer = "vanished"]
    /\ UNCHANGED <<txn, outbox, relaying, fetching, room, pointer, missed>>

\* onClose, onError, or the session of the connection is revoked.
Close(k) ==
    /\ socket[k].peer \in {"open", "vanished"}
    /\ Leave(k)
    /\ socket' = [socket EXCEPT ![k].peer = "closed"]
    /\ UNCHANGED <<txn, outbox, relaying, fetching, pointer, missed>>

(***************************************************************************)
(* The replay of a connection: one SELECT, then one synchronous loop.      *)
(***************************************************************************)
FirstRows(ids) ==
    {i \in ids : Cardinality({j \in ids : j < i}) < ReplayLimit}

ReplayRows_OffByOne(since) == FirstRows({i \in outbox : i > since + 1})  \* fault: off by one
ReplayRows(since) == FirstRows({i \in outbox : i > since})

ReplayRead(k) ==
    /\ socket[k].replay = "wanted"
    /\ socket' = [socket EXCEPT ![k] =
                    [@ EXCEPT !.replay = "read", !.rows = ReplayRows(socket[k].since)]]
    /\ UNCHANGED <<txn, outbox, relaying, fetching, room, pointer, missed>>

\* The query fails: the connection continues with live events only.
ReplayFails(k) ==
    /\ socket[k].replay = "wanted"
    /\ socket' = [socket EXCEPT ![k].replay = "none"]
    /\ UNCHANGED <<txn, outbox, relaying, fetching, room, pointer, missed>>

\* The first send to a socket that is not open ends the loop.
ReplaySend(k) ==
    LET s == socket[k]
        sent == IF s.peer = "open" THEN s.rows ELSE {}
    IN  /\ s.replay = "read"
        /\ socket' = [socket EXCEPT ![k] =
                        [@ EXCEPT !.replay = "sent", !.replayed = sent]]
        /\ pointer' = [pointer EXCEPT ![ClientOf[k]] = Largest(sent \cup {@})]
        /\ UNCHANGED <<txn, outbox, relaying, fetching, room, missed>>

StreamNext ==
    \/ \E i \in EventIds :
          \/ DrawId(i)
          \/ CommitEvent(i)
          \/ RollbackEvent(i)
          \/ CleanupEvent(i)
          \/ FetchCompletes(i)
          \/ FetchFails(i)
    \/ Relisten
    \/ \E k \in Connections :
          \/ Open(k)
          \/ Vanish(k)
          \/ Close(k)
          \/ ReplayRead(k)
          \/ ReplayFails(k)
          \/ ReplaySend(k)

StreamSpec == StreamInit /\ [][StreamNext]_streamVars

(***************************************************************************)
(* Properties.                                                             *)
(***************************************************************************)
\* The replay a connection asked for was delivered whole: its query did not
\* fail and did not reach its limit.
Replayed(k) == socket[k].replay = "sent" /\ Cardinality(socket[k].rows) < ReplayLimit

\* There is no gap between the replay of an open connection and its live
\* events: whatever committed after it opened, and whatever its replay covers,
\* has reached it or is being fetched, unless the relay itself lost it (onOpen
\* joins the room before replayEventsSince reads, RoomManager keeps the room
\* subscribed while it has members).
NoGapOnConnection ==
    \A k \in Connections, i \in CommittedEvents :
        /\ socket[k].peer = "open"
        /\ \/ i \notin socket[k].before
           \/ Replayed(k) /\ i \in outbox /\ i > socket[k].since
        => i \in Received(k) \cup fetching \cup missed

\* However connections come, go and are found dead, the room delivers an event
\* to a connection at most once (join and leave keep one listener per room).
DeliveredOnce == \A k \in Connections, i \in EventIds : socket[k].live[i] <= 1

\* REALTIME-SYNC.md: passing last_event_id on connect "makes realtime delivery
\* resilient to disconnects up to the retention window": once its replay has
\* been delivered, a client that reconnected has seen, or is about to, every
\* stored event that committed since it first connected.
ReconnectMissesNothing ==
    \A k, l \in Connections :
        /\ ClientOf[k] = ClientOf[l] /\ socket[l].peer # "unopened"
        /\ socket[k].peer = "open" /\ Replayed(k)
        => \A i \in outbox \ (socket[l].before \cup fetching \cup missed) :
              \E m \in Connections : ClientOf[m] = ClientOf[k] /\ i \in Received(m)
===============================================================================
