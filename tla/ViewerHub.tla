------------------------------ MODULE ViewerHub ------------------------------
(***************************************************************************)
(* How the packets reach the browsers: aprs-viewer/src/server/ws.rs and    *)
(* the WebSocket part of public/app.js, over PacketLog.                    *)
(*                                                                         *)
(* A page opens a socket, gets a list of recent packets and from then on   *)
(* every event; when the socket closes it opens another.  In the server a  *)
(* socket has the task handle_socket and, from some point on, two more:    *)
(* one forwards the events, the other listens for the socket's end.        *)
(* Neither is stopped when the other ends.                                 *)
(***************************************************************************)
EXTENDS PacketLog, FiniteSets

CONSTANTS
    MaxPackets,           \* bound: packets stored
    MaxEvents,            \* bound: events sent
    Pages,                \* the browser pages that are open
    MaxSockets,           \* bound: sockets opened
    MAX_WS_CONNECTIONS,   \* sockets served at a time (50)
    BROADCAST_SIZE,       \* events the broadcast channel keeps (256)
    RecentLimit,          \* packets in the list a socket begins with (50)
    MaxShown              \* packets a page keeps (500)

ASSUME HubAssumption ==
    /\ MaxPackets \in Nat /\ MaxEvents \in Nat
    /\ MaxSockets \in Nat /\ MAX_WS_CONNECTIONS \in Nat
    /\ BROADCAST_SIZE \in Nat \ {0}
    /\ RecentLimit \in Nat /\ MaxShown \in Nat /\ RecentLimit <= MaxShown

Sockets == 1 .. MaxSockets
None == 0

VARIABLES
    connections,   \* WS_CONNECTIONS
    handler,       \* handle_socket, for each socket
    forwarder,     \* send_task
    listener,      \* recv_task
    snapshot,      \* the packets handle_socket has read
    next,          \* send_task's receiver: the event it takes next
    wire,          \* messages on the way to the page
    link,          \* the connection itself
    socket,        \* each page's socket
    shown,         \* the packets a page shows, newest first
    greeted,       \* history: the sockets whose first message arrived
    joined         \* history: the events sent before each subscription

serverVars == <<connections, handler, forwarder, listener, snapshot, next, joined>>
pageVars == <<socket, shown, greeted>>
hubVars == <<serverVars, pageVars, wire, link>>
vars == <<logVars, hubVars>>

\* A message on a socket.
InitMessage(list) == [type |-> "Init", id |-> list]

Init ==
    /\ LogInit
    /\ connections = 0
    /\ handler = [s \in Sockets |-> "none"]
    /\ forwarder = [s \in Sockets |-> "none"] /\ listener = [s \in Sockets |-> "none"]
    /\ snapshot = [s \in Sockets |-> << >>] /\ next = [s \in Sockets |-> 1]
    /\ wire = [s \in Sockets |-> << >>] /\ link = [s \in Sockets |-> "none"]
    /\ socket = [p \in Pages |-> None] /\ shown = [p \in Pages |-> << >>]
    /\ greeted = {} /\ joined = [s \in Sockets |-> 0]

-----------------------------------------------------------------------------
(* The ingest side. *)
Feed ==
    /\ LogNext
    /\ stored' <= MaxPackets /\ Len(sent') <= MaxEvents
    /\ UNCHANGED hubVars

-----------------------------------------------------------------------------
(* The pages. *)

\* connectWebSocket, at the start and again some time after a close.
Connect(p, s) ==
    /\ socket[p] = None
    /\ link[s] = "none" /\ \A r \in Sockets : link[r] = "none" => s <= r
    /\ socket' = [socket EXCEPT ![p] = s]
    /\ link' = [link EXCEPT ![s] = "open"]
    /\ UNCHANGED <<logVars, serverVars, shown, greeted, wire>>

FirstN(list, n) == SubSeq(list, 1, IF n < Len(list) THEN n ELSE Len(list))

\* handleWsEvent.  Updates of the station do not touch the list of packets.
HandleWsEvent(p) ==
    LET s == socket[p]
        m == Head(wire[s])
    IN /\ s # None /\ link[s] = "open" /\ wire[s] # << >>
       /\ wire' = [wire EXCEPT ![s] = Tail(@)]
       /\ shown' = [shown EXCEPT ![p] =
              CASE m.type = "Init" -> m.id
                [] m.type = "Packet" -> FirstN(<<m.id>> \o @, MaxShown)
                [] m.type = "StationUpdate" -> @]
       /\ greeted' = IF m.type = "Init" THEN greeted \cup {s} ELSE greeted
       /\ UNCHANGED <<logVars, serverVars, socket, link>>

\* The connection breaks, or the page is reloaded; what is on the wire is
\* lost.  onclose.
Close(p) ==
    LET s == socket[p]
    IN /\ s # None /\ link[s] = "open"
       /\ link' = [link EXCEPT ![s] = "closed"]
       /\ wire' = [wire EXCEPT ![s] = << >>]
       /\ socket' = [socket EXCEPT ![p] = None]
       /\ UNCHANGED <<logVars, serverVars, shown, greeted>>

-----------------------------------------------------------------------------
(* The server.  ws_handler: the count is only read here. *)
Full == connections >= MAX_WS_CONNECTIONS

Upgrade(s) ==
    /\ handler[s] = "none" /\ link[s] # "none" /\ ~Full
    /\ handler' = [handler EXCEPT ![s] = "upgraded"]
    /\ UNCHANGED <<logVars, connections, forwarder, listener, snapshot, next,
                   joined, pageVars, wire, link>>

\* SERVICE_UNAVAILABLE; the page sees its socket close.
Unavailable(s) ==
    /\ handler[s] = "none" /\ link[s] # "none" /\ Full
    /\ handler' = [handler EXCEPT ![s] = "refused"]
    /\ link' = [link EXCEPT ![s] = "closed"]
    /\ socket' = [p \in Pages |-> IF socket[p] = s THEN None ELSE socket[p]]
    /\ UNCHANGED <<logVars, connections, forwarder, listener, snapshot, next,
                   joined, shown, greeted, wire>>

\* handle_socket is spawned: fetch_add.
Enter(s) ==
    /\ handler[s] = "upgraded"
    /\ connections' = connections + 1
    /\ handler' = [handler EXCEPT ![s] = "counted"]
    /\ UNCHANGED <<logVars, forwarder, listener, snapshot, next, joined,
                   pageVars, wire, link>>

\* get_recent_packets: the newest first; nothing when the query fails.
Recent == FirstN([i \in 1 .. stored |-> stored + 1 - i], RecentLimit)
ReadRecent(s) ==
    /\ handler[s] = "counted"
    /\ \E list \in {Recent, << >>} : snapshot' = [snapshot EXCEPT ![s] = list]
    /\ handler' = [handler EXCEPT ![s] = "greeting"]
    /\ UNCHANGED <<logVars, connections, forwarder, listener, next, joined,
                   pageVars, wire, link>>

\* The Init message is written; a message to a socket that is closed is lost.
\* Then, without an await in between, the subscription to the events sent from
\* now on, and the two spawns.
Greet(s) ==
    /\ handler[s] = "greeting"
    /\ wire' = IF link[s] = "open"
               THEN [wire EXCEPT ![s] = Append(@, InitMessage(snapshot[s]))] ELSE wire
    /\ next' = [next EXCEPT ![s] = Len(sent) + 1]
    /\ joined' = [joined EXCEPT ![s] = Len(sent)]
    /\ forwarder' = [forwarder EXCEPT ![s] = "running"]
    /\ listener' = [listener EXCEPT ![s] = "running"]
    /\ handler' = [handler EXCEPT ![s] = "serving"]
    /\ UNCHANGED <<logVars, connections, snapshot, pageVars, link>>

\* Or the write fails: `return', past the fetch_sub.
GreetFails(s) ==
    /\ handler[s] = "greeting" /\ link[s] = "closed"
    /\ handler' = [handler EXCEPT ![s] = "dropped"]
    /\ UNCHANGED <<logVars, connections, forwarder, listener, snapshot, next,
                   joined, pageVars, wire, link>>

\* send_task: recv and send.  (Faulty variant: feed instead of send, which keeps
\* an event until the next one follows.)
Oldest == IF Len(sent) > BROADCAST_SIZE THEN Len(sent) - BROADCAST_SIZE + 1 ELSE 1
Kept(s) == next[s] \in Oldest .. Len(sent) - 1
Due(s) == next[s] \in Oldest .. Len(sent)

Forward(s) ==
    /\ forwarder[s] = "running" /\ Due(s)
    /\ next' = [next EXCEPT ![s] = @ + 1]
    /\ wire' = IF link[s] = "open" THEN [wire EXCEPT ![s] = Append(@, sent[next[s]])] ELSE wire
    /\ UNCHANGED <<logVars, connections, handler, forwarder, listener, snapshot,
                   joined, pageVars, link>>

ForwardFails(s) ==
    /\ forwarder[s] = "running" /\ Due(s) /\ link[s] = "closed"
    /\ next' = [next EXCEPT ![s] = @ + 1]
    /\ forwarder' = [forwarder EXCEPT ![s] = "ended"]
    /\ UNCHANGED <<logVars, connections, handler, listener, snapshot, joined,
                   pageVars, wire, link>>

\* `while let Ok' ends when events were overwritten before they were taken.
\* (Faulty variant: goes on with the oldest that is left.)
LagSkips(s) == next' = [next EXCEPT ![s] = Oldest] /\ UNCHANGED forwarder
LagEnds(s) == forwarder' = [forwarder EXCEPT ![s] = "ended"] /\ UNCHANGED next
Lagged(s) ==
    /\ forwarder[s] = "running" /\ next[s] < Oldest
    /\ LagEnds(s)
    /\ UNCHANGED <<logVars, connections, handler, listener, snapshot, joined,
                   pageVars, wire, link>>

\* recv_task: the end of the stream or an error.  (Faulty variant: or a
\* message.)
ListenOnce(s) ==
    /\ listener[s] = "running" /\ link[s] # "none"
    /\ listener' = [listener EXCEPT ![s] = "ended"]
    /\ UNCHANGED <<logVars, connections, handler, forwarder, snapshot, next,
                   joined, pageVars, wire, link>>
Listen(s) ==
    /\ listener[s] = "running" /\ link[s] = "closed"
    /\ listener' = [listener EXCEPT ![s] = "ended"]
    /\ UNCHANGED <<logVars, connections, handler, forwarder, snapshot, next,
                   joined, pageVars, wire, link>>

\* select! over the two, and fetch_sub.  The other task is left running.
\* (Faulty variants: waits for both; each of the two gives the place back.)
Finished(s) == {t \in {"forwarder", "listener"} :
                   [forwarder |-> forwarder, listener |-> listener][t][s] = "ended"}
Both(s) == Cardinality(Finished(s)) = 2
Either(s) == Finished(s) # {}
FreesEach(s) == connections' = connections - Cardinality(Finished(s))
FreesOne(s) == connections' = connections - 1
Leave(s) ==
    /\ handler[s] = "serving" /\ Either(s)
    /\ FreesOne(s)
    /\ handler' = [handler EXCEPT ![s] = "returned"]
    /\ UNCHANGED <<logVars, forwarder, listener, snapshot, next, joined,
                   pageVars, wire, link>>

Serve(s) ==
    \/ Upgrade(s) \/ Unavailable(s) \/ Enter(s) \/ ReadRecent(s)
    \/ Greet(s) \/ GreetFails(s) \/ Leave(s)
Tasks(s) == Forward(s) \/ ForwardFails(s) \/ Lagged(s) \/ Listen(s)

Next ==
    \/ Feed
    \/ \E p \in Pages : HandleWsEvent(p) \/ Close(p) \/ \E s \in Sockets : Connect(p, s)
    \/ \E s \in Sockets : Serve(s) \/ Tasks(s)

Spec == Init /\ [][Next]_vars

\* The runtime polls every task; a page handles the messages it has got.
FairSpec ==
    /\ Spec
    /\ \A s \in Sockets : WF_vars(Serve(s)) /\ WF_vars(Listen(s))
                          /\ WF_vars(Forward(s) \/ ForwardFails(s) \/ Lagged(s))
    /\ \A p \in Pages : WF_vars(HandleWsEvent(p))

-----------------------------------------------------------------------------
Serving == {"counted", "greeting", "serving"}

\* The count is the number of sockets being served and of those that were
\* given up when their first message failed: each of these costs a place for
\* good, every other place is given back once, whichever task ends first.
SlotsAccounted ==
    connections = Cardinality({s \in Sockets : handler[s] \in Serving \cup {"dropped"}})

\* What a page shows is the list its socket began with and, before it, the
\* packets of all events from the subscription up to the last that arrived:
\* none is missing in between, doubled or out of order.  (The same packet can
\* be in both parts, and one sent between the two is in neither.)  The newest
\* packet comes first.
PacketsOf(events) ==
    LET newest[n \in 0 .. Len(events)] ==
            IF n = 0 THEN << >>
            ELSE IF events[n].type = "Packet" THEN <<events[n].id>> \o newest[n - 1]
            ELSE newest[n - 1]
    IN newest[Len(events)]
Arrived(s) == SubSeq(sent, joined[s] + 1, next[s] - 1 - Len(wire[s]))
ShowsSnapshotThenFeed ==
    \A p \in Pages :
        socket[p] \in greeted =>
            shown[p] = FirstN(PacketsOf(Arrived(socket[p])) \o snapshot[socket[p]], MaxShown)

CaughtUp(s) == forwarder[s] = "running" /\ wire[s] = << >> /\ next[s] = Len(sent) + 1

\* An open socket whose events have stopped for good has lagged: it is not
\* closed, so that its page goes on showing itself as connected.
SilenceOnlyByLag ==
    \A s \in Sockets :
        (link[s] = "open" /\ "ended" \in {forwarder[s], listener[s]}) => next[s] < Oldest

\* A page that stays connected is shown the newest event, unless it lags.
NewestIsShown ==
    \A s \in Sockets :
        (handler[s] = "serving" /\ link[s] = "open")
            ~> (link[s] = "closed" \/ forwarder[s] = "ended" \/ CaughtUp(s))

\* The place of a socket that is closed comes free, unless its first message
\* failed.
SlotIsGivenBack ==
    \A s \in Sockets :
        (handler[s] \in Serving /\ link[s] = "closed") ~> handler[s] \in {"returned", "dropped"}
=============================================================================
