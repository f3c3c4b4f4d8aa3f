----------------------------- MODULE Connections -----------------------------
(***************************************************************************)
(* The long-lived connections of the pages, GET /stream and GET /ws, from  *)
(* src/server/mod.rs and src/server/websocket.rs: the player gate, the     *)
(* places each address and the server as a whole give away, the map of     *)
(* sockets, the admin's switch, and the shutdown of src/main.rs.           *)
(*                                                                         *)
(* What the connections carry is left out (the streams are in Pipe, the    *)
(* messages in Playback), so a stream's body may end at any time.          *)
(***************************************************************************)
EXTENDS Integers, FiniteSets

CONSTANTS
    Stream,     \* requests for /stream
    Socket,     \* requests for /ws
    Ip,         \* what client_ip tells apart
    ClientIp,   \* the address each request comes from
    MaxPerIp,   \* MAX_CONNECTIONS_PER_IP
    MaxStreams, \* MAX_TOTAL_STREAM_LISTENERS
    MaxSockets, \* MAX_TOTAL_WS_CLIENTS
    Crowd       \* bound: requests under way at once

ASSUME ConnAssumption ==
    /\ Stream \cap Socket = {} /\ IsFiniteSet(Stream \cup Socket)
    /\ ClientIp \in [Stream \cup Socket -> Ip]
ASSUME MaxAssumption ==
    /\ MaxPerIp \in Nat \ {0} /\ MaxStreams \in Nat \ {0}
    /\ MaxSockets \in Nat \ {0} /\ Crowd \in Nat \ {0}

VARIABLES
    pc,         \* where each request is
    peers,      \* PEERS; an address without an entry counts nothing
    listeners,  \* State.listeners of the stream
    sockets,    \* AppState.ws_clients
    listening,  \* sockets whose page says that it listens
    enabled,    \* player_enabled
    clearing,   \* handle_admin_player has switched off and is yet to clear the sockets
    shutting    \* AppState.shutdown is cancelled, and the server takes no new request

requests == <<pc, listening>>
switch == <<enabled, clearing, shutting>>
vars == <<requests, peers, listeners, sockets, switch>>

Conn == Stream \cup Socket
Count == {"streams", "sockets", "listening"}
NoPeers == [q \in Count |-> [i \in Ip |-> 0]]

Init ==
    /\ pc = [c \in Conn |-> "idle"]
    /\ peers = NoPeers /\ listeners = 0 /\ sockets = {} /\ listening = {}
    /\ enabled \in BOOLEAN /\ clearing = FALSE /\ shutting = FALSE

Goto(c, at, to) == pc[c] = at /\ pc' = [pc EXCEPT ![c] = to]

Plus(q, c) == peers' = [peers EXCEPT ![q][ClientIp[c]] = @ + 1]
Minus(q, c) == peers' = [peers EXCEPT ![q][ClientIp[c]] = @ - 1]
Saturating(q, c) ==
    peers' = [peers EXCEPT ![q][ClientIp[c]] = IF @ = 0 THEN 0 ELSE @ - 1]

-----------------------------------------------------------------------------
(* handle_stream, handle_ws: the gate, then a place.                       *)

Place(c) == IF c \in Stream THEN "streams" ELSE "sockets"

\* The player is on when the gate looks.
Arrive(c) ==
    /\ Goto(c, "idle", "gate")
    /\ enabled /\ ~shutting
    /\ Cardinality({d \in Conn : pc[d] # "idle"}) < Crowd
    /\ UNCHANGED <<peers, listeners, sockets, listening, switch>>

HasPlace(c) ==
    /\ peers[Place(c)][ClientIp[c]] < MaxPerIp
    /\ c \in Socket => Cardinality(sockets) < MaxSockets

TakeSlot(c) ==
    /\ Goto(c, "gate", IF c \in Stream THEN "taken" ELSE "upgrading")
    /\ HasPlace(c)
    /\ Plus(Place(c), c)
    /\ UNCHANGED <<listeners, sockets, listening, switch>>

TooMany(c) ==
    /\ Goto(c, "gate", "idle")
    /\ ~HasPlace(c)
    /\ UNCHANGED <<peers, listeners, sockets, listening, switch>>

-----------------------------------------------------------------------------
(* The rest of handle_stream, and the drop of its body.                    *)

AddClient(s) ==
    /\ Goto(s, "taken", "body")
    /\ listeners < MaxStreams
    /\ listeners' = listeners + 1
    /\ UNCHANGED <<peers, sockets, listening, switch>>

NoRoom(s) ==
    /\ Goto(s, "taken", "refused")
    /\ listeners >= MaxStreams
    /\ UNCHANGED <<peers, listeners, sockets, listening, switch>>

GiveBack(s) ==
    /\ Goto(s, "refused", "idle")
    /\ Minus("streams", s)
    /\ UNCHANGED <<listeners, sockets, listening, switch>>

\* The client goes, the pipe is retired, or MAX_STREAM_CONNECTION_DURATION is over.
BodyEnds(s) ==
    /\ Goto(s, "body", "ended")
    /\ UNCHANGED <<peers, listeners, sockets, listening, switch>>

\* take_until: the server shuts down.
BodyCut(s) ==
    /\ Goto(s, "body", "ended")
    /\ shutting
    /\ UNCHANGED <<peers, listeners, sockets, listening, switch>>

RemoveClient(s) ==
    /\ Goto(s, "ended", "removed")
    /\ listeners' = IF listeners = 0 THEN 0 ELSE listeners - 1
    /\ UNCHANGED <<peers, sockets, listening, switch>>

StreamLeaves(s) ==
    /\ Goto(s, "removed", "idle")
    /\ Saturating("streams", s)
    /\ UNCHANGED <<listeners, sockets, listening, switch>>

-----------------------------------------------------------------------------
(* The upgrade of a socket, and handle_socket.                             *)

UpgradeFails(k) ==
    /\ Goto(k, "upgrading", "idle")
    /\ Minus("sockets", k)
    /\ UNCHANGED <<listeners, sockets, listening, switch>>

\* The sender goes into the map; the task holds a clone of it to send the current track.
Insert(k) ==
    /\ Goto(k, "upgrading", "opened")
    /\ sockets' = sockets \cup {k}
    /\ UNCHANGED <<peers, listeners, listening, switch>>

\* The clone is dropped, and reader and writer begin.
DropSender(k) ==
    /\ Goto(k, "opened", "open")
    /\ UNCHANGED <<peers, listeners, sockets, listening, switch>>

\* Mutated Listen: the flag does not keep the tally balanced.
ListenAgain(k) ==
    /\ pc[k] = "open"
    /\ listening' = listening \cup {k}
    /\ Plus("listening", k)
    /\ UNCHANGED <<pc, listeners, sockets, switch>>

Listen(k) ==
    /\ pc[k] = "open" /\ k \notin listening
    /\ listening' = listening \cup {k}
    /\ Plus("listening", k)
    /\ UNCHANGED <<pc, listeners, sockets, switch>>

Unlisten(k) ==
    /\ pc[k] = "open" /\ k \in listening
    /\ listening' = listening \ {k}
    /\ Saturating("listening", k)
    /\ UNCHANGED <<pc, listeners, sockets, switch>>

\* The page closes, a write fails, or the page says nothing for READ_IDLE_TIMEOUT.
SocketGone(k) ==
    /\ Goto(k, "open", "closing")
    /\ UNCHANGED <<peers, listeners, sockets, listening, switch>>

\* Mutated SocketCut: the writer waits for messages that never come.
SocketCutAtShutdown(k) ==
    /\ Goto(k, "open", "closing")
    /\ shutting
    /\ UNCHANGED <<peers, listeners, sockets, listening, switch>>

\* Mutated SocketCut: the writer does not look at the shutdown.
SocketCutBySwitch(k) ==
    /\ Goto(k, "open", "closing")
    /\ k \notin sockets
    /\ UNCHANGED <<peers, listeners, sockets, listening, switch>>

\* The writer ends: the last sender is dropped, or the server shuts down.
SocketCut(k) ==
    /\ Goto(k, "open", "closing")
    /\ k \notin sockets \/ shutting
    /\ UNCHANGED <<peers, listeners, sockets, listening, switch>>

\* handle_socket once its loop has ended.
StopListening(k) ==
    /\ pc[k] = "closing" /\ k \in listening
    /\ listening' = listening \ {k}
    /\ Saturating("listening", k)
    /\ UNCHANGED <<pc, listeners, sockets, switch>>

Unmap(k) ==
    /\ Goto(k, "closing", "unmapped")
    /\ k \notin listening
    /\ sockets' = sockets \ {k}
    /\ UNCHANGED <<peers, listeners, listening, switch>>

SocketLeaves(k) ==
    /\ Goto(k, "unmapped", "idle")
    /\ Saturating("sockets", k)
    /\ UNCHANGED <<listeners, sockets, listening, switch>>

-----------------------------------------------------------------------------
(* The admin's switch, and the end of the process.                         *)

SwitchOn ==
    /\ ~enabled
    /\ enabled' = TRUE
    /\ UNCHANGED <<requests, peers, listeners, sockets, clearing, shutting>>

\* Bound: one such request at a time has switched off and is yet to clear.  It clears nothing
\* when the file cannot be written: the player is off all the same.
SwitchOff ==
    /\ ~clearing
    /\ enabled' = FALSE /\ clearing' \in BOOLEAN
    /\ UNCHANGED <<requests, peers, listeners, sockets, shutting>>

ClearSockets ==
    /\ clearing
    /\ clearing' = FALSE /\ sockets' = {}
    /\ UNCHANGED <<requests, peers, listeners, enabled, shutting>>

\* SIGINT or SIGTERM.
Shutdown ==
    /\ ~shutting
    /\ shutting' = TRUE
    /\ UNCHANGED <<requests, peers, listeners, sockets, enabled, clearing>>

\* Every request is answered: the process ends, with the sockets that are still open
\* (an upgraded connection is no longer the server's), and the next one begins.
Restart ==
    /\ shutting
    /\ \A s \in Stream : pc[s] = "idle"
    /\ \A k \in Socket : pc[k] # "gate"
    /\ pc' = [c \in Conn |-> "idle"] /\ listening' = {}
    /\ peers' = NoPeers /\ listeners' = 0 /\ sockets' = {}
    /\ shutting' = FALSE /\ clearing' = FALSE
    /\ UNCHANGED enabled

-----------------------------------------------------------------------------
StreamStep(s) ==
    \/ TakeSlot(s) \/ TooMany(s) \/ AddClient(s) \/ NoRoom(s) \/ GiveBack(s)
    \/ BodyCut(s) \/ RemoveClient(s) \/ StreamLeaves(s)

SocketStep(k) ==
    \/ TakeSlot(k) \/ TooMany(k) \/ Insert(k) \/ UpgradeFails(k) \/ DropSender(k)
    \/ SocketCut(k) \/ StopListening(k) \/ Unmap(k) \/ SocketLeaves(k)

Client ==
    \/ \E c \in Conn : Arrive(c)
    \/ \E s \in Stream : BodyEnds(s)
    \/ \E k \in Socket : Listen(k) \/ Unlisten(k) \/ SocketGone(k)

Server == SwitchOn \/ SwitchOff \/ ClearSockets \/ Shutdown \/ Restart

Next ==
    \/ \E s \in Stream : StreamStep(s)
    \/ \E k \in Socket : SocketStep(k)
    \/ Client
    \/ Server

Spec == Init /\ [][Next]_vars

\* Tasks are scheduled and an upgrade comes to an end; a page may stay for ever.
Fairness ==
    /\ \A s \in Stream : WF_vars(StreamStep(s))
    /\ \A k \in Socket : WF_vars(SocketStep(k))

FairSpec == Spec /\ Fairness

-----------------------------------------------------------------------------
(* Properties.                                                             *)

\* Every variable has its type; no address has more than its places, and the stream
\* no more listeners than it takes.
TypeOK ==
    /\ pc \in [Conn -> {"idle", "gate", "taken", "refused", "body", "ended", "removed",
                        "upgrading", "opened", "open", "closing", "unmapped"}]
    /\ peers \in [Count -> [Ip -> Nat]]
    /\ \A i \in Ip : peers["streams"][i] <= MaxPerIp /\ peers["sockets"][i] <= MaxPerIp
    /\ listeners \in 0..MaxStreams
    /\ sockets \subseteq Socket /\ listening \subseteq Socket
    /\ enabled \in BOOLEAN /\ clearing \in BOOLEAN /\ shutting \in BOOLEAN

\* mod.rs:124 and websocket.rs:51: what is counted for an address is what is open from
\* it. No path takes a place twice, gives it back twice or keeps it, so the saturating
\* subtractions never hide one and an entry goes with the last connection.
Counted(q) ==
    CASE q = "streams" -> {s \in Stream : pc[s] \in {"taken", "refused", "body", "ended", "removed"}}
      [] q = "sockets" -> {k \in Socket : pc[k] \in {"upgrading", "opened", "open", "closing",
                                                    "unmapped"}}
      [] q = "listening" -> listening

CountsMatch ==
    \A q \in Count : \A i \in Ip :
        peers[q][i] = Cardinality({c \in Counted(q) : ClientIp[c] = i})

\* mod.rs:867: a socket that the switch has taken out of the map does not stay open,
\* and gives its place back.
ClearedSocketsEnd ==
    \A k \in Socket : pc[k] \in {"opened", "open"} /\ k \notin sockets ~> pc[k] = "idle"

\* main.rs:116, "ending the long-lived streams lets axum drain": once the server shuts
\* down, every stream and socket ends, those that were being admitted included.
ShutdownEnds == shutting ~> \A c \in Conn : pc[c] = "idle"
=============================================================================
