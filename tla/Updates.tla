-------------------------------- MODULE Updates --------------------------------
(***************************************************************************)
(* What the server tells its clients: the track_update frames that go to   *)
(* every WebSocket (src/server/workers.rs, websocket.rs) and the events of *)
(* the feed for togedemon (src/server/mod.rs).  The stream itself is kept  *)
(* to what the frames say of it, each reaction of the monitor or of a push *)
(* being one step; module Playback takes those steps apart.                *)
(*                                                                         *)
(* What happens outside of the code is counted by changes, up to a bound   *)
(* for each kind: from some point on, nothing changes any more, and the    *)
(* liveness properties say what comes of it.                               *)
(***************************************************************************)
EXTENDS Naturals, Sequences

CONSTANTS
    MaxMusic,       \* bound on what Spotify and its application do
    MaxClicks,      \* bound on what the listener does
    MaxFaults,      \* bound on losses, refusals and restarts
    MaxChanges,     \* bound on the sum of these
    Mailbox,        \* frames that a socket's channel holds (256)
    Channel         \* events that the broadcast channel of the feed holds (16)

ASSUME BoundsAssumption ==
    /\ {MaxMusic, MaxClicks, MaxFaults, MaxChanges} \subseteq Nat
    /\ {Mailbox, Channel} \subseteq Nat \ {0}

VARIABLES
    current,    \* what the monitor has last seen: none, a paused or a playing track
    gen,        \* StreamManager.generation
    hasTrack,   \* whether the pipe plays a file
    live,       \* whether a togedemon holds the slot
    link,       \* the socket of the page: down, inserted, snapshot (being built) or up
    snapshot,   \* the frame built for the new socket
    mailbox,    \* the channel of the socket
    feed,       \* the feed: down, computed (the initial event) or up (subscribed)
    initial,    \* the initial event, until it is read
    events,     \* what the feed's subscription holds
    changes     \* what has happened outside of the code so far

stream == <<current, gen, hasTrack, live>>
vars == <<stream, link, snapshot, mailbox, feed, initial, events, changes>>

Frame == [track : BOOLEAN, isPlaying : BOOLEAN, active : BOOLEAN, gen : Nat]
NoFrame == [track |-> FALSE, isPlaying |-> FALSE, active |-> FALSE, gen |-> 0]

\* track_update_message, for the stream as given.
FrameOf(c, g, h, l) ==
    [track |-> c # "none", isPlaying |-> c = "playing", active |-> l \/ h, gen |-> g]

Now == FrameOf(current, gen, hasTrack, live)

Bound == [music |-> MaxMusic, click |-> MaxClicks, fault |-> MaxFaults]

\* Something outside of the code happens.
Outside(kind) ==
    /\ changes[kind] < Bound[kind]
    /\ changes.music + changes.click + changes.fault < MaxChanges
    /\ changes' = [changes EXCEPT ![kind] = @ + 1]

Init ==
    /\ current = "none" /\ gen = 0 /\ hasTrack = FALSE /\ live = FALSE
    /\ link = "down" /\ snapshot = NoFrame /\ mailbox = <<>>
    /\ feed = "down" /\ initial = <<>> /\ events = <<>>
    /\ changes = [music |-> 0, click |-> 0, fault |-> 0]

\* try_send: a full channel loses the frame.
Queued(f) ==
    IF link # "down" /\ Len(mailbox) < Mailbox THEN Append(mailbox, f) ELSE mailbox

\* broadcast::Sender::send: a subscriber that lags loses its oldest events.
Published(e) ==
    IF feed # "up" THEN events
    ELSE Append(IF Len(events) < Channel THEN events ELSE Tail(events), e)

\* broadcast_track_update.
Broadcast(f) ==
    /\ mailbox' = Queued(f)
    /\ events' = Published(f.isPlaying)

\* The stream becomes as given, and everyone is told.
Become(c, g, h, l) ==
    /\ current' = c /\ gen' = g /\ hasTrack' = h /\ live' = l
    /\ Broadcast(FrameOf(c, g, h, l))

-----------------------------------------------------------------------------
(* The monitor.                                                            *)

\* maybe_play or stop at a change: a live stream goes on; a file starts if it is cached.
React(c, cached) ==
    IF live THEN Become(c, gen, hasTrack, live)
    ELSE Become(c, gen + 1, c = "playing" /\ cached, FALSE)

\* No session, or nothing playing.
NothingPlays ==
    /\ current # "none"
    /\ React("none", FALSE)

\* Another track, or the first one.
NextTrack(c, cached) == React(c, cached)

\* The listener seeks: the file starts anew if it may.  If it may not, maybe_play's answer
\* for a stream without a file takes the place of the change, and nobody is told.
Seek(cached) ==
    /\ current # "none"
    /\ \/ ~cached /\ Become(current, gen, hasTrack, live)
       \/ cached /\ current = "playing" /\ ~live /\ React("playing", TRUE)
       \/ cached /\ (live \/ current = "paused") /\ UNCHANGED <<stream, mailbox, events>>

Pause ==
    /\ current = "playing"
    /\ React("paused", FALSE)

Resume(cached) ==
    /\ current = "paused"
    /\ IF cached THEN React("playing", TRUE) ELSE Become("playing", gen, hasTrack, live)

MonitorSees ==
    /\ \/ NothingPlays
       \/ \E cached \in BOOLEAN :
             \/ \E c \in {"paused", "playing"} : NextTrack(c, cached)
             \/ Seek(cached) \/ Resume(cached)
       \/ Pause
    /\ Outside("music")
    /\ UNCHANGED <<link, snapshot, feed, initial>>

\* The file of the current track gets ready.
Prepared ==
    /\ current = "playing" /\ ~hasTrack /\ ~live
    /\ React("playing", TRUE)
    /\ UNCHANGED <<link, snapshot, feed, initial, changes>>

\* Mutated Progress: nothing is said while the track is paused.
ProgressIfPlaying ==
    /\ current = "playing" /\ link # "down"
    /\ Broadcast(Now)
    /\ UNCHANGED <<stream, link, snapshot, feed, initial, changes>>

\* A second has passed since the last broadcast, and there is a socket.
Progress ==
    /\ current # "none" /\ link # "down"
    /\ Broadcast(Now)
    /\ UNCHANGED <<stream, link, snapshot, feed, initial, changes>>

-----------------------------------------------------------------------------
(* Other tasks: rebroadcast, and the socket's own first frame.             *)

\* rebroadcast, by a handler or a prepare task.
Retold ==
    IF current = "none" THEN UNCHANGED <<mailbox, events>> ELSE Broadcast(Now)

Rebroadcast ==
    /\ Retold
    /\ UNCHANGED <<stream, link, snapshot, feed, initial, changes>>

\* handle_socket inserts the sender into ws_clients.
Connect ==
    /\ link = "down"
    /\ link' = "inserted"
    /\ UNCHANGED <<stream, snapshot, mailbox, feed, initial, events, changes>>

BuildSnapshot ==
    /\ link = "inserted"
    /\ IF current = "none" THEN link' = "up" /\ UNCHANGED snapshot
                           ELSE link' = "snapshot" /\ snapshot' = Now
    /\ UNCHANGED <<stream, mailbox, feed, initial, events, changes>>

SendSnapshot ==
    /\ link = "snapshot"
    /\ link' = "up"
    /\ mailbox' = Queued(snapshot)
    /\ snapshot' = NoFrame
    /\ UNCHANGED <<stream, feed, initial, events, changes>>

\* The socket is lost, with what its channel held.
Unlinked == link' = "down" /\ snapshot' = NoFrame /\ mailbox' = <<>>

-----------------------------------------------------------------------------
(* handle_togedemon_push and handle_togedemon_events.                      *)

\* play_live, and a rebroadcast if there is a track.
GoLive ==
    /\ live' = TRUE /\ gen' = gen + 1 /\ hasTrack' = FALSE
    /\ UNCHANGED current
    /\ IF current = "none" THEN UNCHANGED <<mailbox, events>>
                           ELSE Broadcast(FrameOf(current, gen + 1, FALSE, TRUE))

\* The slot is freed, the stream stopped, and the current track taken up.
GoOff(cached) ==
    IF current = "none"
    THEN /\ live' = FALSE /\ gen' = gen + 1 /\ hasTrack' = FALSE
         /\ UNCHANGED <<current, mailbox, events>>
    ELSE Become(current, gen + 2, current = "playing" /\ cached, FALSE)

\* The initial event is computed before the subscription.
ComputeInitial ==
    /\ feed = "down"
    /\ feed' = "computed"
    /\ initial' = <<current = "playing">>
    /\ UNCHANGED <<stream, link, snapshot, mailbox, events, changes>>

Subscribe ==
    /\ feed = "computed"
    /\ feed' = "up"
    /\ UNCHANGED <<stream, link, snapshot, mailbox, initial, events, changes>>

Unfed == feed' = "down" /\ initial' = <<>> /\ events' = <<>>

\* The server starts anew: all of this is memory.
ServerRestart ==
    /\ current' = "none" /\ gen' = 0 /\ hasTrack' = FALSE /\ live' = FALSE
    /\ Unlinked /\ Unfed

ServerStep ==
    \/ Prepared \/ Progress \/ Rebroadcast
    \/ Connect \/ BuildSnapshot \/ SendSnapshot
    \/ ComputeInitial \/ Subscribe
=============================================================================
