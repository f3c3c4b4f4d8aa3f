------------------------------ MODULE PlayerPage -------------------------------
(***************************************************************************)
(* One player page (web/static/js/player.js): its socket, its audio        *)
(* element and the listener's button, against the server of Updates.  A    *)
(* handler of the page is one step, as in a browser.  A /stream request    *)
(* arrives later than it is sent, and is answered with the pipe that is    *)
(* current by then.                                                        *)
(***************************************************************************)
EXTENDS Updates

VARIABLES
    opened,     \* whether the page has seen its socket open
    frames,     \* what the page has sent and the server not read: listening on or off
    tally,      \* the flag listening of handle_socket
    track,      \* the last frame the page has received
    listening,
    connected,  \* connectedStreamGen
    paused,     \* whether the audio element is paused
    request,    \* its /stream request: none, asked, on (answered) or over
    pipe,       \* the generation of the pipe it was answered with
    timer,      \* pauseTimeout is set
    cut,        \* the request was refused or cut off, and not replaced since
    old,        \* track is a frame of an earlier run of the server
    foreign     \* connected was noted from such a frame

socket == <<opened, frames, tally>>
audio == <<connected, paused, request, pipe, cut, foreign>>
page == <<socket, track, old, listening, timer, audio>>

PageInit ==
    /\ opened = FALSE /\ frames = <<>> /\ tally = FALSE
    /\ track = NoFrame /\ old = FALSE /\ listening = FALSE
    /\ connected = 0 /\ paused = TRUE /\ request = "none" /\ pipe = 0 /\ timer = FALSE
    /\ cut = FALSE /\ foreign = FALSE

\* connectStream, when f is the last frame, of an earlier run if o.
ConnectStream(f, o) ==
    /\ connected' = f.gen
    /\ paused' = FALSE
    /\ request' = "asked"
    /\ cut' = FALSE /\ foreign' = o
    /\ pipe' = 0

\* Mutated DisconnectStream: the generation is kept.
DisconnectKeeping ==
    /\ paused' = TRUE
    /\ request' = "none"
    /\ cut' = FALSE
    /\ pipe' = 0
    /\ UNCHANGED <<connected, foreign>>

DisconnectStream ==
    /\ connected' = 0
    /\ paused' = TRUE
    /\ request' = "none"
    /\ cut' = FALSE /\ foreign' = FALSE
    /\ pipe' = 0

\* sendListening: only an open socket is written to.
SendListening(on) == frames' = IF opened THEN Append(frames, on) ELSE frames

StopListening ==
    /\ listening' = FALSE
    /\ SendListening(FALSE)
    /\ timer' = FALSE
    /\ DisconnectStream

ShouldPlay(f) == f.active /\ f.isPlaying

-----------------------------------------------------------------------------
(* The button, and the timer of a pause.                                   *)

ClickListen ==
    /\ ~listening /\ track.track
    /\ listening' = TRUE
    /\ SendListening(TRUE)
    /\ IF ShouldPlay(track) THEN ConnectStream(track, old) ELSE UNCHANGED audio
    /\ UNCHANGED <<opened, tally, track, old, timer>>

ClickLeave ==
    /\ listening /\ track.track
    /\ StopListening
    /\ UNCHANGED <<opened, tally, track, old>>

Click ==
    /\ ClickListen \/ ClickLeave
    /\ Outside("click")
    /\ UNCHANGED <<stream, link, snapshot, mailbox, feed, initial, events>>

PauseTimeout ==
    /\ timer
    /\ IF listening /\ ~track.isPlaying
       THEN StopListening
       ELSE timer' = FALSE /\ UNCHANGED <<listening, frames, audio>>
    /\ UNCHANGED <<opened, tally, track, old, vars>>

-----------------------------------------------------------------------------
(* The socket.                                                             *)

\* Mutated Opened: the page does not say again that it listens.
OpenedSilently ==
    /\ link # "down" /\ ~opened
    /\ opened' = TRUE
    /\ UNCHANGED <<frames, tally, track, old, listening, timer, audio, vars>>

\* onopen.
Opened ==
    /\ link # "down" /\ ~opened
    /\ opened' = TRUE
    /\ frames' = IF listening THEN Append(frames, TRUE) ELSE frames
    /\ UNCHANGED <<tally, track, old, listening, timer, audio, vars>>

\* handle_socket reads a frame of the page.
ReadListening ==
    /\ frames # <<>>
    /\ tally' = Head(frames)
    /\ frames' = Tail(frames)
    /\ UNCHANGED <<opened, track, old, listening, timer, audio, vars>>

\* Mutated SyncAudio: a page that has connected once stays with its connection.
SyncOnce(f) ==
    IF ~ShouldPlay(f)
    THEN /\ timer' = TRUE
         /\ paused' = TRUE
         /\ UNCHANGED <<connected, request, pipe, cut, foreign>>
    ELSE /\ timer' = FALSE
         /\ IF connected = 0 THEN ConnectStream(f, FALSE) ELSE UNCHANGED audio

\* syncAudio, for a page that listens.
SyncAudio(f) ==
    IF ~ShouldPlay(f)
    THEN /\ timer' = TRUE
         /\ paused' = TRUE
         /\ UNCHANGED <<connected, request, pipe, cut, foreign>>
    ELSE /\ timer' = FALSE
         /\ IF connected = 0 \/ connected # f.gen THEN ConnectStream(f, FALSE) ELSE UNCHANGED audio

\* onMessage: syncAudio, then render, which leaves when there is no track.
Receive ==
    /\ opened /\ mailbox # <<>>
    /\ track' = Head(mailbox) /\ old' = FALSE
    /\ mailbox' = Tail(mailbox)
    /\ \/ /\ ~listening
          /\ UNCHANGED <<listening, frames, timer, audio>>
       \/ /\ listening /\ track'.track
          /\ SyncAudio(track')
          /\ UNCHANGED <<listening, frames>>
       \/ /\ listening /\ ~track'.track
          /\ StopListening
    /\ UNCHANGED <<opened, tally, stream, link, snapshot, feed, initial, events, changes>>

\* Both ends lose the socket; the page tries again after reconnectDelay.
SocketClosed ==
    /\ opened' = FALSE /\ frames' = <<>> /\ tally' = FALSE
    /\ UNCHANGED <<track, listening, timer>>

SocketLost ==
    /\ link # "down"
    /\ Outside("fault")
    /\ Unlinked
    /\ SocketClosed
    /\ UNCHANGED <<old, audio, stream, feed, initial, events>>

-----------------------------------------------------------------------------
(* The /stream request.                                                    *)

\* handle_stream: the listener is added to the current pipe, and everyone told.
Arrive ==
    /\ request = "asked"
    /\ request' = "on" /\ pipe' = gen
    /\ Retold
    /\ UNCHANGED <<socket, track, old, listening, timer, connected, paused, cut, foreign>>
    /\ UNCHANGED <<stream, link, snapshot, feed, initial, changes>>

\* The body of a retired pipe ends, and everyone is told.
BodyEnds ==
    /\ request = "on" /\ pipe # gen
    /\ request' = "over" /\ pipe' = 0
    /\ Retold
    /\ UNCHANGED <<socket, track, old, listening, timer, connected, paused, cut, foreign>>
    /\ UNCHANGED <<stream, link, snapshot, feed, initial, changes>>

\* Too many listeners, or MAX_STREAM_CONNECTION_DURATION is over, or the network fails.
CutOff ==
    /\ request \in {"asked", "on"}
    /\ Outside("fault")
    /\ request' = "over" /\ pipe' = 0 /\ cut' = TRUE
    /\ UNCHANGED <<socket, track, old, listening, timer, connected, paused, foreign>>
    /\ UNCHANGED <<stream, link, snapshot, mailbox, feed, initial, events>>

\* What the restart of the server does to the page.
PageCutOff ==
    /\ SocketClosed
    /\ request' = IF request = "none" THEN "none" ELSE "over"
    /\ pipe' = 0
    /\ old' = track.track /\ foreign' = (connected # 0)
    /\ UNCHANGED <<connected, paused, cut>>

PageStep ==
    \/ Click \/ PauseTimeout
    \/ Opened \/ ReadListening \/ Receive \/ SocketLost
    \/ Arrive \/ BodyEnds \/ CutOff

-----------------------------------------------------------------------------
(* Properties.                                                             *)

\* Every variable has its type.
PageTypeOK ==
    /\ opened \in BOOLEAN /\ tally \in BOOLEAN /\ frames \in Seq(BOOLEAN)
    /\ track \in Frame /\ listening \in BOOLEAN /\ timer \in BOOLEAN
    /\ connected \in Nat /\ paused \in BOOLEAN /\ pipe \in Nat
    /\ request \in {"none", "asked", "on", "over"}
    /\ cut \in BOOLEAN /\ old \in BOOLEAN /\ foreign \in BOOLEAN

\* What the server counts for an open socket, once it has read all, is whether its page
\* listens, although clicks before the socket is open are never sent (sendListening).
TallyFollows ==
    opened => IF frames = <<>> THEN tally = listening ELSE frames[Len(frames)] = listening

\* A page that would not connect again, since it has noted the current generation, has its
\* request under way or is on the pipe of that generation (player.js:97, 168): the note is
\* taken from a frame that may be older than the pipe that the request meets.
SkipIsSafe ==
    connected = gen /\ connected # 0 /\ ~cut /\ ~foreign =>
        request = "asked" \/ (request = "on" /\ pipe = gen)

\* Once nothing happens any more, a page shows what the server plays: a snapshot that comes
\* after a newer frame, a full channel, a snapshot built before a change and sent after it
\* are all made good.  (Here a broadcast is built and sent in one step; of one that is not,
\* Playback: GenerationIsTold.)  Not so once the track is gone: nothing is sent then.
PageShows == <>[](link # "down" /\ current # "none" => track = Now)

\* What the page does not recover from before the next generation: its element was paused
\* and the generation did not change with the resume (a live stream); its request was
\* refused or cut off; the generation it has noted was another run's.
Stranded == connected = gen /\ (paused \/ cut \/ foreign)

\* Once nothing happens any more, a listening page hears the stream, unless it is stranded.
ListenerHears ==
    <>[](listening /\ current = "playing" /\ (live \/ hasTrack) =>
            Stranded \/ (request = "on" /\ pipe = gen /\ ~paused))
=============================================================================
