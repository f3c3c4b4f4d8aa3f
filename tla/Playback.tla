------------------------------- MODULE Playback -------------------------------
(***************************************************************************)
(* Who feeds the stream.  The Spotify monitor and the prepare tasks of     *)
(* src/server/workers.rs, the togedemon connections and the admin's player *)
(* switch of src/server/mod.rs all replace the one pipe of StreamManager   *)
(* (src/server/stream.rs), and all do so after looking at shared state     *)
(* whose locks they have let go of.                                        *)
(*                                                                         *)
(* Each lock of the code is held for one step here.  play_track, stop and  *)
(* play_live are swap_pipe: one critical section that gives the stream a   *)
(* new generation.  Only whether a generation is the current one matters,  *)
(* so "knows" holds those who carry the current number: senders between    *)
(* building a message and sending it, and the player pages.                *)
(***************************************************************************)
EXTENDS FiniteSets

CONSTANTS
    Track,
    Prep,       \* tasks spawned by spawn_prepare
    Push,       \* togedemon connections: running handle_togedemon_push
    Admin,      \* requests running handle_admin_player
    Monitor,    \* spotify_monitor_worker
    Page,       \* the player pages, which all get the same messages
    Nothing,    \* nothing plays, no togedemon is live, no track
    Casts       \* bound: the tasks and tracks that may take part in one behaviour

Proc == Prep \cup Push \cup Admin \cup {Monitor}
Snapshot == [track : Track, playing : BOOLEAN]
Pipe == [kind : {"file"}, of : Track] \cup [kind : {"live"}, of : Push]
        \cup [kind : {"quiet"}, of : {Nothing}]
Locals == [track : Track \cup {Nothing}, playing : BOOLEAN, seeked : BOOLEAN,
           path : BOOLEAN, changed : BOOLEAN]

ASSUME ProcAssumption ==
    /\ Prep \cap Push = {} /\ Prep \cap Admin = {} /\ Push \cap Admin = {}
    /\ Monitor \notin Prep \cup Push \cup Admin
    /\ Page \notin Proc
ASSUME CastAssumption ==
    \A c \in Casts : c.tasks \subseteq Prep \cup Push \cup Admin /\ c.tracks \subseteq Track
ASSUME NothingAssumption == Nothing \notin Track \cup Push \cup Snapshot

VARIABLES
    cast,       \* the tasks and tracks that take part in this behaviour
    spotify,    \* what the Spotify account is doing
    seeked,     \* it moved by more than SEEK_DRIFT_MS since the last poll
    cached,     \* tracks that get_cached_path answers with a path
    current,    \* AppState.current
    enabled,    \* player_enabled
    slot,       \* AppState.togedemon_cancel: the connection whose token it holds
    cancelled,  \* connections whose token is cancelled
    pipe,       \* State.pipe: what feeds it; State.playing_file is kind = "file"
    knows,      \* who carries the current generation
    pc,         \* where each process is
    snap,       \* the Spotify snapshot each process works from
    via,        \* what each process came to maybe_play or to its broadcast for
    mon         \* the monitor's own variables, with what it knows of the track it polled

account == <<cast, spotify, seeked, cached>>
locals == <<pc, snap, via>>
vars == <<account, current, enabled, slot, cancelled, pipe, knows, locals, mon>>

FilePipe(t) == [kind |-> "file", of |-> t]
LivePipe(h) == [kind |-> "live", of |-> h]
QuietPipe == [kind |-> "quiet", of |-> Nothing]
HasTrack == pipe.kind = "file"

\* What the account may be doing.
Plays == [track : cast.tracks, playing : BOOLEAN] \cup {Nothing}

Init ==
    /\ cast \in Casts
    /\ spotify \in Plays /\ seeked = FALSE
    /\ cached \in SUBSET cast.tracks
    /\ current = Nothing
    /\ enabled \in BOOLEAN
    /\ slot = Nothing /\ cancelled = {}
    /\ pipe = QuietPipe /\ knows = {Page}
    /\ pc = [p \in Proc |-> "idle"]
    /\ snap = [p \in Proc |-> Nothing]
    /\ via = [p \in Proc |-> "none"]
    /\ mon = [track |-> Nothing, playing |-> FALSE, seeked |-> FALSE, path |-> FALSE,
              changed |-> FALSE]

\* p goes on to step "to", and keeps only what its steps from there on read.
Goto(p, to) ==
    /\ pc' = [pc EXCEPT ![p] = to]
    /\ snap' = IF to \in {"quiet", "stop", "tell", "periodic", "idle"}
               THEN [snap EXCEPT ![p] = Nothing] ELSE snap
    /\ via' = IF to = "idle" THEN [via EXCEPT ![p] = "none"] ELSE via

\* The same with a new snapshot to work from, for a new purpose.
Begin(p, to, s, v) ==
    /\ pc' = [pc EXCEPT ![p] = to]
    /\ snap' = [snap EXCEPT ![p] = s]
    /\ via' = [via EXCEPT ![p] = v]

\* swap_pipe: no message built so far, and no page, knows the new generation.
Swap(new) == pipe' = new /\ knows' = {}

-----------------------------------------------------------------------------
(* maybe_play(snap, path), entered at "maybe": is a togedemon live, is the *)
(* player on, then play_track.                                             *)

AfterPlay(v) == IF v = "seek" THEN "flip" ELSE "tell"
AfterNoPlay(v) ==
    CASE v = "switch" -> "quiet"
      [] v = "seek" -> "flip"
      [] v = "late" -> "periodic"
      [] v = "start" -> "idle"
      [] OTHER -> "tell"

MaybeLive(p) ==
    /\ pc[p] = "maybe"
    /\ Goto(p, IF snap[p].playing /\ slot = Nothing THEN "enabled" ELSE AfterNoPlay(via[p]))
    /\ UNCHANGED <<account, current, enabled, slot, cancelled, pipe, knows, mon>>

MaybeEnabled(p) ==
    /\ pc[p] = "enabled"
    /\ Goto(p, IF enabled THEN "play" ELSE AfterNoPlay(via[p]))
    /\ UNCHANGED <<account, current, enabled, slot, cancelled, pipe, knows, mon>>

PlayTrack(p) ==
    /\ pc[p] = "play"
    /\ Swap(FilePipe(snap[p].track))
    /\ Goto(p, AfterPlay(via[p]))
    /\ UNCHANGED <<account, current, enabled, slot, cancelled, mon>>

\* if !togedemon_live() { stop() }, then the broadcast all who do this go on to.
QuietLive(p) ==
    /\ pc[p] = "quiet"
    /\ Goto(p, IF slot = Nothing THEN "stop" ELSE "tell")
    /\ UNCHANGED <<account, current, enabled, slot, cancelled, pipe, knows, mon>>

\* Mutated Stop: the stream counts as playing a file although nothing feeds it.
StopAsFile(p) ==
    /\ pc[p] = "stop"
    /\ Swap(FilePipe(Nothing))
    /\ Goto(p, "tell")
    /\ UNCHANGED <<account, current, enabled, slot, cancelled, mon>>

Stop(p) ==
    /\ pc[p] = "stop"
    /\ Swap(QuietPipe)
    /\ Goto(p, "tell")
    /\ UNCHANGED <<account, current, enabled, slot, cancelled, mon>>

\* switch_track looks the track up first.
SwitchTrack(p) ==
    /\ pc[p] = "switch"
    /\ Goto(p, IF snap[p].track \in cached THEN "maybe" ELSE "quiet")
    /\ UNCHANGED <<account, current, enabled, slot, cancelled, pipe, knows, mon>>

\* broadcast_track_update builds its message, with the generation in it, before it
\* queues it to the pages.  rebroadcast sends nothing while nothing is current.
Tell(p) ==
    /\ pc[p] = "tell"
    /\ ~(via[p] \in {"prepare", "push"} /\ current = Nothing)
    /\ knows' = knows \cup {p}
    /\ Goto(p, "send")
    /\ UNCHANGED <<account, current, enabled, slot, cancelled, pipe, mon>>

TellsNobody(p) ==
    /\ pc[p] = "tell"
    /\ via[p] \in {"prepare", "push"} /\ current = Nothing
    /\ Goto(p, IF via[p] = "push" THEN "headers" ELSE "idle")
    /\ UNCHANGED <<account, current, enabled, slot, cancelled, pipe, knows, mon>>

Send(p) ==
    /\ pc[p] = "send"
    /\ knows' = (IF p \in knows THEN knows \cup {Page} ELSE knows \ {Page}) \ {p}
    /\ Goto(p, IF via[p] = "push" THEN "headers" ELSE "idle")
    /\ UNCHANGED <<account, current, enabled, slot, cancelled, pipe, mon>>

-----------------------------------------------------------------------------
(* spotify_monitor_worker.  A failed poll changes nothing but the time of  *)
(* the next one and is left out.                                           *)

\* Mutated PollNothing: the pages are told, the stream is not stopped.
PollNothingPlaysOn ==
    /\ pc[Monitor] = "idle" /\ spotify = Nothing
    /\ current' = Nothing /\ seeked' = FALSE
    /\ IF mon.track = Nothing
       THEN UNCHANGED <<locals, mon>>
       ELSE /\ Goto(Monitor, "tell")
            /\ mon' = [mon EXCEPT !.track = Nothing, !.playing = FALSE]
    /\ UNCHANGED <<cast, spotify, cached, enabled, slot, cancelled, pipe, knows>>

\* Nothing is playing, or the account is not paired.
PollNothing ==
    /\ pc[Monitor] = "idle" /\ spotify = Nothing
    /\ current' = Nothing /\ seeked' = FALSE
    /\ IF mon.track = Nothing
       THEN UNCHANGED <<locals, mon>>
       ELSE /\ Goto(Monitor, "quiet")
            /\ mon' = [mon EXCEPT !.track = Nothing, !.playing = FALSE]
    /\ UNCHANGED <<cast, spotify, cached, enabled, slot, cancelled, pipe, knows>>

PollNewTrack ==
    /\ pc[Monitor] = "idle" /\ spotify # Nothing
    /\ spotify.track # mon.track
    /\ current' = spotify /\ seeked' = FALSE
    /\ mon' = [mon EXCEPT !.track = spotify.track, !.playing = spotify.playing]
    /\ Begin(Monitor, "switch", spotify, "switch")
    /\ UNCHANGED <<cast, spotify, cached, enabled, slot, cancelled, pipe, knows>>

PollSameTrack ==
    /\ pc[Monitor] = "idle" /\ spotify # Nothing
    /\ spotify.track = mon.track
    /\ current' = spotify /\ seeked' = FALSE
    /\ mon' = [mon EXCEPT !.seeked = seeked]
    /\ Begin(Monitor, "same", spotify, "seek")
    /\ UNCHANGED <<cast, spotify, cached, enabled, slot, cancelled, pipe, knows>>

\* Mutated SameTrack: the path is looked up for a seek only.
SameTrackSeeks ==
    /\ pc[Monitor] = "same"
    /\ LET path == mon.seeked /\ mon.track \in cached
       IN  /\ mon' = [mon EXCEPT !.path = path, !.changed = mon.seeked, !.seeked = FALSE]
           /\ Goto(Monitor, IF path THEN "maybe" ELSE "flip")
    /\ UNCHANGED <<account, current, enabled, slot, cancelled, pipe, knows>>

\* The path is looked up once; a seek resyncs the file.
SameTrack ==
    /\ pc[Monitor] = "same"
    /\ LET path == mon.track \in cached
       IN  /\ mon' = [mon EXCEPT !.path = path, !.changed = mon.seeked, !.seeked = FALSE]
           /\ Goto(Monitor, IF mon.seeked /\ path THEN "maybe" ELSE "flip")
    /\ UNCHANGED <<account, current, enabled, slot, cancelled, pipe, knows>>

\* Resume and pause, else a file that became available late.
Flip ==
    /\ pc[Monitor] = "flip"
    /\ LET playing == snap[Monitor].playing
           flipped == playing # mon.playing
           late == ~flipped /\ ~HasTrack /\ mon.path
       IN  /\ \/ flipped /\ playing /\ mon.path /\ Begin(Monitor, "maybe", snap[Monitor], "resume")
              \/ flipped /\ playing /\ ~mon.path /\ Goto(Monitor, "tell")
              \/ flipped /\ ~playing /\ Goto(Monitor, "quiet")
              \/ late /\ Begin(Monitor, "maybe", snap[Monitor], "late")
              \/ ~flipped /\ ~late /\ Goto(Monitor, "periodic")
           /\ mon' = [mon EXCEPT !.playing = playing, !.path = FALSE,
                                 !.changed = mon.changed /\ ~flipped /\ ~late]
    /\ UNCHANGED <<account, current, enabled, slot, cancelled, pipe, knows>>

\* Mutated PeriodicTell: no broadcast of the progress.
TellChanges ==
    /\ pc[Monitor] = "periodic" /\ mon.changed
    /\ mon' = [mon EXCEPT !.changed = FALSE]
    /\ Goto(Monitor, "tell")
    /\ UNCHANGED <<account, current, enabled, slot, cancelled, pipe, knows>>

\* A change is broadcast, else the progress once WS_PROGRESS_INTERVAL has passed.
PeriodicTell ==
    /\ pc[Monitor] = "periodic"
    /\ mon' = [mon EXCEPT !.changed = FALSE]
    /\ Goto(Monitor, "tell")
    /\ UNCHANGED <<account, current, enabled, slot, cancelled, pipe, knows>>

PeriodicSkip ==
    /\ pc[Monitor] = "periodic" /\ ~mon.changed
    /\ Goto(Monitor, "idle")
    /\ UNCHANGED <<account, current, enabled, slot, cancelled, pipe, knows, mon>>

-----------------------------------------------------------------------------
(* spawn_prepare: prepare_track is the module Preparer, of which only the  *)
(* outcome counts here.                                                    *)

Prepare(p, t) ==
    /\ pc[p] = "idle" /\ t \notin cached
    /\ Begin(p, "preparing", [track |-> t, playing |-> FALSE], "prepare")
    /\ UNCHANGED <<account, current, enabled, slot, cancelled, pipe, knows, mon>>

PrepareOk(p) ==
    /\ pc[p] = "preparing"
    /\ cached' = cached \cup {snap[p].track}
    /\ Goto(p, "prepared")
    /\ UNCHANGED <<cast, spotify, seeked, current, enabled, slot, cancelled, pipe, knows, mon>>

PrepareFails(p) ==
    /\ pc[p] = "preparing"
    /\ Goto(p, "tell")
    /\ UNCHANGED <<account, current, enabled, slot, cancelled, pipe, knows, mon>>

\* Is it the current track by now?  If not, its copy is prewarmed.
PreparedCurrent(p) ==
    /\ pc[p] = "prepared"
    /\ current # Nothing /\ current.track = snap[p].track
    /\ Begin(p, "hastrack", current, "prepare")
    /\ UNCHANGED <<account, current, enabled, slot, cancelled, pipe, knows, mon>>

PreparedOther(p) ==
    /\ pc[p] = "prepared"
    /\ current # Nothing => current.track # snap[p].track
    /\ Goto(p, "tell")
    /\ UNCHANGED <<account, current, enabled, slot, cancelled, pipe, knows, mon>>

\* The monitor may have started it already.
PreparedPlays(p) ==
    /\ pc[p] = "hastrack"
    /\ Goto(p, IF HasTrack THEN "tell" ELSE "maybe")
    /\ UNCHANGED <<account, current, enabled, slot, cancelled, pipe, knows, mon>>

-----------------------------------------------------------------------------
(* handle_togedemon_push.                                                  *)

PushConnects(h) ==
    /\ pc[h] = "idle" /\ enabled
    /\ cancelled' = cancelled \ {h}
    /\ Begin(h, "take", Nothing, "push")
    /\ UNCHANGED <<account, current, enabled, slot, pipe, knows, mon>>

\* The newest togedemon wins: tokens are swapped and cancelled under one lock.
PushTakes(h) ==
    /\ pc[h] = "take"
    /\ slot' = h
    /\ cancelled' = cancelled \cup ({slot} \cap Push)
    /\ Goto(h, "golive")
    /\ UNCHANGED <<account, current, enabled, pipe, knows, mon>>

PushGoesLive(h) ==
    /\ pc[h] = "golive"
    /\ Swap(LivePipe(h))
    /\ Goto(h, "tell")
    /\ UNCHANGED <<account, current, enabled, slot, cancelled, mon>>

\* pump_ogg has read the header pages and the first page of audio.  Until then it
\* looks at nothing but the body.
PushHeaders(h) ==
    /\ pc[h] = "headers"
    /\ Goto(h, "pump")
    /\ UNCHANGED <<account, current, enabled, slot, cancelled, pipe, knows, mon>>

\* The togedemon goes away, or its body ends.
PushBodyEnds(h) ==
    /\ pc[h] \in {"headers", "pump"}
    /\ Goto(h, "end")
    /\ UNCHANGED <<account, current, enabled, slot, cancelled, pipe, knows, mon>>

\* Mutated PushCutOff: the handler is deaf to the end of its pipe.
PushCancelledOnly(h) ==
    /\ pc[h] \in {"headers", "pump"} /\ h \in cancelled
    /\ Goto(h, "end")
    /\ UNCHANGED <<account, current, enabled, slot, cancelled, pipe, knows, mon>>

\* The select of handle_togedemon_push ends: its token is cancelled, or pump_ogg saw
\* that its pipe was retired.
PushCutOff(h) ==
    /\ \/ pc[h] \in {"headers", "pump"} /\ h \in cancelled
       \/ pc[h] = "pump" /\ pipe # LivePipe(h)
    /\ Goto(h, "end")
    /\ UNCHANGED <<account, current, enabled, slot, cancelled, pipe, knows, mon>>

PushSuperseded(h) ==
    /\ pc[h] = "end" /\ h \in cancelled
    /\ Goto(h, "idle")
    /\ UNCHANGED <<account, current, enabled, slot, cancelled, pipe, knows, mon>>

\* Mutated PushLetsGo: a superseded connection clears the slot too.
PushClearsSlot(h) ==
    /\ pc[h] = "end"
    /\ slot' = Nothing
    /\ Goto(h, "letgo")
    /\ UNCHANGED <<account, current, enabled, cancelled, pipe, knows, mon>>

PushLetsGo(h) ==
    /\ pc[h] = "end" /\ h \notin cancelled
    /\ slot' = Nothing
    /\ Goto(h, "letgo")
    /\ UNCHANGED <<account, current, enabled, cancelled, pipe, knows, mon>>

PushStops(h) ==
    /\ pc[h] = "letgo"
    /\ Swap(QuietPipe)
    /\ Goto(h, "fallback")
    /\ UNCHANGED <<account, current, enabled, slot, cancelled, mon>>

\* Fall back to the cache: switch_track on what is current.
PushFallsBack(h) ==
    /\ pc[h] = "fallback" /\ current # Nothing
    /\ Begin(h, "switch", current, "switch")
    /\ UNCHANGED <<account, current, enabled, slot, cancelled, pipe, knows, mon>>

PushFallsSilent(h) ==
    /\ pc[h] = "fallback" /\ current = Nothing
    /\ Goto(h, "idle")
    /\ UNCHANGED <<account, current, enabled, slot, cancelled, pipe, knows, mon>>

-----------------------------------------------------------------------------
(* handle_admin_player.                                                    *)

\* The handler leaves if the file cannot be saved: the switch is set in memory all the same.
SwitchOn(a) ==
    /\ pc[a] = "idle"
    /\ enabled' = TRUE
    /\ \E to \in {"on", "idle"} : Goto(a, to)
    /\ UNCHANGED <<account, current, slot, cancelled, pipe, knows, mon>>

\* start_stream_if_playing.
StartStream(a) ==
    /\ pc[a] = "on" /\ current # Nothing /\ current.track \in cached
    /\ Begin(a, "maybe", current, "start")
    /\ UNCHANGED <<account, current, enabled, slot, cancelled, pipe, knows, mon>>

StartNothing(a) ==
    /\ pc[a] = "on"
    /\ current # Nothing => current.track \notin cached
    /\ Goto(a, "idle")
    /\ UNCHANGED <<account, current, enabled, slot, cancelled, pipe, knows, mon>>

SwitchOff(a) ==
    /\ pc[a] = "idle"
    /\ enabled' = FALSE
    /\ \E to \in {"off", "idle"} : Goto(a, to)
    /\ UNCHANGED <<account, current, slot, cancelled, pipe, knows, mon>>

DropTogedemon(a) ==
    /\ pc[a] = "off"
    /\ slot' = Nothing
    /\ cancelled' = cancelled \cup ({slot} \cap Push)
    /\ Goto(a, "offstop")
    /\ UNCHANGED <<account, current, enabled, pipe, knows, mon>>

StopStream(a) ==
    /\ pc[a] = "offstop"
    /\ Swap(QuietPipe)
    /\ Goto(a, "idle")
    /\ UNCHANGED <<account, current, enabled, slot, cancelled, mon>>

-----------------------------------------------------------------------------
(* The listener on Spotify, and the cache losing a track.                  *)

SpotifyChanges ==
    /\ spotify' \in Plays \ {spotify}
    /\ seeked' = FALSE
    /\ UNCHANGED <<cast, cached, current, enabled, slot, cancelled, pipe, knows, locals, mon>>

SpotifySeeks ==
    /\ spotify # Nothing
    /\ seeked' = TRUE
    /\ UNCHANGED <<cast, spotify, cached, current, enabled, slot, cancelled, pipe, knows, locals,
                   mon>>

CacheDrops(t) ==
    /\ t \in cached
    /\ cached' = cached \ {t}
    /\ UNCHANGED <<cast, spotify, seeked, current, enabled, slot, cancelled, pipe, knows, locals, mon>>

-----------------------------------------------------------------------------
Shared(p) ==
    \/ MaybeLive(p) \/ MaybeEnabled(p) \/ PlayTrack(p) \/ QuietLive(p) \/ Stop(p)
    \/ SwitchTrack(p) \/ Tell(p) \/ TellsNobody(p) \/ Send(p)

MonitorStep ==
    \/ PollNothing \/ PollNewTrack \/ PollSameTrack \/ SameTrack \/ Flip
    \/ PeriodicTell \/ PeriodicSkip \/ Shared(Monitor)

PrepStep(p) ==
    \/ PrepareOk(p) \/ PrepareFails(p) \/ PreparedCurrent(p) \/ PreparedOther(p)
    \/ PreparedPlays(p) \/ Shared(p)

PushStep(h) ==
    \/ PushTakes(h) \/ PushGoesLive(h) \/ PushCutOff(h) \/ PushSuperseded(h)
    \/ PushLetsGo(h) \/ PushStops(h) \/ PushFallsBack(h) \/ PushFallsSilent(h) \/ Shared(h)

AdminStep(a) ==
    \/ StartStream(a) \/ StartNothing(a) \/ DropTogedemon(a) \/ StopStream(a) \/ Shared(a)

Environment ==
    \/ SpotifyChanges \/ SpotifySeeks
    \/ \E t \in cast.tracks : CacheDrops(t) \/ \E p \in Prep \cap cast.tasks : Prepare(p, t)
    \/ \E h \in Push \cap cast.tasks : PushConnects(h) \/ PushHeaders(h) \/ PushBodyEnds(h)
    \/ \E a \in Admin \cap cast.tasks : SwitchOn(a) \/ SwitchOff(a)

Next ==
    \/ MonitorStep
    \/ \E p \in Prep : PrepStep(p)
    \/ \E h \in Push : PushStep(h)
    \/ \E a \in Admin : AdminStep(a)
    \/ Environment

Spec == Init /\ [][Next]_vars

\* Every task that runs is scheduled, and WS_PROGRESS_INTERVAL passes again and
\* again; what Spotify, the togedemons and the admin do is up to them.
Fairness ==
    /\ WF_vars(MonitorStep) /\ SF_vars(PeriodicTell)
    /\ \A p \in Prep : WF_vars(PrepStep(p))
    /\ \A h \in Push : WF_vars(PushStep(h))
    /\ \A a \in Admin : WF_vars(AdminStep(a))

FairSpec == Spec /\ Fairness

-----------------------------------------------------------------------------
(* Properties.                                                             *)

\* Every variable has its type.
TypeOK ==
    /\ cast \in Casts
    /\ spotify \in Snapshot \cup {Nothing} /\ current \in Snapshot \cup {Nothing}
    /\ seeked \in BOOLEAN /\ enabled \in BOOLEAN
    /\ cached \subseteq Track
    /\ slot \in Push \cup {Nothing} /\ cancelled \subseteq Push
    /\ pipe \in Pipe /\ knows \subseteq Proc \cup {Page}
    /\ pc \in [Proc -> {"idle", "maybe", "enabled", "play", "quiet", "stop", "switch", "tell",
                        "send", "same", "flip", "periodic", "preparing", "prepared", "hastrack",
                        "take", "golive", "headers", "pump", "end", "letgo", "fallback", "on", "off",
                        "offstop"}]
    /\ snap \in [Proc -> Snapshot \cup {Nothing}]
    /\ via \in [Proc -> {"none", "switch", "seek", "resume", "late", "prepare", "push", "start"}]
    /\ mon \in Locals

\* Between taking the slot and letting it go, a connection is the live one exactly
\* while its token is not cancelled (mod.rs:582), and a slot that is taken belongs to
\* a handler that will release it.
Connected(h) ==
    \/ pc[h] \in {"golive", "headers", "pump", "end"}
    \/ pc[h] \in {"tell", "send"} /\ via[h] = "push"

TokenMatchesSlot ==
    /\ \A h \in Push : Connected(h) => (h \in cancelled <=> slot # h)
    /\ slot # Nothing => Connected(slot)

\* Nobody is in the middle of anything, and the monitor has seen what Spotify does.
Settled ==
    /\ \A p \in Proc : pc[p] = "idle" \/ pc[p] \in {"headers", "pump"}
    /\ current = spotify /\ mon.track = (IF spotify = Nothing THEN Nothing ELSE spotify.track)
    /\ spotify # Nothing => mon.playing = spotify.playing

\* workers.rs:32, "keeps the stream ... in step" with Spotify: once settled, a file
\* streams only while Spotify plays, and it is the track Spotify plays.
InStep == Settled /\ HasTrack => current # Nothing /\ current.playing /\ current.track = pipe.of

\* It holds as long as nobody but the monitor takes part.
InStepAlone == cast.tasks = {} => InStep

\* mod.rs:582, "The newest togedemon wins": while the newest connection pumps, the
\* stream is fed by it.
NewestWins == \A h \in Push : pc[h] = "pump" /\ slot = h => pipe = LivePipe(h)

\* A live togedemon whose pipe was retired under it does not stay connected and unheard
\* once its audio has begun: its handler ends, which frees the slot.
MutedPushEnds ==
    \A h \in Push : (slot = h /\ pc[h] = "pump" /\ pipe # LivePipe(h)) ~> slot # h

\* While Spotify keeps playing a cached track to an enabled player and no togedemon is
\* live, some file streams in the end, whoever stopped the stream last.
Wanted ==
    /\ spotify # Nothing /\ spotify.playing /\ spotify.track \in cached
    /\ enabled /\ slot = Nothing
SilenceEnds == <>[]Wanted => <>[]HasTrack

\* Once Spotify stays on what is current and nobody but the monitor is at work, the
\* pages come to know the current generation for good, although a message built
\* before the last swap may have reached them after one built later.
Calm ==
    /\ current # Nothing /\ spotify = current /\ ~seeked
    /\ \A p \in Proc \ {Monitor} : pc[p] \in {"idle", "preparing", "headers", "pump"}
GenerationIsTold == <>[]Calm => <>[](Page \in knows)
=============================================================================
