---------------------------- MODULE PlaybackProofs ----------------------------
(***************************************************************************)
(* What Playback guarantees about the live slot, for any number of tracks, *)
(* prepare tasks, togedemon connections and admin requests.                *)
(***************************************************************************)
EXTENDS Playback, TLAPS

\* A task that looks at its snapshot has one.
Carries ==
    \A p \in Proc :
        pc[p] \in {"maybe", "enabled", "play", "switch", "same", "flip", "preparing",
                   "prepared", "hastrack"} => snap[p] \in Snapshot

Typed == TypeOK /\ Carries

\* Where a task goes when maybe_play does not play.
LEMMA AfterNoPlayType ==
    ASSUME NEW v
    PROVE  AfterNoPlay(v) \in {"quiet", "flip", "periodic", "idle", "tell"}
BY Zenon DEF AfterNoPlay

\* Where a task goes when it does.
LEMMA AfterPlayType ==
    ASSUME NEW v
    PROVE  AfterPlay(v) \in {"flip", "tell"}
BY DEF AfterPlay

\* A snapshot is not the sentinel.
LEMMA SnapshotType ==
    ASSUME NEW s \in Snapshot
    PROVE  s.track \in Track /\ s.playing \in BOOLEAN /\ s # Nothing
BY NothingAssumption DEF Snapshot

\* The three ways to feed a pipe.
LEMMA PipeType ==
    /\ QuietPipe \in Pipe
    /\ \A t \in Track : FilePipe(t) \in Pipe
    /\ \A h \in Push : LivePipe(h) \in Pipe
BY DEF QuietPipe, FilePipe, LivePipe, Pipe

\* Nobody takes part whom the constants do not name.
LEMMA CastType ==
    ASSUME cast \in Casts
    PROVE  /\ cast.tracks \subseteq Track
           /\ Plays \subseteq Snapshot \cup {Nothing}
<1>1. cast.tracks \subseteq Track
  BY CastAssumption
<1> QED
  BY <1>1 DEF Plays, Snapshot

\* The steps several tasks share keep the types.
LEMMA TypeShared ==
    ASSUME Typed, NEW p \in Proc, Shared(p)
    PROVE  Typed'
<1> USE DEF Typed, TypeOK, Carries, account, locals
<1>1. CASE MaybeLive(p)
  BY <1>1, AfterNoPlayType DEF MaybeLive, Goto
<1>2. CASE MaybeEnabled(p)
  BY <1>2, AfterNoPlayType DEF MaybeEnabled, Goto
<1>3. CASE PlayTrack(p)
  BY <1>3, AfterPlayType, SnapshotType, PipeType DEF PlayTrack, Goto, Swap
<1>4. CASE QuietLive(p)
  BY <1>4 DEF QuietLive, Goto
<1>5. CASE Stop(p)
  BY <1>5, PipeType DEF Stop, Goto, Swap
<1>6. CASE SwitchTrack(p)
  BY <1>6 DEF SwitchTrack, Goto
<1>7. CASE Tell(p)
  BY <1>7 DEF Tell, Goto
<1>8. CASE TellsNobody(p)
  BY <1>8 DEF TellsNobody, Goto
<1>9. CASE Send(p)
  BY <1>9 DEF Send, Goto
<1> QED
  BY <1>1, <1>2, <1>3, <1>4, <1>5, <1>6, <1>7, <1>8, <1>9 DEF Shared

\* The assignments to the monitor's variables.
LEMMA LocalsType ==
    ASSUME NEW m \in Locals, NEW t \in Track \cup {Nothing},
           NEW b \in BOOLEAN, NEW c \in BOOLEAN
    PROVE  /\ [m EXCEPT !.track = t, !.playing = b] \in Locals
           /\ [m EXCEPT !.seeked = b] \in Locals
           /\ [m EXCEPT !.path = b, !.changed = m.seeked, !.seeked = FALSE] \in Locals
           /\ [m EXCEPT !.playing = b, !.path = FALSE, !.changed = c] \in Locals
           /\ [m EXCEPT !.changed = b] \in Locals
BY DEF Locals

\* The steps of the monitor keep the types.
LEMMA TypeMonitor ==
    ASSUME Typed, MonitorStep
    PROVE  Typed'
<1> USE DEF Typed, TypeOK, Carries, Proc, account, locals
<1>1. CASE PollNothing
  <2>1. CASE mon.track = Nothing
    BY <1>1, <2>1 DEF PollNothing
  <2>2. CASE mon.track # Nothing
    <3>1. mon' \in Locals
      <4>1. mon' = [mon EXCEPT !.track = Nothing, !.playing = FALSE]
        BY <1>1, <2>2 DEF PollNothing
      <4>2. [mon EXCEPT !.track = Nothing, !.playing = FALSE] \in Locals
        BY DEF Locals
      <4> QED
        BY <4>1, <4>2
    <3>2. Goto(Monitor, "quiet")
      BY <1>1, <2>2 DEF PollNothing
    <3> QED
      BY <1>1, <3>1, <3>2 DEF PollNothing, Goto
  <2> QED
    BY <2>1, <2>2
<1>2. CASE PollNewTrack
  BY <1>2, SnapshotType, LocalsType DEF PollNewTrack, Begin
<1>3. CASE PollSameTrack
  BY <1>3, SnapshotType, LocalsType DEF PollSameTrack, Begin
<1>4. CASE SameTrack
  <2> DEFINE path == mon.track \in cached
  <2>1. mon' \in Locals
    <3>1. path \in BOOLEAN
      OBVIOUS
    <3>2. mon' = [mon EXCEPT !.path = path, !.changed = mon.seeked, !.seeked = FALSE]
      BY <1>4 DEF SameTrack
    <3> HIDE DEF path
    <3> QED
      BY <3>1, <3>2, LocalsType
  <2>2. Goto(Monitor, "maybe") \/ Goto(Monitor, "flip")
    BY <1>4 DEF SameTrack
  <2>3. UNCHANGED <<account, current, enabled, slot, cancelled, pipe, knows>>
    BY <1>4 DEF SameTrack
  <2>4. snap[Monitor] \in Snapshot
    BY <1>4 DEF SameTrack
  <2> QED
    BY <2>1, <2>2, <2>3, <2>4 DEF Goto
<1>5. CASE Flip
  <2> DEFINE playing == snap[Monitor].playing
             flipped == playing # mon.playing
             late == ~flipped /\ ~HasTrack /\ mon.path
             changed == mon.changed /\ ~flipped /\ ~late
  <2>1. snap[Monitor] \in Snapshot
    BY <1>5 DEF Flip
  <2>2. mon' \in Locals
    <3>1. playing \in BOOLEAN /\ changed \in BOOLEAN
      BY <2>1, SnapshotType
    <3>2. mon' = [mon EXCEPT !.playing = playing, !.path = FALSE, !.changed = changed]
      BY <1>5 DEF Flip
    <3> HIDE DEF playing, changed
    <3> QED
      BY <3>1, <3>2, LocalsType
  <2>3. \/ Begin(Monitor, "maybe", snap[Monitor], "resume")
        \/ Begin(Monitor, "maybe", snap[Monitor], "late")
        \/ Goto(Monitor, "tell") \/ Goto(Monitor, "quiet") \/ Goto(Monitor, "periodic")
    BY <1>5 DEF Flip
  <2>4. UNCHANGED <<account, current, enabled, slot, cancelled, pipe, knows>>
    BY <1>5 DEF Flip
  <2> QED
    BY <2>1, <2>2, <2>3, <2>4 DEF Goto, Begin
<1>6. CASE PeriodicTell
  BY <1>6, LocalsType DEF PeriodicTell, Goto
<1>7. CASE PeriodicSkip
  BY <1>7 DEF PeriodicSkip, Goto
<1>8. CASE Shared(Monitor)
  BY <1>8, TypeShared
<1> QED
  BY <1>1, <1>2, <1>3, <1>4, <1>5, <1>6, <1>7, <1>8 DEF MonitorStep

\* The steps of a prepare task keep the types.
LEMMA TypePrep ==
    ASSUME Typed, NEW p \in Prep, PrepStep(p)
    PROVE  Typed'
<1> USE DEF Typed, TypeOK, Carries, Proc, account, locals
<1>1. CASE PrepareOk(p)
  BY <1>1, SnapshotType DEF PrepareOk, Goto
<1>2. CASE PrepareFails(p)
  BY <1>2 DEF PrepareFails, Goto
<1>3. CASE PreparedCurrent(p)
  BY <1>3 DEF PreparedCurrent, Begin
<1>4. CASE PreparedOther(p)
  BY <1>4 DEF PreparedOther, Goto
<1>5. CASE PreparedPlays(p)
  BY <1>5 DEF PreparedPlays, Goto
<1>6. CASE Shared(p)
  BY <1>6, TypeShared
<1> QED
  BY <1>1, <1>2, <1>3, <1>4, <1>5, <1>6 DEF PrepStep

\* The steps of a togedemon connection keep the types.
LEMMA TypePush ==
    ASSUME Typed, NEW h \in Push, PushStep(h)
    PROVE  Typed'
<1> USE DEF Typed, TypeOK, Carries, Proc, account, locals
<1>1. CASE PushTakes(h)
  BY <1>1 DEF PushTakes, Goto
<1>2. CASE PushGoesLive(h)
  BY <1>2, PipeType DEF PushGoesLive, Goto, Swap
<1>3. CASE PushCutOff(h)
  BY <1>3 DEF PushCutOff, Goto
<1>4. CASE PushSuperseded(h)
  BY <1>4 DEF PushSuperseded, Goto
<1>5. CASE PushLetsGo(h)
  BY <1>5 DEF PushLetsGo, Goto
<1>6. CASE PushStops(h)
  BY <1>6, PipeType DEF PushStops, Goto, Swap
<1>7. CASE PushFallsBack(h)
  BY <1>7 DEF PushFallsBack, Begin
<1>8. CASE PushFallsSilent(h)
  BY <1>8 DEF PushFallsSilent, Goto
<1>9. CASE Shared(h)
  BY <1>9, TypeShared
<1> QED
  BY <1>1, <1>2, <1>3, <1>4, <1>5, <1>6, <1>7, <1>8, <1>9 DEF PushStep

\* The steps of an admin request keep the types.
LEMMA TypeAdmin ==
    ASSUME Typed, NEW a \in Admin, AdminStep(a)
    PROVE  Typed'
<1> USE DEF Typed, TypeOK, Carries, Proc, account, locals
<1>1. CASE StartStream(a)
  BY <1>1 DEF StartStream, Begin
<1>2. CASE StartNothing(a)
  BY <1>2 DEF StartNothing, Goto
<1>3. CASE DropTogedemon(a)
  BY <1>3 DEF DropTogedemon, Goto
<1>4. CASE StopStream(a)
  BY <1>4, PipeType DEF StopStream, Goto, Swap
<1>5. CASE Shared(a)
  BY <1>5, TypeShared
<1> QED
  BY <1>1, <1>2, <1>3, <1>4, <1>5 DEF AdminStep

\* Spotify, the cache and new requests keep the types.
LEMMA TypeEnvironment ==
    ASSUME Typed, Environment
    PROVE  Typed'
<1> USE DEF Typed, TypeOK, Carries, Proc, account, locals
<1>1. CASE SpotifyChanges
  BY <1>1, CastType DEF SpotifyChanges
<1>2. CASE SpotifySeeks
  BY <1>2 DEF SpotifySeeks
<1>3. ASSUME NEW t \in Track, CacheDrops(t) PROVE Typed'
  BY <1>3 DEF CacheDrops
<1>4. ASSUME NEW t \in Track, NEW p \in Prep, Prepare(p, t) PROVE Typed'
  BY <1>4 DEF Prepare, Begin, Snapshot
<1>5. ASSUME NEW h \in Push, PushConnects(h) PROVE Typed'
  BY <1>5 DEF PushConnects, Begin
<1>6. ASSUME NEW h \in Push, PushHeaders(h) \/ PushBodyEnds(h) PROVE Typed'
  BY <1>6 DEF PushHeaders, PushBodyEnds, Goto
<1>7. ASSUME NEW a \in Admin, SwitchOn(a) PROVE Typed'
  <2>1. PICK to \in {"on", "idle"} : Goto(a, to)
    BY <1>7 DEF SwitchOn
  <2>2. /\ enabled' = TRUE
        /\ UNCHANGED <<account, current, slot, cancelled, pipe, knows, mon>>
    BY <1>7 DEF SwitchOn
  <2> QED
    BY <2>1, <2>2 DEF Goto
<1>8. ASSUME NEW a \in Admin, SwitchOff(a) PROVE Typed'
  <2>1. PICK to \in {"off", "idle"} : Goto(a, to)
    BY <1>8 DEF SwitchOff
  <2>2. /\ enabled' = FALSE
        /\ UNCHANGED <<account, current, slot, cancelled, pipe, knows, mon>>
    BY <1>8 DEF SwitchOff
  <2> QED
    BY <2>1, <2>2 DEF Goto
<1> QED
  BY <1>1, <1>2, <1>3, <1>4, <1>5, <1>6, <1>7, <1>8, CastType DEF Environment

\* The types hold at the start.
LEMMA TypeInit ==
    ASSUME Init
    PROVE  Typed
<1> USE DEF Init
<1>1. mon \in Locals
  BY DEF Locals
<1>2. pipe \in Pipe /\ knows \subseteq Proc \cup {Page} /\ slot \in Push \cup {Nothing}
  BY PipeType
<1>3. Carries
  BY DEF Carries
<1>4. cast.tracks \subseteq Track /\ spotify \in Snapshot \cup {Nothing}
  BY CastType
<1> QED
  BY <1>1, <1>2, <1>3, <1>4 DEF Typed, TypeOK

\* Every step keeps the types.
LEMMA TypeStep ==
    ASSUME Typed, [Next]_vars
    PROVE  Typed'
<1>1. CASE UNCHANGED vars
  BY <1>1 DEF vars, account, locals, Typed, TypeOK, Carries
<1> QED
  BY <1>1, TypeMonitor, TypePrep, TypePush, TypeAdmin, TypeEnvironment DEF Next

\* Every variable of Playback keeps its type.
THEOREM TypeCorrect == Spec => []TypeOK
<1>1. Init => Typed
  BY TypeInit
<1>2. Typed /\ [Next]_vars => Typed'
  BY TypeStep
<1>3. Typed => TypeOK
  BY DEF Typed
<1> QED
  BY <1>1, <1>2, <1>3, PTL DEF Spec

-----------------------------------------------------------------------------
(* The live slot and the tokens of the connections.                        *)

\* What a connection does besides pumping it does to fall back to the cache, when it
\* has let go of the slot; and nobody has seen the token of one that is about to take it.
PushPath ==
    \A h \in Push :
        /\ pc[h] \in {"maybe", "enabled", "play", "quiet", "stop", "switch"} => via[h] = "switch"
        /\ pc[h] \in {"take", "golive"} => via[h] = "push"
        /\ pc[h] = "take" => h \notin cancelled

Tokens == PushPath /\ TokenMatchesSlot

\* A step that moves no connection and leaves the slot alone.
LEMMA TokensKept ==
    ASSUME Typed, Tokens, UNCHANGED <<slot, cancelled>>,
           \A h \in Push : pc'[h] = pc[h] /\ via'[h] = via[h]
    PROVE  Tokens'
BY NothingAssumption DEF Typed, TypeOK, Tokens, PushPath, TokenMatchesSlot, Connected

\* A step of a task other than a connection, as far as the connections are concerned.
LEMMA TokensOther ==
    ASSUME Typed, Tokens, NEW p \in Proc \ Push, UNCHANGED <<slot, cancelled>>,
           \/ \E to : Goto(p, to)
           \/ \E to, s, v : Begin(p, to, s, v)
    PROVE  Tokens'
<1>1. \A h \in Push : pc'[h] = pc[h] /\ via'[h] = via[h]
  BY DEF Typed, TypeOK, Goto, Begin, Proc
<1> QED
  BY <1>1, TokensKept

\* What all tasks share changes neither the slot nor a token.
LEMMA SharedKeepsSlot ==
    ASSUME NEW p \in Proc, Shared(p)
    PROVE  UNCHANGED <<slot, cancelled>> /\ \E to : Goto(p, to)
<1>1. CASE MaybeLive(p)
  BY <1>1 DEF MaybeLive
<1>2. CASE MaybeEnabled(p)
  BY <1>2 DEF MaybeEnabled
<1>3. CASE PlayTrack(p)
  BY <1>3 DEF PlayTrack
<1>4. CASE QuietLive(p)
  BY <1>4 DEF QuietLive
<1>5. CASE Stop(p)
  BY <1>5 DEF Stop
<1>6. CASE SwitchTrack(p)
  BY <1>6 DEF SwitchTrack
<1>7. CASE Tell(p)
  BY <1>7 DEF Tell
<1>8. CASE TellsNobody(p)
  BY <1>8 DEF TellsNobody
<1>9. CASE Send(p)
  BY <1>9 DEF Send
<1> QED
  BY <1>1, <1>2, <1>3, <1>4, <1>5, <1>6, <1>7, <1>8, <1>9 DEF Shared

\* The monitor moves no token.
LEMMA TokensMonitor ==
    ASSUME Typed, Tokens, MonitorStep
    PROVE  Tokens'
<1>1. Monitor \in Proc \ Push
  BY ProcAssumption DEF Proc
<1>2. CASE PollNothing
  <2>1. CASE mon.track = Nothing
    BY <1>2, <2>1, TokensKept DEF PollNothing, locals
  <2>2. CASE mon.track # Nothing
    BY <1>1, <1>2, <2>2, TokensOther DEF PollNothing
  <2> QED
    BY <2>1, <2>2
<1>3. CASE PollNewTrack
  BY <1>1, <1>3, TokensOther DEF PollNewTrack
<1>4. CASE PollSameTrack
  BY <1>1, <1>4, TokensOther DEF PollSameTrack
<1>5. CASE SameTrack
  BY <1>1, <1>5, TokensOther DEF SameTrack
<1>6. CASE Flip
  BY <1>1, <1>6, TokensOther DEF Flip
<1>7. CASE PeriodicTell
  BY <1>1, <1>7, TokensOther DEF PeriodicTell
<1>8. CASE PeriodicSkip
  BY <1>1, <1>8, TokensOther DEF PeriodicSkip
<1>9. CASE Shared(Monitor)
  BY <1>1, <1>9, SharedKeepsSlot, TokensOther
<1> QED
  BY <1>2, <1>3, <1>4, <1>5, <1>6, <1>7, <1>8, <1>9 DEF MonitorStep

\* A prepare task moves no token.
LEMMA TokensPrep ==
    ASSUME Typed, Tokens, NEW p \in Prep, PrepStep(p)
    PROVE  Tokens'
<1>1. p \in Proc \ Push
  BY ProcAssumption DEF Proc
<1>2. CASE PrepareOk(p)
  BY <1>1, <1>2, TokensOther DEF PrepareOk
<1>3. CASE PrepareFails(p)
  BY <1>1, <1>3, TokensOther DEF PrepareFails
<1>4. CASE PreparedCurrent(p)
  BY <1>1, <1>4, TokensOther DEF PreparedCurrent
<1>5. CASE PreparedOther(p)
  BY <1>1, <1>5, TokensOther DEF PreparedOther
<1>6. CASE PreparedPlays(p)
  BY <1>1, <1>6, TokensOther DEF PreparedPlays
<1>7. CASE Shared(p)
  BY <1>1, <1>7, SharedKeepsSlot, TokensOther
<1> QED
  BY <1>2, <1>3, <1>4, <1>5, <1>6, <1>7 DEF PrepStep

\* The admin's switch empties the slot and cancels its token in one step.
LEMMA TokensAdmin ==
    ASSUME Typed, Tokens, NEW a \in Admin, AdminStep(a)
    PROVE  Tokens'
<1>1. a \in Proc \ Push
  BY ProcAssumption DEF Proc
<1>2. CASE StartStream(a)
  BY <1>1, <1>2, TokensOther DEF StartStream
<1>3. CASE StartNothing(a)
  BY <1>1, <1>3, TokensOther DEF StartNothing
<1>4. CASE DropTogedemon(a)
  <2>1. \A h \in Push : pc'[h] = pc[h] /\ via'[h] = via[h]
    BY <1>1, <1>4 DEF DropTogedemon, Goto, Typed, TypeOK, Proc
  <2>2. slot' = Nothing /\ cancelled' = cancelled \cup ({slot} \cap Push)
    BY <1>4 DEF DropTogedemon
  <2> QED
    BY <2>1, <2>2, NothingAssumption
    DEF Typed, TypeOK, Tokens, PushPath, TokenMatchesSlot, Connected
<1>5. CASE StopStream(a)
  BY <1>1, <1>5, TokensOther DEF StopStream
<1>6. CASE Shared(a)
  BY <1>1, <1>6, SharedKeepsSlot, TokensOther
<1> QED
  BY <1>2, <1>3, <1>4, <1>5, <1>6 DEF AdminStep

\* A connection that falls back to the cache, or tells the pages.
LEMMA TokensShared ==
    ASSUME Typed, Tokens, NEW h \in Push, Shared(h)
    PROVE  Tokens'
<1> USE DEF Typed, TypeOK, Tokens, PushPath, TokenMatchesSlot, Connected, Proc
<1>0. AfterNoPlay("switch") = "quiet" /\ AfterPlay("switch") = "tell"
  BY Zenon DEF AfterNoPlay, AfterPlay
<1>1. CASE MaybeLive(h)
  BY <1>0, <1>1 DEF MaybeLive, Goto
<1>2. CASE MaybeEnabled(h)
  BY <1>0, <1>2 DEF MaybeEnabled, Goto
<1>3. CASE PlayTrack(h)
  BY <1>0, <1>3 DEF PlayTrack, Goto
<1>4. CASE QuietLive(h)
  BY <1>4 DEF QuietLive, Goto
<1>5. CASE Stop(h)
  BY <1>5 DEF Stop, Goto
<1>6. CASE SwitchTrack(h)
  BY <1>6 DEF SwitchTrack, Goto
<1>7. CASE Tell(h)
  BY <1>7 DEF Tell, Goto
<1>8. CASE TellsNobody(h)
  BY <1>8 DEF TellsNobody, Goto
<1>9. CASE Send(h)
  BY <1>9 DEF Send, Goto
<1> QED
  BY <1>1, <1>2, <1>3, <1>4, <1>5, <1>6, <1>7, <1>8, <1>9 DEF Shared

\* A connection takes the slot from the one it cancels, and only the one that is not cancelled clears it.
LEMMA TokensPush ==
    ASSUME Typed, Tokens, NEW h \in Push, PushStep(h)
    PROVE  Tokens'
<1> USE NothingAssumption
        DEF Typed, TypeOK, Tokens, PushPath, TokenMatchesSlot, Connected, Proc
<1>1. CASE PushTakes(h)
  BY <1>1 DEF PushTakes, Goto
<1>2. CASE PushGoesLive(h)
  BY <1>2 DEF PushGoesLive, Goto
<1>3. CASE PushCutOff(h)
  BY <1>3 DEF PushCutOff, Goto
<1>4. CASE PushSuperseded(h)
  BY <1>4 DEF PushSuperseded, Goto
<1>5. CASE PushLetsGo(h)
  BY <1>5 DEF PushLetsGo, Goto
<1>6. CASE PushStops(h)
  BY <1>6 DEF PushStops, Goto
<1>7. CASE PushFallsBack(h)
  BY <1>7 DEF PushFallsBack, Begin
<1>8. CASE PushFallsSilent(h)
  BY <1>8 DEF PushFallsSilent, Goto
<1>9. CASE Shared(h)
  BY <1>9, TokensShared
<1> QED
  BY <1>1, <1>2, <1>3, <1>4, <1>5, <1>6, <1>7, <1>8, <1>9 DEF PushStep

\* A new connection starts with a token of its own that is not cancelled.
LEMMA TokensEnvironment ==
    ASSUME Typed, Tokens, Environment
    PROVE  Tokens'
<1>1. CASE SpotifyChanges
  BY <1>1, TokensKept DEF SpotifyChanges, locals
<1>2. CASE SpotifySeeks
  BY <1>2, TokensKept DEF SpotifySeeks, locals
<1>3. ASSUME NEW t \in Track, CacheDrops(t) PROVE Tokens'
  BY <1>3, TokensKept DEF CacheDrops, locals
<1>4. ASSUME NEW t \in Track, NEW p \in Prep, Prepare(p, t) PROVE Tokens'
  BY <1>4, ProcAssumption, TokensOther DEF Prepare, Proc
<1>5. ASSUME NEW h \in Push, PushConnects(h) PROVE Tokens'
  BY <1>5, NothingAssumption
  DEF PushConnects, Begin, Typed, TypeOK, Tokens, PushPath, TokenMatchesSlot, Connected, Proc
<1>6. ASSUME NEW h \in Push, PushHeaders(h) \/ PushBodyEnds(h) PROVE Tokens'
  BY <1>6, NothingAssumption
  DEF PushHeaders, PushBodyEnds, Goto, Typed, TypeOK, Tokens, PushPath, TokenMatchesSlot, Connected, Proc
<1>7. ASSUME NEW a \in Admin, SwitchOn(a) \/ SwitchOff(a) PROVE Tokens'
  BY <1>7, ProcAssumption, TokensOther DEF SwitchOn, SwitchOff, Proc
<1> QED
  BY <1>1, <1>2, <1>3, <1>4, <1>5, <1>6, <1>7, CastType DEF Environment, Typed, TypeOK

\* Whoever connects, is superseded, is dropped by the admin or goes away, in whatever
\* order: the slot holds the one live connection, and its token alone is not cancelled.
THEOREM TokensAgree == Spec => []TokenMatchesSlot
<1>1. Init => Typed /\ Tokens
  <2> SUFFICES ASSUME Init PROVE Typed /\ Tokens
    OBVIOUS
  <2>1. Tokens
    BY DEF Init, Tokens, PushPath, TokenMatchesSlot, Connected, Proc
  <2> QED
    BY <2>1, TypeInit
<1>2. Typed /\ Tokens /\ [Next]_vars => (Typed /\ Tokens)'
  <2> SUFFICES ASSUME Typed, Tokens, [Next]_vars PROVE Tokens'
    BY TypeStep
  <2>1. CASE UNCHANGED vars
    BY <2>1, TokensKept DEF vars, locals
  <2> QED
    BY <2>1, TokensMonitor, TokensPrep, TokensPush, TokensAdmin, TokensEnvironment DEF Next
<1>3. Tokens => TokenMatchesSlot
  BY DEF Tokens
<1> QED
  BY <1>1, <1>2, <1>3, PTL DEF Spec

-----------------------------------------------------------------------------
(* The monitor by itself: nobody else takes part, so no slot is ever taken *)
(* and every change of the pipe is a step of its own loop.                 *)

\* The file that streams is the track the monitor knows, and that track plays.
Steady == HasTrack => pipe.of = mon.track /\ mon.playing = TRUE

\* The snapshot the monitor works from is of the track it knows, and says of it what
\* the monitor has noted.
Agrees == snap[Monitor].track = mon.track
Follows == Agrees /\ snap[Monitor].playing = mon.playing

\* Where the monitor is in its loop, and what it has yet to set right: between a new
\* track and the end of switch_track the old file may stream on, and between a seek and
\* the comparison of the two playing flags a file may have been started for the new one.
Course ==
    /\ pc[Monitor] \in {"idle", "maybe", "enabled", "play", "quiet", "stop", "switch", "tell",
                        "send", "same", "flip", "periodic"}
    /\ via[Monitor] \in {"none", "switch", "seek", "resume", "late"}
    /\ pc[Monitor] \in {"idle", "tell", "send", "periodic", "same"} => Steady
    /\ pc[Monitor] = "switch" => via[Monitor] = "switch" /\ Follows
    /\ pc[Monitor] = "same" => via[Monitor] = "seek" /\ Agrees
    /\ pc[Monitor] \in {"maybe", "enabled", "play"} =>
          /\ via[Monitor] # "none" /\ Agrees
          /\ via[Monitor] # "seek" => Follows
          /\ via[Monitor] # "switch" => Steady
    /\ pc[Monitor] \in {"enabled", "play"} => snap[Monitor].playing = TRUE
    /\ pc[Monitor] = "flip" =>
          /\ Agrees
          /\ HasTrack => pipe.of = mon.track /\ (mon.playing = TRUE \/ snap[Monitor].playing = TRUE)

\* Nobody else is at work.
Solitude == (\A p \in Proc \ {Monitor} : pc[p] = "idle") /\ slot = Nothing

Alone == cast.tasks = {} => Solitude /\ Course

\* What the monitor has after it has gone on.
LEMMA MonitorGoes ==
    ASSUME Typed, NEW to, Goto(Monitor, to)
    PROVE  /\ pc'[Monitor] = to
           /\ \A p \in Proc \ {Monitor} : pc'[p] = pc[p]
           /\ to \notin {"quiet", "stop", "tell", "periodic", "idle"} => snap'[Monitor] = snap[Monitor]
           /\ to # "idle" => via'[Monitor] = via[Monitor]
           /\ to = "idle" => via'[Monitor] = "none"
BY DEF Goto, Typed, TypeOK, Proc

\* The same when it begins something new.
LEMMA MonitorBegins ==
    ASSUME Typed, NEW to, NEW s, NEW v, Begin(Monitor, to, s, v)
    PROVE  /\ pc'[Monitor] = to
           /\ \A p \in Proc \ {Monitor} : pc'[p] = pc[p]
           /\ snap'[Monitor] = s /\ via'[Monitor] = v
BY DEF Begin, Typed, TypeOK, Proc

\* A pipe that is fed by a file or by nothing, as HasTrack reads it.
LEMMA Feeds ==
    /\ \A t : FilePipe(t).kind = "file" /\ FilePipe(t).of = t
    /\ QuietPipe.kind # "file"
BY DEF FilePipe, QuietPipe

\* Where maybe_play leaves the monitor when it does not play, by what it came for.
LEMMA NotPlayed ==
    /\ AfterNoPlay("switch") = "quiet" /\ AfterNoPlay("seek") = "flip"
    /\ AfterNoPlay("late") = "periodic" /\ AfterNoPlay("resume") = "tell"
BY Zenon DEF AfterNoPlay

\* Where it leaves the monitor when it does.
LEMMA Played ==
    /\ AfterPlay("seek") = "flip"
    /\ \A v : v # "seek" => AfterPlay(v) = "tell"
BY DEF AfterPlay

\* What the course needs of the types.
LEMMA CourseTypes ==
    ASSUME Typed
    PROVE  /\ mon \in Locals /\ Monitor \in Proc
           /\ pc[Monitor] \in {"maybe", "enabled", "play", "switch", "same", "flip"} =>
                 snap[Monitor] \in Snapshot
BY DEF Typed, TypeOK, Carries, Proc

\* A poll that finds nothing, a new track, or the same one.
LEMMA CoursePoll ==
    ASSUME Typed, Course, PollNothing \/ PollNewTrack \/ PollSameTrack
    PROVE  Course'
<1>1. CASE PollNothing /\ mon.track = Nothing
  BY <1>1 DEF PollNothing, Course, Steady, Agrees, Follows, HasTrack, locals
<1>2. CASE PollNothing /\ mon.track # Nothing
  <2>1. Goto(Monitor, "quiet") /\ pc[Monitor] = "idle"
    BY <1>2 DEF PollNothing
  <2>2. pc'[Monitor] = "quiet" /\ via'[Monitor] = via[Monitor]
    BY <2>1, MonitorGoes
  <2> QED
    BY <2>2 DEF Course
<1>3. CASE PollNewTrack
  <2>1. Begin(Monitor, "switch", spotify, "switch")
    BY <1>3 DEF PollNewTrack
  <2>2. pc'[Monitor] = "switch" /\ via'[Monitor] = "switch" /\ snap'[Monitor] = spotify
    BY <2>1, MonitorBegins
  <2>3. mon'.track = spotify.track /\ mon'.playing = spotify.playing
    BY <1>3, CourseTypes DEF PollNewTrack, Locals
  <2> QED
    BY <2>2, <2>3 DEF Course, Follows, Agrees
<1>4. CASE PollSameTrack
  <2>1. Begin(Monitor, "same", spotify, "seek") /\ pc[Monitor] = "idle"
    BY <1>4 DEF PollSameTrack
  <2>2. pc'[Monitor] = "same" /\ via'[Monitor] = "seek" /\ snap'[Monitor] = spotify
    BY <2>1, MonitorBegins
  <2>3. mon'.track = mon.track /\ mon'.playing = mon.playing /\ pipe' = pipe
    BY <1>4, CourseTypes DEF PollSameTrack, Locals
  <2>4. spotify.track = mon.track
    BY <1>4 DEF PollSameTrack
  <2>5. Steady'
    BY <2>1, <2>3 DEF Course, Steady, HasTrack
  <2> QED
    BY <2>2, <2>3, <2>4, <2>5 DEF Course, Agrees
<1> QED
  BY <1>1, <1>2, <1>3, <1>4

\* A poll of the same track looks the path up.
LEMMA CourseSame ==
    ASSUME Typed, Course, SameTrack
    PROVE  Course'
<1>1. pc[Monitor] = "same" /\ via[Monitor] = "seek" /\ Agrees /\ Steady
  BY DEF SameTrack, Course
<1>2. PICK to \in {"maybe", "flip"} : Goto(Monitor, to)
  BY DEF SameTrack
<1>3. /\ pc'[Monitor] = to /\ via'[Monitor] = "seek"
      /\ snap'[Monitor] = snap[Monitor]
  BY <1>1, <1>2, MonitorGoes
<1>4. mon'.track = mon.track /\ mon'.playing = mon.playing /\ pipe' = pipe
  BY CourseTypes DEF SameTrack, Locals
<1>5. Agrees' /\ Steady'
  BY <1>1, <1>3, <1>4 DEF Agrees, Steady, HasTrack
<1> QED
  BY <1>3, <1>5 DEF Course, Steady

\* The two playing flags are compared: the pause stops the file, and the resume or the
\* file that became available late is looked at again.
LEMMA CourseFlip ==
    ASSUME Typed, Course, Flip
    PROVE  Course'
<1> DEFINE playing == snap[Monitor].playing
           flipped == playing # mon.playing
           late == ~flipped /\ ~HasTrack /\ mon.path
<1>1. /\ pc[Monitor] = "flip" /\ Agrees
      /\ HasTrack => pipe.of = mon.track /\ (mon.playing = TRUE \/ playing = TRUE)
  BY DEF Flip, Course
<1>2. mon'.track = mon.track /\ mon'.playing = playing /\ pipe' = pipe
  <2>1. PICK c : mon' = [mon EXCEPT !.playing = playing, !.path = FALSE, !.changed = c]
    BY DEF Flip
  <2>2. pipe' = pipe
    BY DEF Flip
  <2> HIDE DEF playing
  <2> QED
    BY <2>1, <2>2, CourseTypes DEF Locals
<1>3. playing \in BOOLEAN /\ mon.playing \in BOOLEAN /\ via[Monitor] \in {"none", "switch", "seek", "resume", "late"}
  <2>1. snap[Monitor] \in Snapshot /\ mon.playing \in BOOLEAN
    BY <1>1, CourseTypes DEF Locals
  <2> QED
    BY <2>1, SnapshotType DEF Course
<1>4. CASE flipped /\ playing /\ Begin(Monitor, "maybe", snap[Monitor], "resume")
  <2>1. pc'[Monitor] = "maybe" /\ via'[Monitor] = "resume" /\ snap'[Monitor] = snap[Monitor]
    BY <1>4, MonitorBegins
  <2>2. Follows'
    BY <1>1, <1>2, <2>1 DEF Follows, Agrees
  <2>3. mon'.playing = TRUE
    BY <1>2, <1>3, <1>4
  <2>4. Steady'
    BY <1>1, <1>2, <2>3 DEF Steady, HasTrack
  <2> QED
    BY <2>1, <2>2, <2>4 DEF Course, Follows
<1>5. CASE flipped /\ playing /\ Goto(Monitor, "tell")
  <2>1. pc'[Monitor] = "tell" /\ via'[Monitor] = via[Monitor]
    BY <1>5, MonitorGoes
  <2>2. mon'.playing = TRUE
    BY <1>2, <1>3, <1>5
  <2>3. Steady'
    BY <1>1, <1>2, <2>2 DEF Steady, HasTrack
  <2> QED
    BY <1>3, <2>1, <2>3 DEF Course
<1>6. CASE flipped /\ ~playing /\ Goto(Monitor, "quiet")
  <2>1. pc'[Monitor] = "quiet" /\ via'[Monitor] = via[Monitor]
    BY <1>6, MonitorGoes
  <2> QED
    BY <1>3, <2>1 DEF Course
<1>7. CASE late /\ Begin(Monitor, "maybe", snap[Monitor], "late")
  <2>1. pc'[Monitor] = "maybe" /\ via'[Monitor] = "late" /\ snap'[Monitor] = snap[Monitor]
    BY <1>7, MonitorBegins
  <2>2. Follows'
    BY <1>1, <1>2, <2>1 DEF Follows, Agrees
  <2>3. Steady'
    BY <1>2, <1>7 DEF Steady, HasTrack
  <2> QED
    BY <2>1, <2>2, <2>3 DEF Course, Follows
<1>8. CASE ~flipped /\ ~late /\ Goto(Monitor, "periodic")
  <2>1. pc'[Monitor] = "periodic" /\ via'[Monitor] = via[Monitor]
    BY <1>8, MonitorGoes
  <2>2. playing = mon.playing
    BY <1>8
  <2>3. Steady'
    BY <1>1, <1>2, <2>2 DEF Steady, HasTrack
  <2> QED
    BY <1>3, <2>1, <2>3 DEF Course
<1> QED
  BY <1>4, <1>5, <1>6, <1>7, <1>8 DEF Flip

\* The broadcast of a change or of the progress.
LEMMA CoursePeriodic ==
    ASSUME Typed, Course, PeriodicTell \/ PeriodicSkip
    PROVE  Course'
<1>1. pc[Monitor] = "periodic" /\ Steady /\ via[Monitor] \in {"none", "switch", "seek", "resume", "late"}
  BY DEF PeriodicTell, PeriodicSkip, Course
<1>2. PICK to \in {"tell", "idle"} : Goto(Monitor, to)
  BY DEF PeriodicTell, PeriodicSkip
<1>3. pc'[Monitor] = to /\ via'[Monitor] \in {via[Monitor], "none"}
  BY <1>2, MonitorGoes
<1>4. mon'.track = mon.track /\ mon'.playing = mon.playing /\ pipe' = pipe
  BY CourseTypes DEF PeriodicTell, PeriodicSkip, Locals
<1>5. Steady'
  BY <1>1, <1>4 DEF Steady, HasTrack
<1> QED
  BY <1>1, <1>3, <1>5 DEF Course

\* maybe_play looks for a togedemon and for the switch of the player.
LEMMA CourseMaybe ==
    ASSUME Typed, Course, MaybeLive(Monitor) \/ MaybeEnabled(Monitor)
    PROVE  Course'
<1>1. /\ pc[Monitor] \in {"maybe", "enabled"}
      /\ via[Monitor] \in {"switch", "seek", "resume", "late"} /\ Agrees
      /\ via[Monitor] # "seek" => Follows
      /\ via[Monitor] # "switch" => Steady
  BY DEF MaybeLive, MaybeEnabled, Course
<1>2. mon' = mon /\ pipe' = pipe
  BY DEF MaybeLive, MaybeEnabled
<1>3. snap[Monitor].playing \in BOOLEAN
  BY <1>1, CourseTypes, SnapshotType
<1>4. CASE /\ Goto(Monitor, IF pc[Monitor] = "maybe" THEN "enabled" ELSE "play")
           /\ snap[Monitor].playing = TRUE
  <2>1. /\ pc'[Monitor] \in {"enabled", "play"} /\ via'[Monitor] = via[Monitor]
        /\ snap'[Monitor] = snap[Monitor]
    BY <1>4, MonitorGoes
  <2>2. Agrees' /\ (Follows => Follows') /\ (Steady => Steady')
    BY <1>1, <1>2, <2>1 DEF Agrees, Follows, Steady, HasTrack
  <2> QED
    BY <1>1, <1>4, <2>1, <2>2 DEF Course
<1>5. CASE Goto(Monitor, AfterNoPlay(via[Monitor]))
  <2>1. CASE via[Monitor] = "switch"
    <3>1. pc'[Monitor] = "quiet" /\ via'[Monitor] = "switch"
      BY <1>5, <2>1, NotPlayed, MonitorGoes
    <3> QED
      BY <3>1 DEF Course
  <2>2. CASE via[Monitor] = "seek"
    <3>1. pc'[Monitor] = "flip" /\ via'[Monitor] = "seek" /\ snap'[Monitor] = snap[Monitor]
      BY <1>5, <2>2, NotPlayed, MonitorGoes
    <3>2. Agrees' /\ Steady'
      BY <1>1, <1>2, <2>2, <3>1 DEF Agrees, Steady, HasTrack
    <3> QED
      BY <3>1, <3>2 DEF Course, Steady
  <2>3. CASE via[Monitor] \in {"resume", "late"}
    <3>1. AfterNoPlay(via[Monitor]) \in {"tell", "periodic"}
      BY <2>3, NotPlayed
    <3>2. pc'[Monitor] \in {"tell", "periodic"} /\ via'[Monitor] = via[Monitor]
      BY <1>5, <3>1, MonitorGoes
    <3>3. Steady'
      BY <1>1, <1>2, <2>3 DEF Steady, HasTrack
    <3> QED
      BY <2>3, <3>2, <3>3 DEF Course
  <2> QED
    BY <1>1, <2>1, <2>2, <2>3
<1> QED
  BY <1>3, <1>4, <1>5 DEF MaybeLive, MaybeEnabled, Course

\* play_track starts the file of the snapshot, which is of a track that plays.
LEMMA CoursePlay ==
    ASSUME Typed, Course, PlayTrack(Monitor)
    PROVE  Course'
<1>1. /\ via[Monitor] \in {"switch", "seek", "resume", "late"} /\ Agrees
      /\ via[Monitor] # "seek" => Follows
      /\ snap[Monitor].playing = TRUE
  BY DEF PlayTrack, Course
<1>2. mon' = mon /\ pipe'.of = mon.track
  BY <1>1, Feeds DEF PlayTrack, Swap, Agrees
<1>3. CASE via[Monitor] = "seek"
  <2>1. Goto(Monitor, "flip")
    BY <1>3, Played DEF PlayTrack
  <2>2. pc'[Monitor] = "flip" /\ via'[Monitor] = "seek" /\ snap'[Monitor] = snap[Monitor]
    BY <1>3, <2>1, MonitorGoes
  <2> QED
    BY <1>1, <1>2, <2>2 DEF Course, Agrees
<1>4. CASE via[Monitor] # "seek"
  <2>1. Goto(Monitor, "tell")
    BY <1>4, Played DEF PlayTrack
  <2>2. pc'[Monitor] = "tell" /\ via'[Monitor] = via[Monitor]
    BY <2>1, MonitorGoes
  <2>3. Steady'
    BY <1>1, <1>2, <1>4 DEF Steady, Follows
  <2> QED
    BY <1>1, <2>2, <2>3 DEF Course
<1> QED
  BY <1>3, <1>4

\* While no togedemon is live, the stream is stopped for good before anything is told.
LEMMA CourseQuiet ==
    ASSUME Typed, Course, slot = Nothing, QuietLive(Monitor) \/ Stop(Monitor)
    PROVE  Course'
<1>1. via[Monitor] \in {"none", "switch", "seek", "resume", "late"}
  BY DEF Course
<1>2. CASE QuietLive(Monitor)
  <2>1. pc'[Monitor] = "stop" /\ via'[Monitor] = via[Monitor]
    BY <1>2, MonitorGoes DEF QuietLive
  <2> QED
    BY <1>1, <2>1 DEF Course
<1>3. CASE Stop(Monitor)
  <2>1. pc'[Monitor] = "tell" /\ via'[Monitor] = via[Monitor]
    BY <1>3, MonitorGoes DEF Stop
  <2>2. Steady'
    BY <1>3, Feeds DEF Stop, Swap, Steady, HasTrack
  <2> QED
    BY <1>1, <2>1, <2>2 DEF Course
<1> QED
  BY <1>2, <1>3

\* switch_track looks the track up.
LEMMA CourseSwitch ==
    ASSUME Typed, Course, SwitchTrack(Monitor)
    PROVE  Course'
<1>1. via[Monitor] = "switch" /\ Follows /\ mon' = mon
  BY DEF SwitchTrack, Course
<1>2. PICK to \in {"maybe", "quiet"} : Goto(Monitor, to)
  BY DEF SwitchTrack
<1>3. /\ pc'[Monitor] = to /\ via'[Monitor] = "switch"
      /\ to = "maybe" => snap'[Monitor] = snap[Monitor]
  BY <1>1, <1>2, MonitorGoes
<1>4. to = "maybe" => Follows'
  BY <1>1, <1>3 DEF Follows, Agrees
<1> QED
  BY <1>3, <1>4 DEF Course, Follows

\* A broadcast.
LEMMA CourseTell ==
    ASSUME Typed, Course, Tell(Monitor) \/ TellsNobody(Monitor) \/ Send(Monitor)
    PROVE  Course'
<1>1. Steady /\ via[Monitor] \in {"none", "switch", "seek", "resume", "late"}
  BY DEF Course, Tell, TellsNobody, Send
<1>2. PICK to \in {"send", "idle"} : Goto(Monitor, to)
  BY <1>1 DEF Tell, TellsNobody, Send
<1>3. pc'[Monitor] = to /\ via'[Monitor] \in {via[Monitor], "none"}
  BY <1>2, MonitorGoes
<1>4. mon' = mon /\ pipe' = pipe
  BY DEF Tell, TellsNobody, Send
<1>5. Steady'
  BY <1>1, <1>4 DEF Steady, HasTrack
<1> QED
  BY <1>1, <1>3, <1>5 DEF Course

\* A step that moves neither the monitor nor the stream.
LEMMA CourseKept ==
    ASSUME Course, UNCHANGED <<pipe, locals, mon>>
    PROVE  Course'
<1>1. pc' = pc /\ snap' = snap /\ via' = via /\ mon' = mon /\ pipe' = pipe
  BY DEF locals
<1> QED
  BY <1>1 DEF Course, Steady, Agrees, Follows, HasTrack

\* Every step of the monitor keeps its course.
LEMMA CourseStep ==
    ASSUME Typed, Course, slot = Nothing, MonitorStep
    PROVE  Course'
BY CoursePoll, CourseSame, CourseFlip, CoursePeriodic, CourseMaybe, CoursePlay, CourseQuiet,
   CourseSwitch, CourseTell
DEF MonitorStep, Shared

\* The monitor takes no slot and wakes nobody.
LEMMA SolitudeStep ==
    ASSUME Typed, Solitude, MonitorStep
    PROVE  Solitude'
<1>1. CASE UNCHANGED locals /\ slot' = slot
  BY <1>1 DEF Solitude, locals
<1>2. ASSUME slot' = slot, NEW to, Goto(Monitor, to) PROVE Solitude'
  BY <1>2, MonitorGoes DEF Solitude
<1>3. ASSUME slot' = slot, NEW to, NEW s, NEW v, Begin(Monitor, to, s, v) PROVE Solitude'
  BY <1>3, MonitorBegins DEF Solitude
<1>4. CASE PollNothing
  BY <1>1, <1>2, <1>4 DEF PollNothing
<1>5. CASE PollNewTrack
  BY <1>3, <1>5 DEF PollNewTrack
<1>6. CASE PollSameTrack
  BY <1>3, <1>6 DEF PollSameTrack
<1>7. CASE SameTrack
  BY <1>2, <1>7 DEF SameTrack
<1>8. CASE Flip
  BY <1>2, <1>3, <1>8 DEF Flip
<1>9. CASE PeriodicTell \/ PeriodicSkip
  BY <1>2, <1>9 DEF PeriodicTell, PeriodicSkip
<1>10. CASE Shared(Monitor)
  <2>1. Monitor \in Proc
    BY DEF Proc
  <2> QED
    BY <1>2, <1>10, <2>1, SharedKeepsSlot
<1> QED
  BY <1>4, <1>5, <1>6, <1>7, <1>8, <1>9, <1>10 DEF MonitorStep

\* A task that is idle does nothing unless it is asked to.
LEMMA IdleStays ==
    ASSUME NEW p, pc[p] = "idle"
    PROVE  ~PrepStep(p) /\ ~PushStep(p) /\ ~AdminStep(p)
<1>1. ~Shared(p)
  BY DEF Shared, MaybeLive, MaybeEnabled, PlayTrack, QuietLive, Stop, SwitchTrack, Tell,
         TellsNobody, Send
<1>2. ~PrepStep(p)
  BY <1>1 DEF PrepStep, PrepareOk, PrepareFails, PreparedCurrent, PreparedOther, PreparedPlays
<1>3. ~PushStep(p)
  BY <1>1 DEF PushStep, PushTakes, PushGoesLive, PushCutOff, PushSuperseded, PushLetsGo,
              PushStops, PushFallsBack, PushFallsSilent
<1>4. ~AdminStep(p)
  BY <1>1 DEF AdminStep, StartStream, StartNothing, DropTogedemon, StopStream
<1> QED
  BY <1>2, <1>3, <1>4

\* Who takes part stays as it was.
LEMMA CastStays ==
    ASSUME cast.tasks = {}, Solitude, [Next]_vars
    PROVE  \/ MonitorStep
           \/ UNCHANGED <<slot, pipe, locals, mon>>
<1>1. ASSUME NEW p \in Prep \cup Push \cup Admin PROVE pc[p] = "idle"
  BY <1>1, ProcAssumption DEF Solitude, Proc
<1>2. CASE Environment
  <2>1. \/ SpotifyChanges \/ SpotifySeeks
        \/ \E t \in cast.tracks : CacheDrops(t)
    BY <1>2 DEF Environment
  <2> QED
    BY <2>1 DEF SpotifyChanges, SpotifySeeks, CacheDrops
<1>3. CASE UNCHANGED vars
  BY <1>3 DEF vars
<1> QED
  BY <1>1, <1>2, <1>3, IdleStays DEF Next

\* cast is a parameter of the behaviour.
LEMMA CastIsFixed ==
    ASSUME [Next]_vars
    PROVE  cast' = cast
<1> USE DEF account
<1>1. ASSUME NEW p, Shared(p) PROVE cast' = cast
  BY <1>1 DEF Shared, MaybeLive, MaybeEnabled, PlayTrack, QuietLive, Stop, SwitchTrack, Tell,
              TellsNobody, Send
<1>2. CASE MonitorStep
  BY <1>1, <1>2 DEF MonitorStep, PollNothing, PollNewTrack, PollSameTrack, SameTrack, Flip,
                    PeriodicTell, PeriodicSkip
<1>3. ASSUME NEW p \in Prep, PrepStep(p) PROVE cast' = cast
  BY <1>1, <1>3 DEF PrepStep, PrepareOk, PrepareFails, PreparedCurrent, PreparedOther, PreparedPlays
<1>4. ASSUME NEW h \in Push, PushStep(h) PROVE cast' = cast
  BY <1>1, <1>4 DEF PushStep, PushTakes, PushGoesLive, PushCutOff, PushSuperseded, PushLetsGo,
                    PushStops, PushFallsBack, PushFallsSilent
<1>5. ASSUME NEW a \in Admin, AdminStep(a) PROVE cast' = cast
  BY <1>1, <1>5 DEF AdminStep, StartStream, StartNothing, DropTogedemon, StopStream
<1>6. CASE Environment
  BY <1>6 DEF Environment, SpotifyChanges, SpotifySeeks, CacheDrops, Prepare, PushConnects,
              PushHeaders, PushBodyEnds, SwitchOn, SwitchOff
<1>7. CASE UNCHANGED vars
  BY <1>7 DEF vars
<1> QED
  BY <1>2, <1>3, <1>4, <1>5, <1>6, <1>7 DEF Next

\* workers.rs:32: as long as nobody but the monitor changes the stream, whatever Spotify
\* and the cache do in between, a file that streams when all is settled is the track
\* Spotify plays.
THEOREM AloneInStep == Spec => []InStepAlone
<1>1. Init => Typed /\ Alone
  <2> SUFFICES ASSUME Init PROVE Typed /\ Alone
    OBVIOUS
  <2>1. Monitor \in Proc
    BY DEF Proc
  <2>2. Course
    BY <2>1, Feeds DEF Init, Course, Steady, HasTrack
  <2>3. Solitude
    BY DEF Init, Solitude
  <2> QED
    BY <2>2, <2>3, TypeInit DEF Alone
<1>2. Typed /\ Alone /\ [Next]_vars => (Typed /\ Alone)'
  <2> SUFFICES ASSUME Typed, Alone, [Next]_vars PROVE Alone'
    BY TypeStep
  <2> SUFFICES ASSUME cast.tasks = {} PROVE Solitude' /\ Course'
    BY CastIsFixed DEF Alone
  <2>1. Solitude /\ Course
    BY DEF Alone
  <2>2. CASE MonitorStep
    BY <2>1, <2>2, CourseStep, SolitudeStep DEF Solitude
  <2>3. CASE UNCHANGED <<slot, pipe, locals, mon>>
    BY <2>1, <2>3, CourseKept DEF Solitude, locals
  <2> QED
    BY <2>1, <2>2, <2>3, CastStays
<1>3. Typed /\ Alone => InStepAlone
  <2> SUFFICES ASSUME Typed, Alone, cast.tasks = {}, Settled, HasTrack
               PROVE  current # Nothing /\ current.playing /\ current.track = pipe.of
    BY DEF InStepAlone, InStep
  <2>1. pc[Monitor] = "idle" /\ Steady
    BY CourseTypes DEF Alone, Course, Settled
  <2>2. pipe.of = mon.track /\ mon.playing = TRUE
    BY <2>1 DEF Steady
  <2>3. pipe.of \in Track
    BY DEF Typed, TypeOK, Pipe, HasTrack
  <2>4. spotify # Nothing
    BY <2>2, <2>3, NothingAssumption DEF Settled
  <2> QED
    BY <2>2, <2>4 DEF Settled
<1> QED
  BY <1>1, <1>2, <1>3, PTL DEF Spec
=============================================================================
