----------------------------- MODULE ClientsProofs -----------------------------
(***************************************************************************)
(* Theorems of module MCClients: of the announcements of Updates with the  *)
(* page of PlayerPage or the togedemon of Togedemon, for channels of any   *)
(* size and any number of changes, clicks and faults.                      *)
(***************************************************************************)
EXTENDS MCClients, SequenceTheorems, TLAPS

-----------------------------------------------------------------------------
(* The inductive invariants.                                               *)

\* The types of what the server keeps.
ServerTyped ==
    /\ current \in {"none", "paused", "playing"} /\ gen \in Nat
    /\ hasTrack \in BOOLEAN /\ live \in BOOLEAN
    /\ link \in {"down", "inserted", "snapshot", "up"} /\ snapshot \in Frame
    /\ mailbox \in Seq(Frame) /\ Len(mailbox) <= Mailbox
    /\ feed \in {"down", "computed", "up"} /\ initial \in Seq(BOOLEAN)
    /\ events \in Seq(BOOLEAN) /\ Len(events) <= Channel
    /\ changes \in [{"music", "click", "fault"} -> Nat]

LEMMA TypeParts == TypeOK <=> ServerTyped /\ PageTypeOK /\ DemonTypeOK
BY DEF TypeOK, ServerTyped

\* Nothing is on its way from a page whose socket is not open.
Closed == ~opened => frames = <<>> /\ ~tally

\* The frames that are on their way to the page tell no generation that is yet to come.
Announced ==
    /\ \A i \in 1..Len(mailbox) : mailbox[i].gen <= gen
    /\ snapshot.gen <= gen

\* Nor does the frame that the page has kept, if it is from this run of the server.
TrackNoted == track.track /\ ~old => track.gen <= gen

\* Nor the generation it has noted; and the pipe that it hears, or has heard the end of, is
\* placed by that generation.
AudioNoted ==
    /\ ~foreign => connected <= gen
    /\ request = "on" => pipe <= gen
    /\ request = "none" => connected = 0
    /\ ~foreign /\ ~cut /\ connected # 0 =>
          /\ request = "on" => connected <= pipe
          /\ request = "over" => connected < gen

Noted == TrackNoted /\ AudioNoted

-----------------------------------------------------------------------------
(* Steps.                                                                  *)

\* The server's own steps; the page's; the togedemon's.
ServerMoves == (MonitorSees \/ ServerStep \/ Pushes) /\ UNCHANGED page
DemonMoves == DemonStep /\ UNCHANGED page

LEMMA Steps ==
    [Next]_all => \/ ServerMoves /\ UNCHANGED demon
                  \/ DemonMoves
                  \/ PageStep /\ UNCHANGED demon
                  \/ Restart
                  \/ UNCHANGED <<vars, page, demon>>
BY DEF Next, PageNext, FeedNext, ServerMoves, DemonMoves, all

-----------------------------------------------------------------------------
(* The channels.                                                           *)

LEMMA NoFrameTyped == NoFrame \in Frame /\ NoFrame.gen = 0 /\ ~NoFrame.track
BY DEF NoFrame, Frame

LEMMA FrameOfTyped ==
    ASSUME NEW c, NEW g \in Nat, NEW h \in BOOLEAN, NEW l \in BOOLEAN
    PROVE  /\ FrameOf(c, g, h, l) \in Frame /\ FrameOf(c, g, h, l).gen = g
           /\ FrameOf(c, g, h, l).isPlaying \in BOOLEAN
BY DEF FrameOf, Frame

\* A frame that is told to the page is the last in its channel, or it is lost.
LEMMA QueuedFrame ==
    ASSUME ServerTyped, NEW f \in Frame
    PROVE  /\ Queued(f) \in Seq(Frame) /\ Len(Queued(f)) <= Mailbox
           /\ \A i \in 1..Len(Queued(f)) :
                 Queued(f)[i] = f \/ (i \in 1..Len(mailbox) /\ Queued(f)[i] = mailbox[i])
<1>1. mailbox \in Seq(Frame) /\ Len(mailbox) \in Nat /\ Len(mailbox) <= Mailbox /\ Mailbox \in Nat
  BY LenProperties, BoundsAssumption DEF ServerTyped
<1>2. CASE link # "down" /\ Len(mailbox) < Mailbox
  <2>1. Queued(f) = Append(mailbox, f)
    BY <1>2 DEF Queued
  <2>2. /\ Append(mailbox, f) \in Seq(Frame) /\ Len(Append(mailbox, f)) = Len(mailbox) + 1
        /\ \A i \in 1..Len(mailbox) : Append(mailbox, f)[i] = mailbox[i]
        /\ Append(mailbox, f)[Len(mailbox) + 1] = f
    BY <1>1, AppendProperties
  <2>3. \A i \in 1..Len(mailbox) + 1 : i \in 1..Len(mailbox) \/ i = Len(mailbox) + 1
    BY <1>1
  <2> QED
    BY <1>1, <1>2, <2>1, <2>2, <2>3
<1>3. CASE ~(link # "down" /\ Len(mailbox) < Mailbox)
  BY <1>1, <1>3 DEF Queued
<1> QED
  BY <1>2, <1>3

\* The subscription of the feed keeps its latest events.
LEMMA PublishedEvent ==
    ASSUME ServerTyped, NEW e \in BOOLEAN
    PROVE  Published(e) \in Seq(BOOLEAN) /\ Len(Published(e)) <= Channel
<1>1. events \in Seq(BOOLEAN) /\ Len(events) \in Nat /\ Len(events) <= Channel
      /\ Channel \in Nat \ {0}
  BY LenProperties, BoundsAssumption DEF ServerTyped
<1>2. CASE feed # "up"
  BY <1>1, <1>2 DEF Published
<1>3. CASE feed = "up" /\ Len(events) < Channel
  BY <1>1, <1>3, AppendProperties DEF Published
<1>4. CASE feed = "up" /\ ~(Len(events) < Channel)
  <2>1. events # <<>>
    BY <1>1, <1>4, EmptySeq
  <2>2. Tail(events) \in Seq(BOOLEAN) /\ Len(Tail(events)) = Len(events) - 1
    BY <1>1, <2>1, HeadTailProperties
  <2>3. Append(Tail(events), e) \in Seq(BOOLEAN) /\ Len(Append(Tail(events), e)) = Len(events)
    BY <1>1, <2>2, AppendProperties
  <2> QED
    BY <1>1, <1>4, <2>3 DEF Published
<1> QED
  BY <1>2, <1>3, <1>4

\* What a step tells the clients when the generation is g after it.
Tells(g) ==
    /\ mailbox' = mailbox \/ \E f \in Frame : f.gen <= g /\ mailbox' = Queued(f)
    /\ events' \in Seq(BOOLEAN) /\ Len(events') <= Channel

LEMMA BroadcastTells ==
    ASSUME ServerTyped, NEW c, NEW g \in Nat, NEW h \in BOOLEAN, NEW l \in BOOLEAN,
           Broadcast(FrameOf(c, g, h, l))
    PROVE  Tells(g)
<1>1. PICK f \in Frame : f = FrameOf(c, g, h, l) /\ f.gen = g /\ f.isPlaying \in BOOLEAN
  BY FrameOfTyped
<1>2. mailbox' = Queued(f) /\ events' = Published(f.isPlaying)
  BY <1>1 DEF Broadcast
<1>3. events' \in Seq(BOOLEAN) /\ Len(events') <= Channel
  BY <1>1, <1>2, PublishedEvent
<1> QED
  BY <1>1, <1>2, <1>3 DEF Tells

LEMMA SilenceTells ==
    ASSUME ServerTyped, UNCHANGED <<mailbox, events>>, NEW g PROVE Tells(g)
BY DEF Tells, ServerTyped

LEMMA TellsTyped ==
    ASSUME ServerTyped, NEW g \in Nat, Tells(g)
    PROVE  /\ mailbox' \in Seq(Frame) /\ Len(mailbox') <= Mailbox
           /\ events' \in Seq(BOOLEAN) /\ Len(events') <= Channel
<1>1. mailbox \in Seq(Frame) /\ Len(mailbox) <= Mailbox
  BY DEF ServerTyped
<1>2. mailbox' = mailbox \/ \E f \in Frame : mailbox' = Queued(f)
  BY DEF Tells
<1>3. mailbox' \in Seq(Frame) /\ Len(mailbox') <= Mailbox
  BY <1>1, <1>2, QueuedFrame
<1> QED
  BY <1>3 DEF Tells

LEMMA TellsAnnounced ==
    ASSUME ServerTyped, Announced, NEW g \in Nat, gen <= g, Tells(g)
    PROVE  \A i \in 1..Len(mailbox') : mailbox'[i].gen <= g
<1>1. gen \in Nat /\ mailbox \in Seq(Frame) /\ \A i \in 1..Len(mailbox) : mailbox[i].gen <= gen
  BY DEF ServerTyped, Announced
<1>2. \A i \in 1..Len(mailbox) : mailbox[i].gen \in Nat
  <2> SUFFICES ASSUME NEW i \in 1..Len(mailbox) PROVE mailbox[i].gen \in Nat
    OBVIOUS
  <2>1. mailbox[i] \in Frame
    BY <1>1, ElementOfSeq
  <2> QED
    BY <2>1 DEF Frame
<1>3. \A i \in 1..Len(mailbox) : mailbox[i].gen <= g
  BY <1>1, <1>2
<1>4. CASE mailbox' = mailbox
  BY <1>3, <1>4
<1>5. ASSUME NEW f \in Frame, f.gen <= g, mailbox' = Queued(f)
      PROVE  \A i \in 1..Len(mailbox') : mailbox'[i].gen <= g
  <2>1. \A i \in 1..Len(Queued(f)) :
            Queued(f)[i] = f \/ (i \in 1..Len(mailbox) /\ Queued(f)[i] = mailbox[i])
    BY QueuedFrame
  <2>2. \A i \in 1..Len(Queued(f)) : Queued(f)[i].gen <= g
    BY <1>3, <1>5, <2>1
  <2> QED
    BY <1>5, <2>2
<1> QED
  BY <1>4, <1>5 DEF Tells

-----------------------------------------------------------------------------
(* The stream in the steps of all.                                         *)

\* The generation only grows, and the clients hear of none that is yet to come.
Grows ==
    /\ current' \in {"none", "paused", "playing"}
    /\ hasTrack' \in BOOLEAN /\ live' \in BOOLEAN
    /\ gen' \in Nat /\ gen <= gen' /\ Tells(gen')

LEMMA BecomeGrows ==
    ASSUME ServerTyped, NEW c \in {"none", "paused", "playing"}, NEW g \in Nat, gen <= g,
           NEW h \in BOOLEAN, NEW l \in BOOLEAN, Become(c, g, h, l)
    PROVE  Grows
BY BroadcastTells DEF Become, Grows

LEMMA ReactGrows ==
    ASSUME ServerTyped, NEW c \in {"none", "paused", "playing"}, NEW cached \in BOOLEAN,
           React(c, cached)
    PROVE  Grows
<1>1. CASE live
  <2>1. Become(c, gen, hasTrack, live)
    BY <1>1 DEF React
  <2>2. gen \in Nat /\ gen <= gen /\ hasTrack \in BOOLEAN /\ live \in BOOLEAN
    BY DEF ServerTyped
  <2> QED
    BY <2>1, <2>2, BecomeGrows
<1>2. CASE ~live
  <2>1. Become(c, gen + 1, c = "playing" /\ cached, FALSE)
    BY <1>2 DEF React
  <2>2. gen + 1 \in Nat /\ gen <= gen + 1 /\ (c = "playing" /\ cached) \in BOOLEAN
    BY DEF ServerTyped
  <2> QED
    BY <2>1, <2>2, BecomeGrows
<1> QED
  BY <1>1, <1>2

LEMMA NowTells == ASSUME ServerTyped, Broadcast(Now) PROVE Tells(gen)
BY BroadcastTells DEF Now, ServerTyped

LEMMA MonitorGrows == ASSUME ServerTyped, MonitorSees PROVE Grows
<1>0. /\ current \in {"none", "paused", "playing"} /\ gen \in Nat /\ gen <= gen
      /\ hasTrack \in BOOLEAN /\ live \in BOOLEAN
  BY DEF ServerTyped
<1>1. CASE NothingPlays
  BY <1>1, ReactGrows DEF NothingPlays
<1>2. ASSUME NEW cached \in BOOLEAN, NEW c \in {"paused", "playing"}, NextTrack(c, cached)
      PROVE  Grows
  BY <1>2, ReactGrows DEF NextTrack
<1>3. ASSUME NEW cached \in BOOLEAN, Seek(cached) PROVE Grows
  <2>1. \/ React("playing", TRUE) \/ Become(current, gen, hasTrack, live)
        \/ UNCHANGED <<stream, mailbox, events>>
    BY <1>3 DEF Seek
  <2>2. UNCHANGED <<stream, mailbox, events>> => Grows
    BY DEF ServerTyped, stream, Grows, Tells
  <2> QED
    BY <1>0, <2>1, <2>2, ReactGrows, BecomeGrows
<1>4. ASSUME NEW cached \in BOOLEAN, Resume(cached) PROVE Grows
  <2>1. React("playing", TRUE) \/ Become("playing", gen, hasTrack, live)
    BY <1>4 DEF Resume
  <2> QED
    BY <1>0, <2>1, ReactGrows, BecomeGrows
<1>5. CASE Pause
  BY <1>5, ReactGrows DEF Pause
<1> QED
  BY <1>1, <1>2, <1>3, <1>4, <1>5 DEF MonitorSees

LEMMA GoLiveGrows == ASSUME ServerTyped, GoLive PROVE Grows
<1>1. gen + 1 \in Nat /\ gen <= gen + 1
  BY DEF ServerTyped
<1>2. Tells(gen + 1)
  <2>1. CASE current = "none"
    BY <2>1, SilenceTells DEF GoLive
  <2>2. CASE current # "none"
    BY <1>1, <2>2, BroadcastTells DEF GoLive
  <2> QED
    BY <2>1, <2>2
<1> QED
  BY <1>1, <1>2 DEF GoLive, Grows, ServerTyped

LEMMA GoOffGrows == ASSUME ServerTyped, NEW cached \in BOOLEAN, GoOff(cached) PROVE Grows
<1>1. CASE current = "none"
  <2>1. /\ live' = FALSE /\ gen' = gen + 1 /\ hasTrack' = FALSE
        /\ current' = current /\ mailbox' = mailbox /\ events' = events
    BY <1>1 DEF GoOff
  <2>2. Tells(gen')
    BY <2>1, SilenceTells
  <2>3. /\ current' \in {"none", "paused", "playing"} /\ hasTrack' \in BOOLEAN
        /\ live' \in BOOLEAN /\ gen' \in Nat /\ gen <= gen'
    <3>1. gen \in Nat /\ current \in {"none", "paused", "playing"}
      BY DEF ServerTyped
    <3>2. gen' \in Nat /\ gen <= gen'
      BY <2>1, <3>1
    <3> QED
      BY <2>1, <3>1, <3>2
  <2> QED
    BY <2>2, <2>3 DEF Grows
<1>2. CASE current # "none"
  <2>1. Become(current, gen + 2, current = "playing" /\ cached, FALSE)
    BY <1>2 DEF GoOff
  <2>2. gen + 2 \in Nat /\ gen <= gen + 2 /\ (current = "playing" /\ cached) \in BOOLEAN
    BY DEF ServerTyped
  <2> QED
    BY <2>1, <2>2, BecomeGrows DEF ServerTyped
<1> QED
  BY <1>1, <1>2

\* What the step leaves of the links to the clients.
LinksKept ==
    /\ link' \in {"down", "inserted", "snapshot", "up"} /\ snapshot' \in Frame
    /\ snapshot'.gen <= snapshot.gen \/ snapshot'.gen <= gen
    /\ feed' \in {"down", "computed", "up"} /\ initial' \in Seq(BOOLEAN)

LEMMA SameLinks ==
    ASSUME ServerTyped, UNCHANGED <<link, snapshot, feed, initial>> PROVE LinksKept
BY DEF ServerTyped, LinksKept, Frame

LEMMA OutsideTyped ==
    ASSUME ServerTyped, NEW k \in {"music", "click", "fault"}, Outside(k)
    PROVE  changes' \in [{"music", "click", "fault"} -> Nat]
BY DEF ServerTyped, Outside

\* The steps of the server and of the togedemon: to the page they are news of the stream.
News ==
    /\ Grows /\ LinksKept
    /\ changes' \in [{"music", "click", "fault"} -> Nat]

\* The stream has not moved.
LEMMA StillGrows ==
    ASSUME ServerTyped, UNCHANGED stream, Tells(gen)
    PROVE  Grows
BY DEF ServerTyped, stream, Grows

LEMMA RetoldTells == ASSUME ServerTyped, Retold PROVE Tells(gen)
BY NowTells, SilenceTells DEF Retold

LEMMA ServerNews ==
    ASSUME ServerTyped, Announced, ServerMoves
    PROVE  News
<1>0. /\ changes \in [{"music", "click", "fault"} -> Nat]
      /\ UNCHANGED <<link, snapshot, feed, initial>> => LinksKept
  BY SameLinks DEF ServerTyped
<1>1. CASE MonitorSees
  BY <1>0, <1>1, MonitorGrows, OutsideTyped DEF News, MonitorSees
<1>2. CASE Prepared
  <2>1. React("playing", TRUE)
    BY <1>2 DEF Prepared
  <2>2. Grows
    BY <2>1, ReactGrows
  <2> QED
    BY <1>0, <1>2, <2>2 DEF Prepared, News
<1>3. CASE Progress
  BY <1>0, <1>3, NowTells, StillGrows DEF Progress, News
<1>4. CASE Rebroadcast
  BY <1>0, <1>4, RetoldTells, StillGrows DEF Rebroadcast, News
<1>5. CASE Connect
  <2>1. Grows
    BY <1>5, SilenceTells, StillGrows DEF Connect
  <2>2. LinksKept
    BY <1>5 DEF Connect, LinksKept, ServerTyped, Frame
  <2> QED
    BY <1>0, <1>5, <2>1, <2>2 DEF Connect, News
<1>6. CASE BuildSnapshot
  <2>1. Grows
    BY <1>6, SilenceTells, StillGrows DEF BuildSnapshot
  <2>2. snapshot' = snapshot \/ snapshot' = Now
    BY <1>6 DEF BuildSnapshot
  <2>3. Now \in Frame /\ Now.gen = gen /\ gen \in Nat
    BY FrameOfTyped DEF Now, ServerTyped
  <2>4. snapshot \in Frame /\ snapshot.gen \in Nat
    BY DEF ServerTyped, Frame
  <2>5. snapshot' \in Frame /\ (snapshot'.gen <= snapshot.gen \/ snapshot'.gen <= gen)
    BY <2>2, <2>3, <2>4
  <2>6. LinksKept
    BY <1>6, <2>5 DEF BuildSnapshot, LinksKept, ServerTyped
  <2> QED
    BY <1>0, <1>6, <2>1, <2>6 DEF BuildSnapshot, News
<1>7. CASE SendSnapshot
  <2>1. snapshot \in Frame /\ snapshot.gen <= gen /\ gen \in Nat
    BY DEF ServerTyped, Announced
  <2>2. Tells(gen)
    BY <1>7, <2>1 DEF SendSnapshot, Tells, ServerTyped
  <2>3. Grows
    BY <1>7, <2>2, StillGrows DEF SendSnapshot
  <2>4. snapshot' \in Frame /\ snapshot'.gen <= gen
    BY <1>7, <2>1, NoFrameTyped DEF SendSnapshot
  <2>5. LinksKept
    BY <1>7, <2>4 DEF SendSnapshot, LinksKept, ServerTyped
  <2> QED
    BY <1>0, <1>7, <2>3, <2>5 DEF SendSnapshot, News
<1>8. CASE ComputeInitial
  <2>1. Grows
    BY <1>8, SilenceTells, StillGrows DEF ComputeInitial
  <2>2. <<current = "playing">> \in Seq(BOOLEAN)
    OBVIOUS
  <2>3. LinksKept
    BY <1>8, <2>2 DEF ComputeInitial, LinksKept, ServerTyped, Frame
  <2> QED
    BY <1>0, <1>8, <2>1, <2>3 DEF ComputeInitial, News
<1>9. CASE Subscribe
  <2>1. Grows
    BY <1>9, SilenceTells, StillGrows DEF Subscribe
  <2>2. LinksKept
    BY <1>9 DEF Subscribe, LinksKept, ServerTyped, Frame
  <2> QED
    BY <1>0, <1>9, <2>1, <2>2 DEF Subscribe, News
<1>10. CASE Pushes
  <2>1. Grows
    BY <1>10, GoLiveGrows, GoOffGrows DEF Pushes
  <2> QED
    BY <1>0, <1>10, <2>1, OutsideTyped DEF Pushes, News
<1> QED
  BY <1>1, <1>2, <1>3, <1>4, <1>5, <1>6, <1>7, <1>8, <1>9, <1>10 DEF ServerMoves, ServerStep

LEMMA DemonNews ==
    ASSUME ServerTyped, DemonTypeOK, DemonMoves
    PROVE  News /\ DemonTypeOK'
<1>0. /\ changes \in [{"music", "click", "fault"} -> Nat]
      /\ UNCHANGED <<link, snapshot, feed, initial>> => LinksKept
      /\ UNCHANGED <<stream, mailbox, events>> => Grows
  BY SameLinks, SilenceTells, StillGrows DEF ServerTyped
<1>1. CASE FeedReads
  <2>1. \/ initial # <<>> /\ mirror' = Head(initial) /\ initial' = <<>> /\ events' = events
        \/ events # <<>> /\ mirror' = Head(events) /\ events' = Tail(events)
           /\ initial' = initial
    BY <1>1 DEF FeedReads
  <2>2. /\ initial \in Seq(BOOLEAN) /\ events \in Seq(BOOLEAN) /\ Len(events) <= Channel
        /\ Channel \in Nat
    BY BoundsAssumption DEF ServerTyped
  <2>3. mirror' \in BOOLEAN
    BY <2>1, <2>2, HeadTailProperties
  <2>4. initial' \in Seq(BOOLEAN)
    BY <2>1, <2>2, EmptySeq
  <2>5. events' \in Seq(BOOLEAN) /\ Len(events') <= Channel
    <3>1. CASE events' = events
      BY <2>2, <3>1
    <3>2. CASE events # <<>> /\ events' = Tail(events)
      <4>1. events' \in Seq(BOOLEAN) /\ Len(events') = Len(events) - 1 /\ Len(events) \in Nat
        BY <2>2, <3>2, HeadTailProperties, LenProperties
      <4> QED
        BY <2>2, <4>1
    <3> QED
      BY <2>1, <3>1, <3>2
  <2>6. UNCHANGED <<sink, pc, stream, link, snapshot, mailbox, feed, changes>>
    BY <1>1 DEF FeedReads
  <2>7. Grows
    BY <2>5, <2>6, StillGrows DEF Tells
  <2>8. LinksKept
    BY <2>4, <2>6 DEF LinksKept, ServerTyped, Frame
  <2> QED
    BY <1>0, <2>3, <2>6, <2>7, <2>8 DEF News, DemonTypeOK
<1>2. CASE FeedLost
  <2>1. UNCHANGED <<sink, pc, mirror, stream, link, snapshot, mailbox>>
    BY <1>2 DEF FeedLost, demon
  <2>2. feed' = "down" /\ initial' = <<>> /\ events' = <<>>
    BY <1>2 DEF FeedLost, Unfed
  <2>3. events' \in Seq(BOOLEAN) /\ Len(events') <= Channel /\ initial' \in Seq(BOOLEAN)
    BY <2>2, BoundsAssumption
  <2>4. Grows
    BY <2>1, <2>3, StillGrows DEF Tells
  <2>5. LinksKept
    BY <2>1, <2>2, <2>3 DEF LinksKept, ServerTyped, Frame
  <2>6. changes' \in [{"music", "click", "fault"} -> Nat]
    BY <1>2, OutsideTyped DEF FeedLost
  <2> QED
    BY <2>1, <2>4, <2>5, <2>6 DEF News, DemonTypeOK
<1>3. CASE Detect \/ WaitEnds \/ RestEnds
  <2>1. /\ UNCHANGED vars /\ sink' = sink /\ mirror' = mirror
        /\ pc' \in {"detect", "push", "streaming", "wait", "rest"}
    BY <1>3 DEF Detect, WaitEnds, RestEnds, Goto, DemonTypeOK
  <2> QED
    BY <1>0, <2>1 DEF News, DemonTypeOK, vars
<1>4. CASE PushArrives
  <2>1. Grows
    BY <1>4, GoLiveGrows DEF PushArrives
  <2>2. changes' \in [{"music", "click", "fault"} -> Nat]
    BY <1>0, <1>4, OutsideTyped DEF PushArrives
  <2> QED
    BY <1>0, <1>4, <2>1, <2>2 DEF PushArrives, Goto, News, DemonTypeOK
<1>5. CASE PushRefused
  <2>1. changes' \in [{"music", "click", "fault"} -> Nat]
    BY <1>5, OutsideTyped DEF PushRefused
  <2> QED
    BY <1>0, <1>5, <2>1 DEF PushRefused, Goto, News, DemonTypeOK
<1>6. CASE SinkChanges
  <2>1. changes' \in [{"music", "click", "fault"} -> Nat]
    BY <1>6, OutsideTyped DEF SinkChanges
  <2> QED
    BY <1>0, <1>6, <2>1 DEF SinkChanges, News, DemonTypeOK
<1>7. ASSUME NEW cached \in BOOLEAN, PushEnds(cached) PROVE News /\ DemonTypeOK'
  <2>1. Grows
    BY <1>7, GoOffGrows DEF PushEnds
  <2>2. changes' \in [{"music", "click", "fault"} -> Nat]
    BY <1>0, <1>7, OutsideTyped DEF PushEnds
  <2> QED
    BY <1>0, <1>7, <2>1, <2>2 DEF PushEnds, Goto, News, DemonTypeOK
<1> QED
  BY <1>1, <1>2, <1>3, <1>4, <1>5, <1>6, <1>7 DEF DemonMoves, DemonStep

\* News keeps the server's types, and what is on its way to the page is announced.
LEMMA NewsKeeps ==
    ASSUME ServerTyped, Announced, News
    PROVE  ServerTyped' /\ Announced'
<1>1. ServerTyped'
  BY TellsTyped DEF News, Grows, LinksKept, ServerTyped
<1>2. \A i \in 1..Len(mailbox') : mailbox'[i].gen <= gen'
  BY TellsAnnounced DEF News, Grows
<1>3. snapshot'.gen <= gen'
  <2>1. gen \in Nat /\ gen' \in Nat /\ gen <= gen' /\ snapshot.gen <= gen /\ snapshot.gen \in Nat
    BY DEF News, Grows, ServerTyped, Announced, Frame
  <2>2. snapshot'.gen \in Nat /\ (snapshot'.gen <= snapshot.gen \/ snapshot'.gen <= gen)
    BY DEF News, LinksKept, Frame
  <2> QED
    BY <2>1, <2>2
<1> QED
  BY <1>1, <1>2, <1>3 DEF Announced

\* And the page is not behind what it has noted.
LEMMA NewsNoted ==
    ASSUME ServerTyped, PageTypeOK, Noted, News, UNCHANGED page
    PROVE  Noted'
<1>1. gen \in Nat /\ gen' \in Nat /\ gen <= gen'
  BY DEF News, Grows, ServerTyped
<1>2. track.gen \in Nat /\ connected \in Nat /\ pipe \in Nat
  BY DEF PageTypeOK, Frame
<1>3. UNCHANGED <<track, old, foreign, connected, request, pipe, cut>>
  BY DEF page, audio
<1> QED
  BY <1>1, <1>2, <1>3 DEF Noted, TrackNoted, AudioNoted

-----------------------------------------------------------------------------
(* What the page says of its listening.                                    *)

\* A frame that says what the page has come to leaves the server to follow it.
LEMMA SaidFollows ==
    ASSUME frames \in Seq(BOOLEAN), Closed, NEW on \in BOOLEAN, SendListening(on),
           listening' = on, opened' = opened, tally' = tally
    PROVE  frames' \in Seq(BOOLEAN) /\ Closed' /\ TallyFollows'
<1>1. CASE opened
  <2>1. frames' = Append(frames, on)
    BY <1>1 DEF SendListening
  <2>2. /\ frames' \in Seq(BOOLEAN) /\ frames' # <<>> /\ Len(frames') = Len(frames) + 1
        /\ frames'[Len(frames) + 1] = on
    BY <2>1, AppendProperties
  <2> QED
    BY <1>1, <2>2 DEF Closed, TallyFollows
<1>2. CASE ~opened
  BY <1>2 DEF SendListening, Closed, TallyFollows
<1> QED
  BY <1>1, <1>2

\* A frame that is read leaves it to the others, or it was the last.
LEMMA ReadFollows ==
    ASSUME frames \in Seq(BOOLEAN), Closed, TallyFollows, ReadListening
    PROVE  frames' \in Seq(BOOLEAN) /\ tally' \in BOOLEAN /\ Closed' /\ TallyFollows'
<1>1. /\ frames # <<>> /\ tally' = Head(frames) /\ frames' = Tail(frames)
      /\ opened' = opened /\ listening' = listening
  BY DEF ReadListening
<1>2. /\ Tail(frames) \in Seq(BOOLEAN) /\ Head(frames) \in BOOLEAN
      /\ Len(Tail(frames)) = Len(frames) - 1 /\ Len(frames) \in Nat \ {0}
      /\ \A i \in 1..Len(Tail(frames)) : Tail(frames)[i] = frames[i + 1]
  BY <1>1, HeadTailProperties, EmptySeq
<1>3. opened
  BY <1>1 DEF Closed
<1>4. frames[Len(frames)] = listening
  BY <1>1, <1>3 DEF TallyFollows
<1>5. CASE Tail(frames) = <<>>
  <2>1. Len(frames) = 1
    BY <1>2, <1>5
  <2>2. Head(frames) = frames[1]
    BY <1>1
  <2> QED
    BY <1>1, <1>2, <1>3, <1>4, <1>5, <2>1, <2>2 DEF Closed, TallyFollows
<1>6. CASE Tail(frames) # <<>>
  <2>1. Len(Tail(frames)) \in Nat \ {0}
    BY <1>2, <1>6, EmptySeq
  <2>2. Tail(frames)[Len(Tail(frames))] = frames[Len(frames)]
    BY <1>2, <2>1
  <2> QED
    BY <1>1, <1>2, <1>3, <1>4, <1>6, <2>2 DEF Closed, TallyFollows
<1> QED
  BY <1>5, <1>6

\* A new socket starts with what the page says, or both are silent and do not listen.
LEMMA OpenedFollows ==
    ASSUME frames \in Seq(BOOLEAN), listening \in BOOLEAN, tally \in BOOLEAN, Closed, Opened
    PROVE  frames' \in Seq(BOOLEAN) /\ Closed' /\ TallyFollows'
<1>1. /\ ~opened /\ opened' = TRUE /\ tally' = tally /\ listening' = listening
      /\ frames' = IF listening THEN Append(frames, TRUE) ELSE frames
      /\ frames = <<>> /\ tally = FALSE
  BY DEF Opened, Closed
<1>2. CASE listening = TRUE
  <2>1. frames' = Append(frames, TRUE) /\ Len(frames) \in Nat
    BY <1>1, <1>2
  <2>2. /\ frames' \in Seq(BOOLEAN) /\ frames' # <<>> /\ Len(frames') = Len(frames) + 1
        /\ frames'[Len(frames) + 1] = TRUE
    BY <2>1, AppendProperties
  <2> QED
    BY <1>1, <1>2, <2>2 DEF Closed, TallyFollows
<1>3. CASE listening = FALSE
  <2>1. frames' = <<>> /\ tally' = listening'
    BY <1>1, <1>3
  <2> QED
    BY <1>1, <2>1 DEF Closed, TallyFollows
<1> QED
  BY <1>2, <1>3

\* The types of the page, and what it says.
Page == PageTypeOK /\ Closed /\ TallyFollows

\* The types of the audio element.
AudioTyped ==
    /\ connected \in Nat /\ paused \in BOOLEAN /\ pipe \in Nat
    /\ request \in {"none", "asked", "on", "over"} /\ cut \in BOOLEAN /\ foreign \in BOOLEAN

LEMMA ConnectTyped ==
    ASSUME NEW f \in Frame, NEW o \in BOOLEAN, ConnectStream(f, o) PROVE AudioTyped'
BY DEF ConnectStream, AudioTyped, Frame

LEMMA DisconnectTyped == ASSUME DisconnectStream PROVE AudioTyped'
BY DEF DisconnectStream, AudioTyped

LEMMA SameTyped == ASSUME AudioTyped, UNCHANGED audio PROVE AudioTyped'
BY DEF AudioTyped, audio

\* The first frame in a channel that is not empty.
LEMMA Received ==
    ASSUME ServerTyped, Announced, mailbox # <<>>
    PROVE  /\ Head(mailbox) \in Frame /\ Head(mailbox).gen <= gen
           /\ Tail(mailbox) \in Seq(Frame) /\ Len(Tail(mailbox)) <= Mailbox
           /\ \A i \in 1..Len(Tail(mailbox)) : Tail(mailbox)[i].gen <= gen
<1>1. /\ mailbox \in Seq(Frame) /\ Len(mailbox) <= Mailbox /\ Mailbox \in Nat
      /\ \A i \in 1..Len(mailbox) : mailbox[i].gen <= gen
  BY BoundsAssumption DEF ServerTyped, Announced
<1>2. /\ Head(mailbox) \in Frame /\ Tail(mailbox) \in Seq(Frame)
      /\ Len(Tail(mailbox)) = Len(mailbox) - 1 /\ Len(mailbox) \in Nat \ {0}
      /\ \A i \in 1..Len(Tail(mailbox)) : Tail(mailbox)[i] = mailbox[i + 1]
  BY <1>1, HeadTailProperties, EmptySeq
<1>3. Head(mailbox) = mailbox[1]
  BY <1>1
<1>4. \A i \in 1..Len(Tail(mailbox)) : i + 1 \in 1..Len(mailbox)
  BY <1>2
<1> QED
  BY <1>1, <1>2, <1>3, <1>4

-----------------------------------------------------------------------------
(* The steps of the page.                                                  *)

\* All that is claimed of the page with its server.
Kept == ServerTyped /\ Page /\ Announced /\ Noted

\* The server is as it was, but for the count of what happens outside.
LEMMA ServerSame ==
    ASSUME ServerTyped, Announced, UNCHANGED <<stream, link, snapshot, mailbox, feed, initial,
                                               events>>,
           changes' \in [{"music", "click", "fault"} -> Nat]
    PROVE  ServerTyped' /\ Announced'
BY DEF ServerTyped, Announced, stream

LEMMA ServerStill ==
    ASSUME ServerTyped, Announced, UNCHANGED vars PROVE ServerTyped' /\ Announced'
BY DEF ServerTyped, Announced, vars, stream

\* A /stream request for a frame of this run is for a generation that has been.
LEMMA ConnectNoted ==
    ASSUME ServerTyped, NEW f \in Frame, NEW o \in BOOLEAN, ~o => f.gen <= gen,
           ConnectStream(f, o), gen' = gen
    PROVE  AudioNoted'
BY DEF ServerTyped, ConnectStream, AudioNoted, Frame

LEMMA DisconnectNoted == ASSUME ServerTyped, DisconnectStream, gen' = gen PROVE AudioNoted'
BY DEF ServerTyped, DisconnectStream, AudioNoted

LEMMA SameNoted ==
    ASSUME AudioNoted, UNCHANGED <<connected, request, pipe, cut, foreign>>, gen' = gen
    PROVE  AudioNoted'
BY DEF AudioNoted

LEMMA PageParts ==
    PageTypeOK <=> /\ opened \in BOOLEAN /\ tally \in BOOLEAN /\ frames \in Seq(BOOLEAN)
                   /\ track \in Frame /\ listening \in BOOLEAN /\ timer \in BOOLEAN
                   /\ old \in BOOLEAN /\ AudioTyped
BY DEF PageTypeOK, AudioTyped

\* The page leaves the stream.
LEMMA StopKeeps ==
    ASSUME ServerTyped, Page, StopListening, gen' = gen, UNCHANGED <<opened, tally>>,
           track' \in Frame, old' \in BOOLEAN
    PROVE  Page' /\ AudioNoted'
<1>1. /\ opened \in BOOLEAN /\ tally \in BOOLEAN /\ frames \in Seq(BOOLEAN) /\ Closed
  BY DEF Page, PageTypeOK
<1>2. /\ listening' = FALSE /\ SendListening(FALSE) /\ timer' = FALSE /\ DisconnectStream
  BY DEF StopListening
<1>3. frames' \in Seq(BOOLEAN) /\ Closed' /\ TallyFollows'
  BY <1>1, <1>2, SaidFollows
<1>4. AudioTyped' /\ AudioNoted'
  BY <1>2, DisconnectTyped, DisconnectNoted
<1>5. PageTypeOK'
  BY <1>1, <1>2, <1>3, <1>4, PageParts DEF PageTypeOK, AudioTyped
<1> QED
  BY <1>3, <1>4, <1>5 DEF Page

LEMMA ClickKeeps == ASSUME Kept, Click PROVE Kept'
<1>1. /\ ServerTyped /\ Announced /\ TrackNoted /\ AudioNoted /\ Page
      /\ opened \in BOOLEAN /\ tally \in BOOLEAN /\ frames \in Seq(BOOLEAN) /\ Closed
      /\ track \in Frame /\ timer \in BOOLEAN /\ old \in BOOLEAN /\ AudioTyped
      /\ track.track /\ ~old => track.gen <= gen
  BY PageParts DEF Kept, Noted, Page, TrackNoted
<1>2. /\ UNCHANGED <<stream, link, snapshot, mailbox, feed, initial, events>>
      /\ changes' \in [{"music", "click", "fault"} -> Nat]
  BY <1>1, OutsideTyped DEF Click
<1>3. ServerTyped' /\ Announced' /\ gen' = gen
  BY <1>1, <1>2, ServerSame DEF stream
<1>4. CASE ClickListen
  <2>1. /\ track.track /\ listening' = TRUE /\ SendListening(TRUE)
        /\ UNCHANGED <<opened, tally, track, old, timer>>
        /\ ConnectStream(track, old) \/ UNCHANGED audio
    BY <1>4 DEF ClickListen
  <2>2. frames' \in Seq(BOOLEAN) /\ Closed' /\ TallyFollows'
    BY <1>1, <2>1, SaidFollows
  <2>3. AudioTyped' /\ AudioNoted'
    <3>1. CASE ConnectStream(track, old)
      BY <1>1, <1>3, <2>1, <3>1, ConnectTyped, ConnectNoted
    <3>2. CASE UNCHANGED audio
      BY <1>1, <1>3, <3>2, SameTyped, SameNoted DEF audio
    <3> QED
      BY <2>1, <3>1, <3>2
  <2>4. TrackNoted'
    BY <1>1, <1>3, <2>1 DEF TrackNoted
  <2>5. PageTypeOK'
    BY <1>1, <2>1, <2>2, <2>3 DEF PageTypeOK, AudioTyped
  <2> QED
    BY <1>3, <2>2, <2>3, <2>4, <2>5 DEF Kept, Page, Noted
<1>5. CASE ClickLeave
  <2>1. StopListening /\ UNCHANGED <<opened, tally, track, old>>
    BY <1>5 DEF ClickLeave
  <2>2. Page' /\ AudioNoted'
    BY <1>1, <1>3, <2>1, StopKeeps
  <2>3. TrackNoted'
    BY <1>1, <1>3, <2>1 DEF TrackNoted
  <2> QED
    BY <1>3, <2>2, <2>3 DEF Kept, Noted
<1> QED
  BY <1>4, <1>5 DEF Click

LEMMA TimeoutKeeps == ASSUME Kept, PauseTimeout PROVE Kept'
<1>1. /\ ServerTyped /\ Announced /\ TrackNoted /\ AudioNoted /\ Page
      /\ opened \in BOOLEAN /\ tally \in BOOLEAN /\ frames \in Seq(BOOLEAN)
      /\ track \in Frame /\ listening \in BOOLEAN /\ old \in BOOLEAN /\ AudioTyped
  BY PageParts DEF Kept, Noted, Page
<1>2. UNCHANGED <<opened, tally, track, old, vars>>
  BY DEF PauseTimeout
<1>3. ServerTyped' /\ Announced' /\ gen' = gen
  BY <1>1, <1>2, ServerStill DEF vars, stream
<1>4. TrackNoted'
  BY <1>1, <1>2, <1>3 DEF TrackNoted
<1>5. CASE StopListening
  BY <1>1, <1>2, <1>3, <1>4, <1>5, StopKeeps DEF Kept, Noted
<1>6. CASE timer' = FALSE /\ UNCHANGED <<listening, frames, audio>>
  <2>1. AudioTyped' /\ AudioNoted'
    BY <1>1, <1>3, <1>6, SameTyped, SameNoted DEF audio
  <2>2. PageTypeOK'
    BY <1>1, <1>2, <1>6, <2>1 DEF PageTypeOK, AudioTyped
  <2>3. Closed' /\ TallyFollows'
    BY <1>1, <1>2, <1>6 DEF Page, Closed, TallyFollows
  <2> QED
    BY <1>3, <1>4, <2>1, <2>2, <2>3 DEF Kept, Noted, Page
<1> QED
  BY <1>5, <1>6 DEF PauseTimeout

LEMMA SocketKeeps == ASSUME Kept, Opened \/ ReadListening PROVE Kept'
<1>1. /\ ServerTyped /\ Announced /\ TrackNoted /\ AudioNoted /\ AudioTyped
      /\ opened \in BOOLEAN /\ tally \in BOOLEAN /\ frames \in Seq(BOOLEAN)
      /\ track \in Frame /\ listening \in BOOLEAN /\ timer \in BOOLEAN /\ old \in BOOLEAN
      /\ Closed /\ TallyFollows
  BY PageParts DEF Kept, Noted, Page
<1>2. UNCHANGED <<track, old, listening, timer, audio, vars>>
  BY DEF Opened, ReadListening
<1>3. /\ frames' \in Seq(BOOLEAN) /\ Closed' /\ TallyFollows'
      /\ opened' \in BOOLEAN /\ tally' \in BOOLEAN
  <2>1. CASE Opened
    BY <1>1, <2>1, OpenedFollows DEF Opened
  <2>2. CASE ReadListening
    BY <1>1, <2>2, ReadFollows DEF ReadListening
  <2> QED
    BY <2>1, <2>2
<1>4. ServerTyped' /\ Announced' /\ gen' = gen
  BY <1>1, <1>2, ServerStill DEF vars, stream
<1>5. TrackNoted'
  BY <1>1, <1>2, <1>4 DEF TrackNoted
<1>6. AudioTyped' /\ AudioNoted'
  BY <1>1, <1>2, <1>4, SameTyped, SameNoted DEF audio
<1>7. PageTypeOK'
  BY <1>1, <1>2, <1>3, <1>6 DEF PageTypeOK, AudioTyped
<1> QED
  BY <1>3, <1>4, <1>5, <1>6, <1>7 DEF Kept, Page, Noted

LEMMA ReceiveKeeps == ASSUME Kept, Receive PROVE Kept'
<1>1. /\ ServerTyped /\ Announced /\ AudioNoted /\ AudioTyped
      /\ opened \in BOOLEAN /\ tally \in BOOLEAN /\ frames \in Seq(BOOLEAN)
      /\ listening \in BOOLEAN /\ timer \in BOOLEAN
      /\ Page /\ Closed /\ TallyFollows
  BY PageParts DEF Kept, Noted, Page
<1>2. /\ mailbox # <<>> /\ track' = Head(mailbox) /\ old' = FALSE /\ mailbox' = Tail(mailbox)
      /\ UNCHANGED <<opened, tally, stream, link, snapshot, feed, initial, events, changes>>
  BY DEF Receive
<1>3. PICK f \in Frame : f = Head(mailbox) /\ f.gen <= gen /\ track' = f
  BY <1>1, <1>2, Received
<1>4. ServerTyped' /\ Announced' /\ gen' = gen
  <2>1. /\ mailbox' \in Seq(Frame) /\ Len(mailbox') <= Mailbox
        /\ \A i \in 1..Len(mailbox') : mailbox'[i].gen <= gen
    BY <1>1, <1>2, Received
  <2> QED
    BY <1>1, <1>2, <2>1 DEF ServerTyped, Announced, stream
<1>5. TrackNoted'
  BY <1>3, <1>4 DEF TrackNoted
<1>6. CASE ~listening /\ UNCHANGED <<listening, frames, timer, audio>>
  <2>1. AudioTyped' /\ AudioNoted'
    BY <1>1, <1>4, <1>6, SameTyped, SameNoted DEF audio
  <2>2. PageTypeOK'
    BY <1>1, <1>2, <1>3, <1>6, <2>1 DEF PageTypeOK, AudioTyped
  <2>3. Closed' /\ TallyFollows'
    BY <1>1, <1>2, <1>6 DEF Closed, TallyFollows
  <2> QED
    BY <1>4, <1>5, <2>1, <2>2, <2>3 DEF Kept, Noted, Page
<1>7. CASE SyncAudio(f) /\ UNCHANGED <<listening, frames>>
  <2>1. timer' \in BOOLEAN /\ AudioTyped' /\ AudioNoted'
    <3>1. CASE ~ShouldPlay(f)
      <4>1. /\ timer' = TRUE /\ paused' = TRUE
            /\ UNCHANGED <<connected, request, pipe, cut, foreign>>
        BY <1>7, <3>1 DEF SyncAudio
      <4> QED
        BY <1>1, <1>4, <4>1, SameNoted DEF AudioTyped
    <3>2. CASE ShouldPlay(f)
      <4>1. timer' = FALSE /\ (ConnectStream(f, FALSE) \/ UNCHANGED audio)
        BY <1>7, <3>2 DEF SyncAudio
      <4>2. CASE ConnectStream(f, FALSE)
        BY <1>1, <1>3, <1>4, <4>1, <4>2, ConnectTyped, ConnectNoted
      <4>3. CASE UNCHANGED audio
        BY <1>1, <1>4, <4>1, <4>3, SameTyped, SameNoted DEF audio
      <4> QED
        BY <4>1, <4>2, <4>3
    <3> QED
      BY <3>1, <3>2
  <2>2. PageTypeOK'
    BY <1>1, <1>2, <1>3, <1>7, <2>1 DEF PageTypeOK, AudioTyped
  <2>3. Closed' /\ TallyFollows'
    BY <1>1, <1>2, <1>7 DEF Closed, TallyFollows
  <2> QED
    BY <1>4, <1>5, <2>1, <2>2, <2>3 DEF Kept, Noted, Page
<1>8. CASE StopListening
  BY <1>1, <1>2, <1>3, <1>4, <1>5, <1>8, StopKeeps DEF Kept, Noted
<1> QED
  BY <1>3, <1>6, <1>7, <1>8 DEF Receive

\* A page without a socket says nothing.
LEMMA ClosedSpeech ==
    ASSUME SocketClosed
    PROVE  /\ opened' \in BOOLEAN /\ tally' \in BOOLEAN /\ frames' \in Seq(BOOLEAN)
           /\ Closed' /\ TallyFollows'
<1>1. opened' = FALSE /\ tally' = FALSE /\ frames' = <<>>
  BY DEF SocketClosed
<1>2. frames' \in Seq(BOOLEAN)
  BY <1>1
<1>3. Closed' /\ TallyFollows'
  BY <1>1 DEF Closed, TallyFollows
<1> QED
  BY <1>1, <1>2, <1>3

LEMMA LostKeeps == ASSUME Kept, SocketLost PROVE Kept'
<1>1. /\ ServerTyped /\ Announced /\ TrackNoted /\ AudioNoted /\ AudioTyped
      /\ track \in Frame /\ listening \in BOOLEAN /\ timer \in BOOLEAN /\ old \in BOOLEAN
  BY PageParts DEF Kept, Noted, Page
<1>2. /\ link' = "down" /\ snapshot' = NoFrame /\ mailbox' = <<>> /\ SocketClosed
      /\ UNCHANGED <<old, audio, stream, feed, initial, events, track, listening, timer>>
      /\ changes' \in [{"music", "click", "fault"} -> Nat]
  BY <1>1, OutsideTyped DEF SocketLost, Unlinked, SocketClosed
<1>3. /\ opened' \in BOOLEAN /\ tally' \in BOOLEAN /\ frames' \in Seq(BOOLEAN)
      /\ Closed' /\ TallyFollows'
  BY <1>2, ClosedSpeech
<1>4. mailbox' \in Seq(Frame) /\ Len(mailbox') = 0
  BY <1>2
<1>5. ServerTyped' /\ gen' = gen /\ gen \in Nat
  BY <1>1, <1>2, <1>4, NoFrameTyped, BoundsAssumption DEF ServerTyped, stream
<1>6. Announced'
  BY <1>2, <1>4, <1>5, NoFrameTyped DEF Announced
<1>7. AudioTyped' /\ AudioNoted' /\ TrackNoted'
  BY <1>1, <1>2, <1>5, SameTyped, SameNoted DEF audio, TrackNoted
<1>8. PageTypeOK'
  BY <1>1, <1>2, <1>3, <1>7 DEF PageTypeOK, AudioTyped
<1> QED
  BY <1>3, <1>5, <1>6, <1>7, <1>8 DEF Kept, Noted, Page

LEMMA RequestKeeps == ASSUME Kept, Arrive \/ BodyEnds \/ CutOff PROVE Kept'
<1>1. /\ ServerTyped /\ Announced /\ TrackNoted /\ AudioNoted /\ AudioTyped
      /\ PageTypeOK /\ Closed /\ TallyFollows /\ gen \in Nat
  BY PageParts DEF Kept, Noted, Page, ServerTyped
<1>2. UNCHANGED <<socket, track, old, listening, timer, connected, paused, foreign>>
  BY DEF Arrive, BodyEnds, CutOff
<1>3. ServerTyped' /\ Announced' /\ gen' = gen
  <2>1. CASE Arrive \/ BodyEnds
    <3>1. Retold /\ UNCHANGED <<stream, link, snapshot, feed, initial, changes>>
      BY <2>1 DEF Arrive, BodyEnds
    <3>2. Grows
      BY <1>1, <3>1, RetoldTells, StillGrows
    <3>3. News
      BY <1>1, <3>1, <3>2, SameLinks DEF News, ServerTyped
    <3> QED
      BY <1>1, <3>1, <3>3, NewsKeeps DEF stream
  <2>2. CASE CutOff
    <3>1. UNCHANGED <<stream, link, snapshot, mailbox, feed, initial, events>>
      BY <2>2 DEF CutOff
    <3>2. changes' \in [{"music", "click", "fault"} -> Nat]
      BY <1>1, <2>2, OutsideTyped DEF CutOff
    <3> QED
      BY <1>1, <3>1, <3>2, ServerSame DEF stream
  <2> QED
    BY <2>1, <2>2
<1>4. AudioTyped' /\ AudioNoted'
  <2>1. CASE Arrive
    BY <1>1, <1>2, <1>3, <2>1 DEF Arrive, AudioTyped, AudioNoted
  <2>2. CASE BodyEnds
    BY <1>1, <1>2, <1>3, <2>2 DEF BodyEnds, AudioTyped, AudioNoted
  <2>3. CASE CutOff
    BY <1>1, <1>2, <1>3, <2>3 DEF CutOff, AudioTyped, AudioNoted
  <2> QED
    BY <2>1, <2>2, <2>3
<1>5. PageTypeOK' /\ Closed' /\ TallyFollows' /\ TrackNoted'
  BY <1>1, <1>2, <1>3, <1>4 DEF PageTypeOK, AudioTyped, Closed, TallyFollows, TrackNoted, socket
<1> QED
  BY <1>3, <1>4, <1>5 DEF Kept, Noted, Page

\* A server that starts anew counts its generations anew: what the page has noted of the last
\* run is marked as such.
LEMMA RestartKeeps == ASSUME Kept, DemonTypeOK, Restart PROVE Kept' /\ DemonTypeOK'
<1>1. /\ ServerTyped /\ AudioNoted /\ AudioTyped
      /\ track \in Frame /\ listening \in BOOLEAN /\ timer \in BOOLEAN
  BY PageParts DEF Kept, Noted, Page
<1>2. /\ current' = "none" /\ gen' = 0 /\ hasTrack' = FALSE /\ live' = FALSE
      /\ link' = "down" /\ snapshot' = NoFrame /\ mailbox' = <<>>
      /\ feed' = "down" /\ initial' = <<>> /\ events' = <<>>
      /\ changes' \in [{"music", "click", "fault"} -> Nat]
  BY <1>1, OutsideTyped DEF Restart, ServerRestart, Unlinked, Unfed
<1>3. /\ SocketClosed /\ UNCHANGED <<track, listening, timer, connected, paused, cut>>
      /\ request' = (IF request = "none" THEN "none" ELSE "over") /\ pipe' = 0
      /\ old' = track.track /\ foreign' = (connected # 0)
  BY DEF Restart, PageCutOff, SocketClosed
<1>4. /\ opened' \in BOOLEAN /\ tally' \in BOOLEAN /\ frames' \in Seq(BOOLEAN)
      /\ Closed' /\ TallyFollows'
  BY <1>3, ClosedSpeech
<1>5. /\ mailbox' \in Seq(Frame) /\ Len(mailbox') = 0 /\ initial' \in Seq(BOOLEAN)
      /\ events' \in Seq(BOOLEAN) /\ Len(events') = 0
  BY <1>2
<1>6. ServerTyped'
  <2>1. 0 <= Mailbox /\ 0 <= Channel
    BY BoundsAssumption
  <2> QED
    BY <1>2, <1>5, <2>1, NoFrameTyped DEF ServerTyped
<1>7. Announced'
  BY <1>2, <1>5, NoFrameTyped DEF Announced
<1>8. TrackNoted' /\ AudioNoted' /\ AudioTyped'
  <2>1. TrackNoted'
    BY <1>3 DEF TrackNoted
  <2>2. AudioTyped'
    BY <1>1, <1>3 DEF AudioTyped
  <2>3. AudioNoted'
    <3>1. request' # "on"
      BY <1>3
    <3>2. request' = "none" => connected' = 0
      BY <1>1, <1>3 DEF AudioNoted
    <3>3. ~foreign' => connected' = 0
      BY <1>3
    <3> QED
      BY <1>2, <3>1, <3>2, <3>3 DEF AudioNoted
  <2> QED
    BY <2>1, <2>2, <2>3
<1>9. PageTypeOK'
  BY <1>1, <1>3, <1>4, <1>8 DEF PageTypeOK, AudioTyped, Frame
<1>10. DemonTypeOK'
  BY DEF Restart, DemonCutOff, DemonTypeOK
<1> QED
  BY <1>4, <1>6, <1>7, <1>8, <1>9, <1>10 DEF Kept, Noted, Page

-----------------------------------------------------------------------------
(* The theorems.                                                           *)

Invariant == Kept /\ DemonTypeOK

LEMMA InvariantInit == MCInit => Invariant
<1> SUFFICES ASSUME MCInit PROVE Invariant
  OBVIOUS
<1>1. ServerTyped
  <2>1. /\ mailbox = <<>> /\ events = <<>> /\ initial = <<>> /\ snapshot = NoFrame
        /\ 0 <= Mailbox /\ 0 <= Channel
    BY BoundsAssumption DEF MCInit, Init
  <2>2. /\ mailbox \in Seq(Frame) /\ Len(mailbox) = 0 /\ events \in Seq(BOOLEAN)
        /\ Len(events) = 0 /\ initial \in Seq(BOOLEAN)
    BY <2>1
  <2>3. changes \in [{"music", "click", "fault"} -> Nat]
    BY DEF MCInit, Init
  <2> QED
    BY <2>1, <2>2, <2>3, NoFrameTyped DEF MCInit, Init, ServerTyped
<1>2. PageTypeOK /\ Closed /\ TallyFollows
  <2>1. frames = <<>>
    BY DEF MCInit, PageInit
  <2>2. frames \in Seq(BOOLEAN)
    BY <2>1
  <2>3. PageTypeOK
    BY <2>2, NoFrameTyped DEF MCInit, PageInit, PageTypeOK
  <2> QED
    BY <2>1, <2>3 DEF MCInit, PageInit, Closed, TallyFollows
<1>3. Announced /\ Noted
  BY NoFrameTyped DEF MCInit, Init, PageInit, Announced, Noted, TrackNoted, AudioNoted
<1>4. DemonTypeOK
  BY DEF MCInit, DemonInit, DemonTypeOK
<1> QED
  BY <1>1, <1>2, <1>3, <1>4 DEF Invariant, Kept, Page

LEMMA InvariantNext == Invariant /\ [Next]_all => Invariant'
<1> SUFFICES ASSUME Invariant, [Next]_all PROVE Invariant'
  OBVIOUS
<1>1. /\ Kept /\ DemonTypeOK /\ ServerTyped /\ Announced /\ Noted
      /\ PageTypeOK /\ Closed /\ TallyFollows
  BY DEF Invariant, Kept, Page
<1>2. UNCHANGED page => PageTypeOK' /\ Closed' /\ TallyFollows'
  BY <1>1 DEF page, socket, audio, PageTypeOK, Closed, TallyFollows
<1>3. UNCHANGED demon => DemonTypeOK'
  BY <1>1 DEF demon, DemonTypeOK
<1>4. CASE ServerMoves /\ UNCHANGED demon
  <2>1. News /\ UNCHANGED page
    BY <1>1, <1>4, ServerNews DEF ServerMoves
  <2> QED
    BY <1>1, <1>2, <1>3, <1>4, <2>1, NewsKeeps, NewsNoted DEF Invariant, Kept, Page
<1>5. CASE DemonMoves
  <2>1. News /\ DemonTypeOK' /\ UNCHANGED page
    BY <1>1, <1>5, DemonNews DEF DemonMoves
  <2> QED
    BY <1>1, <1>2, <2>1, NewsKeeps, NewsNoted DEF Invariant, Kept, Page
<1>6. CASE PageStep /\ UNCHANGED demon
  BY <1>1, <1>3, <1>6, ClickKeeps, TimeoutKeeps, SocketKeeps, ReceiveKeeps, LostKeeps,
     RequestKeeps DEF PageStep, Invariant
<1>7. CASE Restart
  BY <1>1, <1>7, RestartKeeps DEF Invariant
<1>8. CASE UNCHANGED <<vars, page, demon>>
  <2>1. Noted'
    BY <1>1, <1>8 DEF vars, stream, page, audio, Noted, TrackNoted, AudioNoted
  <2> QED
    BY <1>1, <1>2, <1>3, <1>8, <2>1, ServerStill DEF Invariant, Kept, Page
<1> QED
  BY <1>4, <1>5, <1>6, <1>7, <1>8, Steps

LEMMA InvariantAlways == Spec => []Invariant
BY InvariantInit, InvariantNext, PTL DEF Spec

\* Every variable has its type: no channel holds more than it may, however many frames are
\* told to it (try_send, broadcast::Sender::send).
THEOREM TypeCorrect == Spec => []TypeOK
<1>1. Invariant => TypeOK
  BY TypeParts DEF Invariant, Kept, Page
<1> QED
  BY <1>1, InvariantAlways, PTL

\* What the server counts for an open socket, once it has read all, is whether the page
\* listens (sendListening, onopen, handle_socket).
THEOREM TallyIsRight == Spec => []TallyFollows
<1>1. Invariant => TallyFollows
  BY DEF Invariant, Kept, Page
<1> QED
  BY <1>1, InvariantAlways, PTL

\* player.js:97, 168: a page that would not connect again hears the current pipe or has its
\* request under way, though the generation it has noted may come from a frame that is older
\* than the pipe it was given.
THEOREM SkippingIsSafe == Spec => []SkipIsSafe
<1>1. Invariant => SkipIsSafe
  <2> SUFFICES ASSUME Invariant, connected = gen, connected # 0, ~cut, ~foreign
               PROVE  request = "asked" \/ (request = "on" /\ pipe = gen)
    BY DEF SkipIsSafe
  <2>1. /\ request \in {"none", "asked", "on", "over"} /\ pipe \in Nat /\ gen \in Nat
        /\ AudioNoted
    BY DEF Invariant, Kept, Page, PageTypeOK, ServerTyped, Noted
  <2> QED
    BY <2>1 DEF AudioNoted
<1> QED
  BY <1>1, InvariantAlways, PTL

\* A page knows of no generation that the server has not reached: what is on its way, what it
\* shows and what it has noted are of this run's past, or known to be of another run.
KnowsNoFuture ==
    /\ \A i \in 1..Len(mailbox) : mailbox[i].gen <= gen
    /\ track.track /\ ~old => track.gen <= gen
    /\ ~foreign => connected <= gen

THEOREM NoFutureIsKnown == Spec => []KnowsNoFuture
<1>1. Invariant => KnowsNoFuture
  BY DEF Invariant, Kept, Announced, Noted, TrackNoted, AudioNoted, KnowsNoFuture
<1> QED
  BY <1>1, InvariantAlways, PTL
=============================================================================
