------------------------------- MODULE Togedemon -------------------------------
(***************************************************************************)
(* src/bin/togedemon.rs: a thread that mirrors the server's is_playing from *)
(* the event feed, and a loop that captures Spotify's audio and pushes it,  *)
(* with a wait between two attempts that the mirror may cut short.  The     *)
(* sink is that of the Spotify application on the machine of the togedemon, *)
(* which need not be the device that plays.                                 *)
(***************************************************************************)
EXTENDS Updates

VARIABLES
    sink,       \* Spotify's sink input: none, silent or sounding
    mirror,     \* server_playing
    pc          \* detect, push, streaming, wait (cut short by the mirror) or rest

demon == <<sink, mirror, pc>>

DemonInit ==
    sink \in {"none", "silent", "sounding"} /\ mirror = FALSE /\ pc = "detect"

-----------------------------------------------------------------------------
(* server_monitor.                                                         *)

FeedReads ==
    /\ feed = "up"
    /\ \/ initial # <<>> /\ mirror' = Head(initial)
          /\ initial' = <<>> /\ UNCHANGED events
       \/ initial = <<>> /\ events # <<>> /\ mirror' = Head(events)
          /\ events' = Tail(events) /\ UNCHANGED initial
    /\ UNCHANGED <<sink, pc, stream, link, snapshot, mailbox, feed, changes>>

\* The connection is lost, or has been silent for a minute; the mirror stays as it is.
FeedLost ==
    /\ feed # "down"
    /\ Outside("fault")
    /\ Unfed
    /\ UNCHANGED <<demon, stream, link, snapshot, mailbox>>

-----------------------------------------------------------------------------
(* run_once, and the waits of the main loop.                               *)

Goto(from, to) == pc = from /\ pc' = to

Detect ==
    /\ Goto("detect", IF sink = "none" THEN "wait" ELSE "push")
    /\ UNCHANGED <<sink, mirror, vars>>

\* A push without sound ends by itself and is tried again: its number is bounded.
PushArrives ==
    /\ Goto("push", "streaming")
    /\ IF sink = "sounding" THEN UNCHANGED changes ELSE Outside("music")
    /\ GoLive
    /\ UNCHANGED <<sink, mirror, link, snapshot, feed, initial>>

\* A wrong token, the player switched off, or no connection.
PushRefused ==
    /\ Goto("push", "rest")
    /\ Outside("fault")
    /\ UNCHANGED <<sink, mirror, stream, link, snapshot, mailbox, feed, initial, events>>

\* The body of the push ends: after 5 seconds of silence, because parec has ended with the
\* stream it records, or with the connection.
PushEnds(cached) ==
    /\ \/ sink = "silent" /\ Goto("streaming", "wait") /\ UNCHANGED changes
       \/ sink = "none" /\ Goto("streaming", "detect") /\ UNCHANGED changes
       \/ Goto("streaming", "rest") /\ Outside("fault")
    /\ GoOff(cached)
    /\ UNCHANGED <<sink, mirror, link, snapshot, feed, initial>>

\* Mutated WaitEnds: nothing but the mirror ends a wait.
WaitForPlayback ==
    /\ mirror
    /\ Goto("wait", "detect")
    /\ UNCHANGED <<sink, mirror, vars>>

\* wait_for_playback: the time is up, or the mirror says playing.
WaitEnds ==
    /\ Goto("wait", "detect")
    /\ UNCHANGED <<sink, mirror, vars>>

RestEnds ==
    /\ Goto("rest", "detect")
    /\ UNCHANGED <<sink, mirror, vars>>

SinkChanges ==
    /\ Outside("music")
    /\ \E s \in {"none", "silent", "sounding"} : s # sink /\ sink' = s
    /\ UNCHANGED <<mirror, pc, stream, link, snapshot, mailbox, feed, initial, events>>

\* What the restart of the server does to the togedemon.
DemonCutOff ==
    /\ pc' = IF pc = "streaming" THEN "rest" ELSE pc
    /\ UNCHANGED <<sink, mirror>>

DemonStep ==
    \/ FeedReads \/ FeedLost
    \/ Detect \/ PushArrives \/ PushRefused \/ WaitEnds \/ RestEnds \/ SinkChanges
    \/ \E cached \in BOOLEAN : PushEnds(cached)

-----------------------------------------------------------------------------
(* Properties.                                                             *)

\* Every variable has its type.
DemonTypeOK ==
    /\ sink \in {"none", "silent", "sounding"}
    /\ mirror \in BOOLEAN
    /\ pc \in {"detect", "push", "streaming", "wait", "rest"}

\* Once nothing happens any more, a Spotify that sounds is live on the server, whatever the
\* mirror says: a stale mirror costs a wait and no more (wait_for_playback).
SoundGoesLive == <>[](sink = "sounding" => live)
=============================================================================
