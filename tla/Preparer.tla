------------------------------- MODULE Preparer -------------------------------
(***************************************************************************)
(* TrackPreparer of src/audio/prepare.rs: prepare_track run by several     *)
(* tasks at once.  The first task to ask for a track leads and downloads   *)
(* it, the others follow it; one download_lock serialises the leaders, and *)
(* a failed track rests for a cooldown before it is tried again.           *)
(*                                                                         *)
(* Each mutex of the code is held for one step here.  Between two of them, *)
(* and at every await, any other task may run.                             *)
(***************************************************************************)
EXTENDS Naturals, Sequences

CONSTANTS
    Caller,     \* tasks that call prepare_track
    Track,
    NoCaller,   \* nobody
    NoTrack,    \* a task that prepares nothing
    NoLibrespot \* the --no-librespot flag

ASSUME CallerAssumption == NoCaller \notin Caller
ASSUME TrackAssumption == NoTrack \notin Track
ASSUME FlagAssumption == NoLibrespot \in BOOLEAN

VARIABLES
    pc,             \* where each task is in prepare_track
    track,          \* the track each task prepares
    result,         \* what prepare_inner, or the recheck before it, came to
    leader,         \* whose watch channel a follower waits on
    inFlight,       \* keys of TrackPreparer.in_flight
    cooldown,       \* TrackPreparer.failed: why each track rests, if it does
    holder,         \* the task that holds download_lock
    waiting,        \* the tasks queued for download_lock, first come first served
    cached          \* tracks that get_path answers with a path

task == <<pc, track, result, leader>>
shared == <<inFlight, cooldown, holder, waiting>>
vars == <<task, shared, cached>>

Init ==
    /\ pc = [p \in Caller |-> "idle"]
    /\ track = [p \in Caller |-> NoTrack]
    /\ result = [p \in Caller |-> "none"]
    /\ leader = [p \in Caller |-> NoCaller]
    /\ inFlight = {}
    /\ cooldown = [t \in Track |-> "none"]
    /\ holder = NoCaller /\ waiting = <<>>
    /\ cached \in SUBSET Track

Goto(p, from, to) == pc[p] = from /\ pc' = [pc EXCEPT ![p] = to]

\* prepare_track returns to its caller.
Return(p, from) ==
    /\ Goto(p, from, "idle")
    /\ track' = [track EXCEPT ![p] = NoTrack]
    /\ result' = [result EXCEPT ![p] = "none"]
    /\ leader' = [leader EXCEPT ![p] = NoCaller]

-----------------------------------------------------------------------------
(* prepare_track.                                                          *)

\* A call for a track that is cached returns at once and changes nothing.
Call(p, t) ==
    /\ t \notin cached
    /\ Goto(p, "idle", "cooldown")
    /\ track' = [track EXCEPT ![p] = t]
    /\ UNCHANGED <<result, leader, shared, cached>>

Resting(p) ==
    /\ Return(p, "cooldown")
    /\ cooldown[track[p]] # "none"
    /\ UNCHANGED <<shared, cached>>

NotResting(p) ==
    /\ Goto(p, "cooldown", "role")
    /\ cooldown[track[p]] = "none"
    /\ UNCHANGED <<track, result, leader, shared, cached>>

\* Mutated Lead: in_flight is read under one lock and written under another.
LeadUnchecked(p) ==
    /\ Goto(p, "role", "queue")
    /\ inFlight' = inFlight \cup {track[p]}
    /\ waiting' = Append(waiting, p)
    /\ UNCHANGED <<track, result, leader, cooldown, holder, cached>>

Lead(p) ==
    /\ Goto(p, "role", "queue")
    /\ track[p] \notin inFlight
    /\ inFlight' = inFlight \cup {track[p]}
    /\ waiting' = Append(waiting, p)
    /\ UNCHANGED <<track, result, leader, cooldown, holder, cached>>

\* A follower clones the receiver of the channel whose sender the leader owns.
Follow(p) ==
    /\ Goto(p, "role", "follow")
    /\ track[p] \in inFlight
    /\ \E q \in Caller :
          /\ pc[q] \in {"queue", "recheck", "recheckResting", "librespot", "ytdlp",
                        "record", "unflag"}
          /\ track[q] = track[p]
          /\ leader' = [leader EXCEPT ![p] = q]
    /\ UNCHANGED <<track, result, shared, cached>>

\* changed() returns because the sender is gone; a last get_path then decides
\* between Ok and Busy.
Woken(p) ==
    /\ leader[p] = NoCaller
    /\ Return(p, "follow")
    /\ UNCHANGED <<shared, cached>>

\* The 60 seconds of a follower are over, with the same last look at the cache.
FollowTimeout(p) ==
    /\ leader[p] # NoCaller
    /\ Return(p, "follow")
    /\ UNCHANGED <<shared, cached>>

-----------------------------------------------------------------------------
(* execute_prepare, with its InFlightGuard.                                *)

Acquire(p) ==
    /\ holder = NoCaller /\ waiting # <<>> /\ Head(waiting) = p
    /\ Goto(p, "queue", "recheck")
    /\ holder' = p /\ waiting' = Tail(waiting)
    /\ UNCHANGED <<track, result, leader, inFlight, cooldown, cached>>

\* The block that holds download_lock ends with r.
Finish(p, r) ==
    /\ pc' = [pc EXCEPT ![p] = "record"]
    /\ result' = [result EXCEPT ![p] = r]
    /\ holder' = NoCaller
    /\ UNCHANGED <<track, leader, inFlight, cooldown, waiting>>

RecheckCached(p) ==
    /\ pc[p] = "recheck"
    /\ track[p] \in cached
    /\ Finish(p, "ok")
    /\ UNCHANGED cached

\* Mutated RecheckMissing: no second look at the cache under download_lock.
RecheckAnyway(p) ==
    /\ Goto(p, "recheck", "recheckResting")
    /\ UNCHANGED <<track, result, leader, shared, cached>>

RecheckMissing(p) ==
    /\ Goto(p, "recheck", "recheckResting")
    /\ track[p] \notin cached
    /\ UNCHANGED <<track, result, leader, shared, cached>>

RecheckResting(p) ==
    /\ pc[p] = "recheckResting"
    /\ cooldown[track[p]] # "none"
    /\ Finish(p, "busy")
    /\ UNCHANGED cached

\* prepare_inner: librespot first if use_librespot() says so at this moment, which
\* --no-librespot rules out and else follows the plan of the account.
StartFetch(p) ==
    /\ \E source \in {"librespot", "ytdlp"} :
          /\ NoLibrespot => source = "ytdlp"
          /\ Goto(p, "recheckResting", source)
    /\ cooldown[track[p]] = "none"
    /\ UNCHANGED <<track, result, leader, shared, cached>>

FallBack(p) ==
    /\ Goto(p, "librespot", "ytdlp")
    /\ UNCHANGED <<track, result, leader, shared, cached>>

\* The fetcher lands the file and puts it in the cache before it returns.
FetchOk(p) ==
    /\ pc[p] \in {"librespot", "ytdlp"}
    /\ Finish(p, "ok")
    /\ cached' = cached \cup {track[p]}

FetchFails(p) ==
    /\ pc[p] = "ytdlp"
    /\ \E r \in {"nosource", "failed"} : Finish(p, r)
    /\ UNCHANGED cached

\* The failed map learns the result while the track is still in flight.
Record(p) ==
    /\ Goto(p, "record", "unflag")
    /\ \/ result[p] = "ok" /\ cooldown' = [cooldown EXCEPT ![track[p]] = "none"]
       \/ result[p] = "busy" /\ UNCHANGED cooldown
       \/ /\ result[p] \in {"nosource", "failed"}
          /\ cooldown' = [cooldown EXCEPT ![track[p]] = result[p]]
    /\ UNCHANGED <<track, result, leader, inFlight, holder, waiting, cached>>

\* InFlightGuard::drop, then the drop of its sender.
Unflag(p) ==
    /\ Goto(p, "unflag", "notify")
    /\ inFlight' = inFlight \ {track[p]}
    /\ UNCHANGED <<track, result, leader, cooldown, holder, waiting, cached>>

\* Mutated Notify: the sender outlives the attempt, so no follower is woken.
NotifyNobody(p) ==
    /\ Goto(p, "notify", "idle")
    /\ track' = [track EXCEPT ![p] = NoTrack]
    /\ result' = [result EXCEPT ![p] = "none"]
    /\ UNCHANGED <<leader, shared, cached>>

Notify(p) ==
    /\ Goto(p, "notify", "idle")
    /\ track' = [track EXCEPT ![p] = NoTrack]
    /\ result' = [result EXCEPT ![p] = "none"]
    /\ leader' = [q \in Caller |-> IF leader[q] = p THEN NoCaller ELSE leader[q]]
    /\ UNCHANGED <<shared, cached>>

-----------------------------------------------------------------------------
(* The environment: a cooldown runs out, the cache loses a track (eviction, *)
(* clear, a file deleted by hand).                                          *)

Expire(t) ==
    /\ cooldown[t] # "none"
    /\ cooldown' = [cooldown EXCEPT ![t] = "none"]
    /\ UNCHANGED <<task, inFlight, holder, waiting, cached>>

CacheDrops(t) ==
    /\ t \in cached
    /\ cached' = cached \ {t}
    /\ UNCHANGED <<task, shared>>

-----------------------------------------------------------------------------
\* The steps a task takes by itself once it has called prepare_track.
Progress(p) ==
    \/ Resting(p) \/ NotResting(p) \/ Lead(p) \/ Follow(p)
    \/ Woken(p)
    \/ Acquire(p) \/ RecheckCached(p) \/ RecheckMissing(p) \/ RecheckResting(p)
    \/ StartFetch(p) \/ FallBack(p) \/ FetchOk(p) \/ FetchFails(p)
    \/ Record(p) \/ Unflag(p) \/ Notify(p)

Environment == \E t \in Track : Expire(t) \/ CacheDrops(t)

Next ==
    \/ \E p \in Caller : Progress(p) \/ FollowTimeout(p) \/ \E t \in Track : Call(p, t)
    \/ Environment

Spec == Init /\ [][Next]_vars

\* Tasks are scheduled and every download ends; the 60-second timeout is not
\* relied on.
FairSpec == Spec /\ \A p \in Caller : WF_vars(Progress(p))

-----------------------------------------------------------------------------
(* Properties.                                                             *)

Leading == {p \in Caller : pc[p] \in {"queue", "recheck", "recheckResting", "librespot",
                                      "ytdlp", "record", "unflag"}}
Fetching == {p \in Caller : pc[p] \in {"librespot", "ytdlp"}}

\* Tracks whose last attempt failed and whose cooldown has not run out, from the
\* moment the attempt ends.
Owed == {t \in Track : cooldown[t] # "none"}
        \cup {track[p] : p \in {q \in Caller : /\ pc[q] = "record"
                                              /\ result[q] \in {"nosource", "failed"}}}

\* Every variable has its type.
TypeOK ==
    /\ pc \in [Caller -> {"idle", "cooldown", "role", "follow", "queue", "recheck",
                          "recheckResting", "librespot", "ytdlp", "record", "unflag", "notify"}]
    /\ track \in [Caller -> Track \cup {NoTrack}]
    /\ \A p \in Caller : pc[p] # "idle" => track[p] \in Track
    /\ result \in [Caller -> {"none", "ok", "busy", "nosource", "failed"}]
    /\ leader \in [Caller -> Caller \cup {NoCaller}]
    /\ inFlight \subseteq Track
    /\ cooldown \in [Track -> {"none", "nosource", "failed"}]
    /\ holder \in Caller \cup {NoCaller} /\ waiting \in Seq(Caller)
    /\ cached \subseteq Track

\* A track is in in_flight exactly while one task leads it: an entry without a
\* leader would make the track unpreparable, two leaders would download it twice.
InFlightHasOneLeader ==
    /\ inFlight = {track[p] : p \in Leading}
    /\ \A p, q \in Leading : track[p] = track[q] => p = q

\* No download of a track that is cached, or whose last attempt failed less than a
\* cooldown ago, even if the check before it is as old as the wait for the lock and
\* another task failed on the track meanwhile.
NoWastedFetch == \A p \in Fetching : track[p] \notin cached \cup Owed

\* A failure never overwrites a cooldown that is still running: the ten minutes of
\* a track without a source are not cut to the thirty seconds of a failed download.
CooldownNotReplaced ==
    [][\A t \in Track : cooldown[t] # "none" => cooldown'[t] \in {cooldown[t], "none"}]_vars

\* prepare_track always returns, followers without help of their timeout: the
\* leader's guard wakes them however the attempt ended.
EveryCallReturns == \A p \in Caller : pc[p] # "idle" ~> pc[p] = "idle"

Policy == INSTANCE FetchPolicy WITH
    owed <- Owed,
    fetching <- IF Fetching = {} THEN NoTrack ELSE track[CHOOSE p \in Fetching : TRUE]

\* With its roles, locks and channels hidden, prepare_track does what FetchPolicy
\* promises: one download at a time, started only for a track that is neither cached
\* nor resting, whose outcome is recorded in the cache or as a cooldown.
ImplementsPolicy == Policy!Spec
=============================================================================
