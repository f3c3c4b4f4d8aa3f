---------------------------- MODULE PreparerProofs ----------------------------
(***************************************************************************)
(* What Preparer guarantees for any number of tasks and tracks.            *)
(***************************************************************************)
EXTENDS Preparer, TLAPS

\* Every step keeps the types.
LEMMA TypeStep ==
    ASSUME TypeOK, [Next]_vars
    PROVE  TypeOK'
<1> USE DEF TypeOK, task, shared
<1>1. ASSUME NEW p \in Caller, NEW t \in Track, Call(p, t) PROVE TypeOK'
  BY <1>1 DEF Call, Goto
<1>2. ASSUME NEW p \in Caller, Resting(p) PROVE TypeOK'
  BY <1>2, CallerAssumption DEF Resting, Return, Goto
<1>3. ASSUME NEW p \in Caller, NotResting(p) PROVE TypeOK'
  BY <1>3 DEF NotResting, Goto
<1>4. ASSUME NEW p \in Caller, Lead(p) PROVE TypeOK'
  BY <1>4 DEF Lead, Goto
<1>5. ASSUME NEW p \in Caller, Follow(p) PROVE TypeOK'
  BY <1>5 DEF Follow, Goto
<1>6. ASSUME NEW p \in Caller, Woken(p) PROVE TypeOK'
  BY <1>6, CallerAssumption DEF Woken, Return, Goto
<1>7. ASSUME NEW p \in Caller, FollowTimeout(p) PROVE TypeOK'
  BY <1>7, CallerAssumption DEF FollowTimeout, Return, Goto
<1>8. ASSUME NEW p \in Caller, Acquire(p) PROVE TypeOK'
  BY <1>8 DEF Acquire, Goto
<1>9. ASSUME NEW p \in Caller, RecheckCached(p) PROVE TypeOK'
  BY <1>9 DEF RecheckCached, Finish
<1>10. ASSUME NEW p \in Caller, RecheckMissing(p) PROVE TypeOK'
  BY <1>10 DEF RecheckMissing, Goto
<1>11. ASSUME NEW p \in Caller, RecheckResting(p) PROVE TypeOK'
  BY <1>11 DEF RecheckResting, Finish
<1>12. ASSUME NEW p \in Caller, StartFetch(p) PROVE TypeOK'
  BY <1>12 DEF StartFetch, Goto
<1>13. ASSUME NEW p \in Caller, FallBack(p) PROVE TypeOK'
  BY <1>13 DEF FallBack, Goto
<1>14. ASSUME NEW p \in Caller, FetchOk(p) PROVE TypeOK'
  BY <1>14 DEF FetchOk, Finish
<1>15. ASSUME NEW p \in Caller, FetchFails(p) PROVE TypeOK'
  BY <1>15 DEF FetchFails, Finish
<1>16. ASSUME NEW p \in Caller, Record(p) PROVE TypeOK'
  BY <1>16 DEF Record, Goto
<1>17. ASSUME NEW p \in Caller, Unflag(p) PROVE TypeOK'
  BY <1>17 DEF Unflag, Goto
<1>18. ASSUME NEW p \in Caller, Notify(p) PROVE TypeOK'
  BY <1>18, CallerAssumption DEF Notify, Goto
<1>19. ASSUME NEW t \in Track, Expire(t) \/ CacheDrops(t) PROVE TypeOK'
  BY <1>19 DEF Expire, CacheDrops
<1>20. CASE UNCHANGED vars
  BY <1>20 DEF vars
<1> QED
  BY <1>1, <1>2, <1>3, <1>4, <1>5, <1>6, <1>7, <1>8, <1>9, <1>10, <1>11, <1>12, <1>13,
   <1>14, <1>15, <1>16, <1>17, <1>18, <1>19, <1>20 DEF Next, Progress, Environment

\* Every variable of Preparer keeps its type, whatever the tasks do.
THEOREM TypeCorrect == Spec => []TypeOK
<1>1. Init => TypeOK
  BY CallerAssumption, TrackAssumption DEF Init, TypeOK
<1>2. TypeOK /\ [Next]_vars => TypeOK'
  BY TypeStep
<1> QED
  BY <1>1, <1>2, PTL DEF Spec
-----------------------------------------------------------------------------
(* The inductive invariant: who holds download_lock, and what its holder   *)
(* has learnt under it stays true until it lets go.                        *)

LockHeld ==
    \A p \in Caller :
        pc[p] \in {"recheck", "recheckResting", "librespot", "ytdlp"} => holder = p

\* Nobody else can add to the cache while p holds the lock.
StillMissing ==
    \A p \in Caller :
        pc[p] \in {"recheckResting", "librespot", "ytdlp"} => track[p] \notin cached

\* Only the leader of a track records its failure, and it does so once.
StillRested ==
    \A p \in Caller :
        \/ p \in Fetching
        \/ pc[p] = "record" /\ result[p] \in {"nosource", "failed"}
        => cooldown[track[p]] = "none"

IInv == TypeOK /\ InFlightHasOneLeader /\ LockHeld /\ StillMissing /\ StillRested

\* The lock makes the downloading task unique.
LEMMA OneFetch ==
    ASSUME LockHeld, NEW p \in Fetching
    PROVE  Fetching = {p}
BY DEF LockHeld, Fetching

\* The invariant holds at the start.
LEMMA InductiveInit == Init => IInv
BY CallerAssumption, TrackAssumption
   DEF Init, IInv, TypeOK, InFlightHasOneLeader, LockHeld, StillMissing, StillRested,
       Leading, Fetching

\* download_lock stays with the task that is inside it.
LEMMA LockStep ==
    ASSUME IInv, [Next]_vars
    PROVE  LockHeld'
<1> USE DEF IInv, TypeOK, LockHeld, task, shared
<1>1. ASSUME NEW p \in Caller, NEW t \in Track, Call(p, t) PROVE LockHeld'
  BY <1>1 DEF Call, Goto
<1>2. ASSUME NEW p \in Caller, \/ Resting(p) \/ NotResting(p) \/ Lead(p) \/ Follow(p)
                               \/ Woken(p) \/ FollowTimeout(p)
      PROVE  LockHeld'
  BY <1>2 DEF Resting, NotResting, Lead, Follow, Woken, FollowTimeout, Return, Goto
<1>3. ASSUME NEW p \in Caller, Acquire(p) PROVE LockHeld'
  BY <1>3, CallerAssumption DEF Acquire, Goto
<1>4. ASSUME NEW p \in Caller, \/ RecheckCached(p) \/ RecheckResting(p)
                               \/ FetchOk(p) \/ FetchFails(p)
      PROVE  LockHeld'
  BY <1>4, CallerAssumption DEF RecheckCached, RecheckResting, FetchOk, FetchFails, Finish
<1>5. ASSUME NEW p \in Caller, RecheckMissing(p) \/ StartFetch(p) \/ FallBack(p)
      PROVE  LockHeld'
  BY <1>5 DEF RecheckMissing, StartFetch, FallBack, Goto
<1>6. ASSUME NEW p \in Caller, Record(p) \/ Unflag(p) \/ Notify(p) PROVE LockHeld'
  BY <1>6 DEF Record, Unflag, Notify, Goto
<1>7. ASSUME NEW t \in Track, Expire(t) \/ CacheDrops(t) PROVE LockHeld'
  BY <1>7 DEF Expire, CacheDrops
<1>8. CASE UNCHANGED vars
  BY <1>8 DEF vars
<1> QED
  BY <1>1, <1>2, <1>3, <1>4, <1>5, <1>6, <1>7, <1>8 DEF Next, Progress, Environment

\* in_flight gains a track with its leader and loses it with it.
LEMMA LeaderStep ==
    ASSUME IInv, [Next]_vars
    PROVE  InFlightHasOneLeader'
<1> USE DEF IInv, TypeOK, InFlightHasOneLeader, Leading, task, shared
<1>1. ASSUME NEW p \in Caller, NEW t \in Track, Call(p, t) PROVE InFlightHasOneLeader'
  BY <1>1 DEF Call, Goto
<1>2. ASSUME NEW p \in Caller, \/ Resting(p) \/ NotResting(p) \/ Follow(p)
                               \/ Woken(p) \/ FollowTimeout(p)
      PROVE  InFlightHasOneLeader'
  BY <1>2 DEF Resting, NotResting, Follow, Woken, FollowTimeout, Return, Goto
<1>3. ASSUME NEW p \in Caller, Lead(p) PROVE InFlightHasOneLeader'
  BY <1>3 DEF Lead, Goto
<1>4. ASSUME NEW p \in Caller, \/ RecheckCached(p) \/ RecheckResting(p)
                               \/ FetchOk(p) \/ FetchFails(p)
      PROVE  InFlightHasOneLeader'
  BY <1>4 DEF RecheckCached, RecheckResting, FetchOk, FetchFails, Finish
<1>5. ASSUME NEW p \in Caller, Acquire(p) \/ RecheckMissing(p) \/ StartFetch(p) \/ FallBack(p)
      PROVE  InFlightHasOneLeader'
  <2>1. Leading' = Leading
    BY <1>5 DEF Acquire, RecheckMissing, StartFetch, FallBack, Goto
  <2>2. UNCHANGED <<track, inFlight>>
    BY <1>5 DEF Acquire, RecheckMissing, StartFetch, FallBack
  <2> QED
    BY <2>1, <2>2
<1>6. ASSUME NEW p \in Caller, Record(p) PROVE InFlightHasOneLeader'
  BY <1>6 DEF Record, Goto
<1>7. ASSUME NEW p \in Caller, Unflag(p) PROVE InFlightHasOneLeader'
  BY <1>7 DEF Unflag, Goto
<1>8. ASSUME NEW p \in Caller, Notify(p) PROVE InFlightHasOneLeader'
  BY <1>8 DEF Notify, Goto
<1>9. ASSUME NEW t \in Track, Expire(t) \/ CacheDrops(t) PROVE InFlightHasOneLeader'
  BY <1>9 DEF Expire, CacheDrops
<1>10. CASE UNCHANGED vars
  BY <1>10 DEF vars
<1> QED
  BY <1>1, <1>2, <1>3, <1>4, <1>5, <1>6, <1>7, <1>8, <1>9, <1>10
  DEF Next, Progress, Environment
\* A track found missing under the lock stays missing until its leader is done.
LEMMA MissingStep ==
    ASSUME IInv, [Next]_vars
    PROVE  StillMissing'
<1> USE DEF IInv, TypeOK, StillMissing, task, shared
<1>1. ASSUME NEW p \in Caller, NEW t \in Track, Call(p, t) PROVE StillMissing'
  BY <1>1 DEF Call, Goto
<1>2. ASSUME NEW p \in Caller, \/ Resting(p) \/ NotResting(p) \/ Lead(p) \/ Follow(p)
                               \/ Woken(p) \/ FollowTimeout(p) \/ Acquire(p)
      PROVE  StillMissing'
  BY <1>2 DEF Resting, NotResting, Lead, Follow, Woken, FollowTimeout, Acquire, Return, Goto
<1>3. ASSUME NEW p \in Caller, RecheckCached(p) \/ RecheckResting(p) \/ FetchFails(p)
      PROVE  StillMissing'
  BY <1>3 DEF RecheckCached, RecheckResting, FetchFails, Finish
<1>4. ASSUME NEW p \in Caller, FetchOk(p) PROVE StillMissing'
  \* p holds the lock, so nobody else is past the recheck.
  BY <1>4 DEF FetchOk, Finish, LockHeld
<1>5. ASSUME NEW p \in Caller, RecheckMissing(p) \/ StartFetch(p) \/ FallBack(p)
      PROVE  StillMissing'
  BY <1>5 DEF RecheckMissing, StartFetch, FallBack, Goto
<1>6. ASSUME NEW p \in Caller, Record(p) \/ Unflag(p) \/ Notify(p) PROVE StillMissing'
  BY <1>6 DEF Record, Unflag, Notify, Goto
<1>7. ASSUME NEW t \in Track, Expire(t) \/ CacheDrops(t) PROVE StillMissing'
  BY <1>7 DEF Expire, CacheDrops
<1>8. CASE UNCHANGED vars
  BY <1>8 DEF vars
<1> QED
  BY <1>1, <1>2, <1>3, <1>4, <1>5, <1>6, <1>7, <1>8 DEF Next, Progress, Environment

\* A track found rested under the lock stays so until its leader records a failure.
LEMMA RestedStep ==
    ASSUME IInv, [Next]_vars
    PROVE  StillRested'
<1> USE DEF IInv, TypeOK, StillRested, Fetching, task, shared
<1>1. ASSUME NEW p \in Caller, NEW t \in Track, Call(p, t) PROVE StillRested'
  BY <1>1 DEF Call, Goto
<1>2. ASSUME NEW p \in Caller, \/ Resting(p) \/ NotResting(p) \/ Lead(p) \/ Follow(p)
                               \/ Woken(p) \/ FollowTimeout(p) \/ Acquire(p)
      PROVE  StillRested'
  BY <1>2 DEF Resting, NotResting, Lead, Follow, Woken, FollowTimeout, Acquire, Return, Goto
<1>3. ASSUME NEW p \in Caller, \/ RecheckCached(p) \/ RecheckResting(p)
                               \/ FetchOk(p) \/ FetchFails(p)
      PROVE  StillRested'
  BY <1>3 DEF RecheckCached, RecheckResting, FetchOk, FetchFails, Finish
<1>4. ASSUME NEW p \in Caller, RecheckMissing(p) \/ FallBack(p) PROVE StillRested'
  BY <1>4 DEF RecheckMissing, FallBack, Goto
<1>5. ASSUME NEW p \in Caller, StartFetch(p) PROVE StillRested'
  BY <1>5 DEF StartFetch, Goto
<1>6. ASSUME NEW p \in Caller, Record(p) PROVE StillRested'
  \* No other task leads the track whose cooldown p sets.
  BY <1>6 DEF Record, Goto, InFlightHasOneLeader, Leading
<1>7. ASSUME NEW p \in Caller, Unflag(p) \/ Notify(p) PROVE StillRested'
  BY <1>7 DEF Unflag, Notify, Goto
<1>8. ASSUME NEW t \in Track, Expire(t) \/ CacheDrops(t) PROVE StillRested'
  BY <1>8 DEF Expire, CacheDrops
<1>9. CASE UNCHANGED vars
  BY <1>9 DEF vars
<1> QED
  BY <1>1, <1>2, <1>3, <1>4, <1>5, <1>6, <1>7, <1>8, <1>9 DEF Next, Progress, Environment

\* What a task learns or does under download_lock rests on the lock, on being the
\* only leader of its track, and on facts that nobody else can undo.
THEOREM InductiveInvariant == Spec => []IInv
<1>1. IInv /\ [Next]_vars => IInv'
  BY TypeStep, LeaderStep, LockStep, MissingStep, RestedStep DEF IInv
<1> QED
  BY InductiveInit, <1>1, PTL DEF Spec

\* in_flight holds exactly the tracks that have a leader, and each has one.
THEOREM OneLeader == Spec => []InFlightHasOneLeader
<1>1. IInv => InFlightHasOneLeader
  BY DEF IInv
<1> QED
  BY InductiveInvariant, <1>1, PTL

\* No track that is cached or rests is ever downloaded, although the checks of
\* prepare_track are stale by the time its leader holds download_lock.
THEOREM NothingWasted == Spec => []NoWastedFetch
<1>1. IInv => NoWastedFetch
  <2> SUFFICES ASSUME IInv, NEW p \in Fetching
               PROVE  track[p] \notin cached /\ track[p] \notin Owed
    BY DEF NoWastedFetch
  <2>1. p \in Caller /\ p \in Leading /\ pc[p] \in {"librespot", "ytdlp"}
    BY DEF Fetching, Leading
  <2>2. track[p] \notin cached
    BY <2>1 DEF IInv, StillMissing
  <2>3. cooldown[track[p]] = "none"
    BY <2>1 DEF IInv, StillRested
  <2>4. ASSUME NEW q \in Caller, pc[q] = "record" PROVE track[q] # track[p]
    BY <2>1, <2>4 DEF IInv, InFlightHasOneLeader, Leading
  <2> QED
    BY <2>2, <2>3, <2>4 DEF Owed
<1> QED
  BY InductiveInvariant, <1>1, PTL

\* A cooldown that runs is never replaced by another one.
THEOREM CooldownStands == Spec => CooldownNotReplaced
<1> DEFINE Stands == \A t \in Track : cooldown[t] # "none" => cooldown'[t] \in {cooldown[t], "none"}
<1>1. IInv /\ [Next]_vars => [Stands]_vars
  <2> SUFFICES ASSUME IInv, Next PROVE Stands
    OBVIOUS
  <2> USE DEF IInv, TypeOK, task, shared
  <2>1. ASSUME NEW p \in Caller, Record(p) PROVE Stands
    BY <2>1 DEF Record, Goto, StillRested
  <2>2. ASSUME NEW t \in Track, Expire(t) PROVE Stands
    BY <2>2 DEF Expire
  <2>3. ASSUME UNCHANGED cooldown PROVE Stands
    BY <2>3
  <2>4. ASSUME NEW p \in Caller, NEW t \in Track, Call(p, t) PROVE UNCHANGED cooldown
    BY <2>4 DEF Call
  <2>5. ASSUME NEW p \in Caller, \/ Resting(p) \/ NotResting(p) \/ Lead(p) \/ Follow(p)
                                 \/ Woken(p) \/ FollowTimeout(p) \/ Acquire(p)
        PROVE  UNCHANGED cooldown
    BY <2>5 DEF Resting, NotResting, Lead, Follow, Woken, FollowTimeout, Acquire
  <2>6. ASSUME NEW p \in Caller, \/ RecheckCached(p) \/ RecheckMissing(p) \/ RecheckResting(p)
                                 \/ StartFetch(p) \/ FallBack(p) \/ FetchOk(p) \/ FetchFails(p)
        PROVE  UNCHANGED cooldown
    BY <2>6 DEF RecheckCached, RecheckMissing, RecheckResting, StartFetch, FallBack, FetchOk,
                FetchFails, Finish
  <2>7. ASSUME NEW p \in Caller, Unflag(p) \/ Notify(p) PROVE UNCHANGED cooldown
    BY <2>7 DEF Unflag, Notify
  <2>8. ASSUME NEW t \in Track, CacheDrops(t) PROVE UNCHANGED cooldown
    BY <2>8 DEF CacheDrops
  <2> QED
    BY <2>1, <2>2, <2>3, <2>4, <2>5, <2>6, <2>7, <2>8 DEF Next, Progress, Environment
<1> QED
  BY InductiveInvariant, <1>1, PTL DEF Spec, CooldownNotReplaced

-----------------------------------------------------------------------------
(* Preparer implements FetchPolicy.                                        *)

Current == IF Fetching = {} THEN NoTrack ELSE track[CHOOSE p \in Fetching : TRUE]

\* The track the policy sees fetched is that of the task inside the lock.
LEMMA CurrentIs ==
    ASSUME LockHeld, NEW p \in Fetching
    PROVE  Current = track[p]
BY OneFetch DEF Current

\* The same for the state after a step.
LEMMA CurrentIsNext ==
    ASSUME LockHeld', NEW p \in Fetching'
    PROVE  Current' = track'[p]
<1>1. Fetching' = {p}
  BY DEF LockHeld, Fetching
<1> QED
  BY <1>1 DEF Current

\* It stays the same if the same task fetches the same track.
LEMMA CurrentKept ==
    ASSUME LockHeld, LockHeld', Fetching' = Fetching,
           \A p \in Fetching : track'[p] = track[p]
    PROVE  Current' = Current
<1>1. CASE Fetching = {}
  BY <1>1 DEF Current
<1>2. CASE Fetching # {}
  <2>1. PICK p \in Fetching : TRUE
    BY <1>2
  <2>2. Current = track[p]
    BY CurrentIs
  <2>3. Current' = track'[p]
    BY <2>1, CurrentIsNext
  <2> QED
    BY <2>2, <2>3
<1> QED
  BY <1>1, <1>2

\* At the start nothing is fetched and nothing rests.
LEMMA RefineInit == Init => Policy!Init
BY DEF Init, Policy!Init, Owed, Fetching

\* Steps of prepare_track and execute_prepare that the policy does not see.
LEMMA RefineUnseen ==
    ASSUME IInv, LockHeld', NEW p \in Caller,
           \/ \E t \in Track : Call(p, t)
           \/ Resting(p) \/ NotResting(p) \/ Lead(p) \/ Follow(p)
           \/ Woken(p) \/ FollowTimeout(p) \/ Acquire(p)
           \/ RecheckCached(p) \/ RecheckMissing(p) \/ RecheckResting(p)
           \/ FallBack(p) \/ Unflag(p) \/ Notify(p)
    PROVE  UNCHANGED Policy!vars
<1> USE DEF IInv, TypeOK, task, shared
<1>1. ASSUME NEW t \in Track, Call(p, t)
      PROVE  Fetching' = Fetching /\ UNCHANGED <<cached, Owed>>
             /\ \A q \in Fetching : track'[q] = track[q]
  BY <1>1 DEF Call, Goto, Fetching, Owed
<1>2. ASSUME \/ Resting(p) \/ NotResting(p) \/ Lead(p) \/ Follow(p)
             \/ Woken(p) \/ FollowTimeout(p) \/ Acquire(p)
      PROVE  Fetching' = Fetching /\ UNCHANGED <<cached, Owed>>
             /\ \A q \in Fetching : track'[q] = track[q]
  BY <1>2 DEF Resting, NotResting, Lead, Follow, Woken, FollowTimeout, Acquire, Return, Goto,
              Fetching, Owed
<1>3. ASSUME \/ RecheckCached(p) \/ RecheckMissing(p) \/ RecheckResting(p) \/ FallBack(p)
             \/ Unflag(p) \/ Notify(p)
      PROVE  Fetching' = Fetching /\ UNCHANGED <<cached, Owed>>
             /\ \A q \in Fetching : track'[q] = track[q]
  BY <1>3 DEF RecheckCached, RecheckMissing, RecheckResting, FallBack, Unflag, Notify, Finish,
              Goto, Fetching, Owed
<1>4. Fetching' = Fetching /\ UNCHANGED <<cached, Owed>> /\ \A q \in Fetching : track'[q] = track[q]
  BY <1>1, <1>2, <1>3
<1>5. Current' = Current
  BY <1>4, CurrentKept
<1> QED
  BY <1>4, <1>5 DEF Policy!vars, Current

\* A download starts with the lock free of any other download.
LEMMA RefineStart ==
    ASSUME IInv, LockHeld', NEW p \in Caller, StartFetch(p)
    PROVE  Policy!Start(track[p])
<1> USE DEF IInv, TypeOK, task, shared
<1>1. pc[p] = "recheckResting" /\ p \in Fetching' /\ UNCHANGED <<track, cooldown, result, cached>>
  BY DEF StartFetch, Goto, Fetching
<1>2. Fetching = {}
  BY <1>1 DEF LockHeld, Fetching
<1>3. Current = NoTrack /\ Current' = track[p]
  BY <1>1, <1>2, CurrentIsNext DEF Current
<1>4. track[p] \notin cached
  BY <1>1 DEF StillMissing
<1>5. ASSUME NEW q \in Caller, pc[q] = "record" PROVE track[q] # track[p]
  BY <1>1, <1>5 DEF InFlightHasOneLeader, Leading
<1>6. track[p] \notin Owed
  BY <1>5 DEF StartFetch, Owed
<1>7. Owed' = Owed
  BY <1>1 DEF StartFetch, Goto, Owed
<1> QED
  BY <1>1, <1>3, <1>4, <1>6, <1>7 DEF Policy!Start, Current

\* The end of a download, either way.
LEMMA RefineEnd ==
    ASSUME IInv, LockHeld', NEW p \in Caller, FetchOk(p) \/ FetchFails(p)
    PROVE  Policy!Succeed(track[p]) \/ Policy!Fail(track[p])
<1> USE DEF IInv, TypeOK, task, shared
<1>1. p \in Fetching /\ UNCHANGED <<track, cooldown>> /\ pc' = [pc EXCEPT ![p] = "record"]
  BY DEF FetchOk, FetchFails, Finish, Fetching
<1>2. Fetching = {p} /\ Current = track[p]
  BY <1>1, OneFetch, CurrentIs
<1>3. Fetching' = {}
  BY <1>1, <1>2 DEF Fetching
<1>4. Current' = NoTrack
  BY <1>3 DEF Current
<1>5. CASE FetchOk(p)
  <2>1. Owed' = Owed
    BY <1>1, <1>5 DEF FetchOk, Finish, Owed, Fetching
  <2> QED
    BY <1>2, <1>4, <1>5, <2>1 DEF FetchOk, Policy!Succeed, Current
<1>6. CASE FetchFails(p)
  <2>1. Owed' = Owed \cup {track[p]}
    BY <1>1, <1>6 DEF FetchFails, Finish, Owed, Fetching
  <2> QED
    BY <1>2, <1>4, <1>6, <2>1 DEF FetchFails, Policy!Fail, Current
<1> QED
  BY <1>5, <1>6

\* What a track owes moves from its leader to the failed map, or is forgiven.
LEMMA RefineRecord ==
    ASSUME IInv, LockHeld', NEW p \in Caller, Record(p)
    PROVE  UNCHANGED Policy!vars \/ Policy!Expire(track[p])
<1> USE DEF IInv, TypeOK, task, shared
<1>1. /\ pc[p] = "record" /\ pc' = [pc EXCEPT ![p] = "unflag"]
      /\ track[p] \in Track /\ UNCHANGED <<track, result, cached>>
  BY DEF Record, Goto
<1>2. Fetching' = Fetching
  BY <1>1 DEF Fetching
<1>3. Current' = Current
  BY <1>1, <1>2, CurrentKept
<1>4. ASSUME NEW q \in Caller, q # p, pc[q] = "record" PROVE track[q] # track[p]
  BY <1>1, <1>4 DEF InFlightHasOneLeader, Leading
<1>5. CASE result[p] = "ok"
  <2>1. cooldown' = [cooldown EXCEPT ![track[p]] = "none"]
    BY <1>5 DEF Record
  <2>2. Owed' = Owed \ {track[p]}
    BY <1>1, <1>4, <1>5, <2>1 DEF Owed
  <2> QED
    BY <1>1, <1>3, <2>2 DEF Policy!Expire, Current
<1>6. CASE result[p] = "busy"
  <2>1. Owed' = Owed
    BY <1>1, <1>6 DEF Record, Owed
  <2> QED
    BY <1>1, <1>3, <2>1 DEF Policy!vars, Current
<1>7. CASE result[p] \in {"nosource", "failed"}
  <2>1. cooldown' = [cooldown EXCEPT ![track[p]] = result[p]]
    BY <1>7 DEF Record
  <2>2. Owed' = Owed
    BY <1>1, <1>7, <2>1 DEF Owed
  <2> QED
    BY <1>1, <1>3, <2>2 DEF Policy!vars, Current
<1> QED
  BY <1>5, <1>6, <1>7 DEF Record

\* The end of a cooldown and the loss of a cached track are steps of the policy.
LEMMA RefineEnvironment ==
    ASSUME IInv, LockHeld', NEW t \in Track, Expire(t) \/ CacheDrops(t)
    PROVE  Policy!Expire(t) \/ Policy!Drop(t)
<1> USE DEF IInv, TypeOK, task, shared
<1>1. UNCHANGED <<pc, track, result>>
  BY DEF Expire, CacheDrops
<1>2. Current' = Current
  BY <1>1, CurrentKept DEF Fetching
<1>3. CASE Expire(t)
  <2>1. ASSUME NEW q \in Caller, pc[q] = "record", result[q] \in {"nosource", "failed"}
        PROVE  track[q] # t
    BY <1>3, <2>1 DEF Expire, StillRested
  <2>2. Owed' = Owed \ {t}
    BY <1>1, <1>3, <2>1 DEF Expire, Owed
  <2> QED
    BY <1>2, <1>3, <2>2 DEF Expire, Policy!Expire, Current
<1>4. CASE CacheDrops(t)
  <2>1. Owed' = Owed
    BY <1>1, <1>4 DEF CacheDrops, Owed
  <2> QED
    BY <1>2, <1>4, <2>1 DEF CacheDrops, Policy!Drop, Current
<1> QED
  BY <1>3, <1>4

\* prepare_track, run by any number of tasks on any number of tracks, does what
\* FetchPolicy promises.
THEOREM Implements == Spec => ImplementsPolicy
<1>1. IInv /\ IInv' /\ [Next]_vars => [Policy!Next]_Policy!vars
  <2> SUFFICES ASSUME IInv, IInv', [Next]_vars PROVE [Policy!Next]_Policy!vars
    OBVIOUS
  <2>1. LockHeld'
    BY DEF IInv
  <2>2. ASSUME NEW p \in Caller PROVE pc[p] # "idle" => track[p] \in Track
    BY DEF IInv, TypeOK
  <2>3. CASE UNCHANGED vars
    BY <2>3 DEF vars, task, shared, Policy!vars, Owed, Fetching
  <2>4. ASSUME NEW p \in Caller, StartFetch(p) PROVE Policy!Next
    BY <2>1, <2>2, <2>4, RefineStart DEF StartFetch, Goto, Policy!Next
  <2>5. ASSUME NEW p \in Caller, FetchOk(p) \/ FetchFails(p) PROVE Policy!Next
    BY <2>1, <2>2, <2>5, RefineEnd DEF FetchOk, FetchFails, Policy!Next
  <2>6. ASSUME NEW p \in Caller, Record(p) PROVE [Policy!Next]_Policy!vars
    BY <2>1, <2>2, <2>6, RefineRecord DEF Record, Goto, Policy!Next
  <2>7. ASSUME NEW t \in Track, Expire(t) \/ CacheDrops(t) PROVE Policy!Next
    BY <2>1, <2>7, RefineEnvironment DEF Policy!Next
  <2> QED
    BY <2>1, <2>3, <2>4, <2>5, <2>6, <2>7, RefineUnseen DEF Next, Progress, Environment
<1> QED
  BY RefineInit, InductiveInvariant, <1>1, PTL DEF Spec, ImplementsPolicy, Policy!Spec

-----------------------------------------------------------------------------
(* Who waits in prepare_track, and for whom.                               *)

Inside == {"recheck", "recheckResting", "librespot", "ytdlp"}

\* A follower that has not been woken has its leader, which is preparing the same track or
\* about to drop its sender.
Followed ==
    \A p \in Caller :
        leader[p] # NoCaller =>
            /\ pc[p] = "follow"
            /\ \/ leader[p] \in Leading /\ track[leader[p]] = track[p]
               \/ pc[leader[p]] = "notify"

\* A leader that wants download_lock is in its queue, once, and nobody else is.
Queued ==
    /\ \A p \in Caller : pc[p] = "queue" <=> \E i \in 1..Len(waiting) : waiting[i] = p
    /\ \A i, j \in 1..Len(waiting) : waiting[i] = waiting[j] => i = j

\* download_lock is held by a task that is inside it, or by none.
Inhabited == holder # NoCaller => pc[holder] \in Inside

NobodyStranded == Followed /\ Queued /\ Inhabited

\* A leader goes on with the track its followers wait for, and wakes them when it ends.
LEMMA FollowedStep ==
    ASSUME IInv, Followed, [Next]_vars
    PROVE  Followed'
<1> USE CallerAssumption DEF IInv, TypeOK, Followed, Leading, task, shared
<1>1. ASSUME NEW p \in Caller, NEW t \in Track, Call(p, t) PROVE Followed'
  BY <1>1 DEF Call, Goto
<1>2. ASSUME NEW p \in Caller, Resting(p) \/ Woken(p) \/ FollowTimeout(p) PROVE Followed'
  BY <1>2 DEF Resting, Woken, FollowTimeout, Return, Goto
<1>3. ASSUME NEW p \in Caller, NotResting(p) \/ Lead(p) PROVE Followed'
  BY <1>3 DEF NotResting, Lead, Goto
<1>4. ASSUME NEW p \in Caller, Follow(p) PROVE Followed'
  BY <1>4 DEF Follow, Goto
<1>5. ASSUME NEW p \in Caller, \/ RecheckCached(p) \/ RecheckResting(p)
                               \/ FetchOk(p) \/ FetchFails(p)
      PROVE  Followed'
  BY <1>5 DEF RecheckCached, RecheckResting, FetchOk, FetchFails, Finish
<1>6. ASSUME NEW p \in Caller, Acquire(p) \/ RecheckMissing(p) \/ StartFetch(p) \/ FallBack(p)
      PROVE  Followed'
  BY <1>6 DEF Acquire, RecheckMissing, StartFetch, FallBack, Goto
<1>7. ASSUME NEW p \in Caller, Record(p) \/ Unflag(p) PROVE Followed'
  BY <1>7 DEF Record, Unflag, Goto
<1>8. ASSUME NEW p \in Caller, Notify(p) PROVE Followed'
  BY <1>8 DEF Notify, Goto
<1>9. ASSUME NEW t \in Track, Expire(t) \/ CacheDrops(t) PROVE Followed'
  BY <1>9 DEF Expire, CacheDrops
<1>10. CASE UNCHANGED vars
  BY <1>10 DEF vars
<1> QED
  BY <1>1, <1>2, <1>3, <1>4, <1>5, <1>6, <1>7, <1>8, <1>9, <1>10 DEF Next, Progress, Environment

\* A step that leaves the queue alone and moves nobody into or out of its state.
LEMMA QueuedKept ==
    ASSUME TypeOK, Queued, waiting' = waiting,
           \A q \in Caller : pc'[q] = "queue" <=> pc[q] = "queue"
    PROVE  Queued'
BY DEF Queued, TypeOK

\* Leaders come to the end of the queue and leave at its head.
LEMMA QueuedStep ==
    ASSUME IInv, Queued, [Next]_vars
    PROVE  Queued'
<1> USE DEF IInv, TypeOK, task, shared
<1>1. ASSUME NEW p \in Caller, NEW t \in Track, Call(p, t) PROVE Queued'
  BY <1>1, QueuedKept DEF Call, Goto
<1>2. ASSUME NEW p \in Caller, \/ Resting(p) \/ NotResting(p) \/ Follow(p) \/ Woken(p)
                               \/ FollowTimeout(p)
      PROVE  Queued'
  BY <1>2, QueuedKept DEF Resting, NotResting, Follow, Woken, FollowTimeout, Return, Goto
<1>3. ASSUME NEW p \in Caller, Lead(p) PROVE Queued'
  <2>1. waiting' = Append(waiting, p) /\ pc' = [pc EXCEPT ![p] = "queue"] /\ pc[p] = "role"
    BY <1>3 DEF Lead, Goto
  <2>2. /\ Len(waiting') = Len(waiting) + 1 /\ waiting'[Len(waiting) + 1] = p
        /\ \A i \in 1..Len(waiting) : waiting'[i] = waiting[i]
    BY <2>1
  <2>3. \A i \in 1..Len(waiting) : waiting[i] # p
    BY <2>1 DEF Queued
  <2>4. 1..Len(waiting') = 1..Len(waiting) \cup {Len(waiting) + 1}
    BY <2>2
  <2>5. ASSUME NEW q \in Caller
        PROVE  pc'[q] = "queue" <=> \E i \in 1..Len(waiting') : waiting'[i] = q
    BY <2>1, <2>2, <2>4 DEF Queued
  <2>6. ASSUME NEW i \in 1..Len(waiting'), NEW j \in 1..Len(waiting'), waiting'[i] = waiting'[j]
        PROVE  i = j
    BY <2>2, <2>3, <2>4, <2>6 DEF Queued
  <2> QED
    BY <2>5, <2>6 DEF Queued
<1>4. ASSUME NEW p \in Caller, Acquire(p) PROVE Queued'
  <2>1. /\ waiting # <<>> /\ Head(waiting) = p /\ waiting' = Tail(waiting)
        /\ pc[p] = "queue" /\ pc' = [pc EXCEPT ![p] = "recheck"]
    BY <1>4 DEF Acquire, Goto
  <2>2. /\ Len(waiting) \in Nat \ {0} /\ Len(waiting') = Len(waiting) - 1 /\ waiting[1] = p
        /\ \A i \in 1..Len(waiting') : waiting'[i] = waiting[i + 1]
    BY <2>1
  <2>3. \A i \in 1..Len(waiting') : i + 1 \in 1..Len(waiting)
    BY <2>2
  <2>4. ASSUME NEW q \in Caller
        PROVE  pc'[q] = "queue" <=> \E i \in 1..Len(waiting') : waiting'[i] = q
    <3>1. CASE q = p
      <4>1. \A i \in 1..Len(waiting') : waiting[i + 1] # p
        BY <2>2, <2>3 DEF Queued
      <4> QED
        BY <2>1, <2>2, <3>1, <4>1
    <3>2. CASE q # p /\ pc[q] = "queue"
      <4>1. PICK i \in 1..Len(waiting) : waiting[i] = q
        BY <3>2 DEF Queued
      <4>2. i # 1 /\ i - 1 \in 1..Len(waiting')
        BY <2>2, <3>2, <4>1
      <4>3. waiting'[i - 1] = q
        BY <2>2, <4>1, <4>2
      <4> QED
        BY <2>1, <3>2, <4>2, <4>3
    <3>3. CASE q # p /\ pc[q] # "queue"
      BY <2>1, <2>2, <2>3, <3>3 DEF Queued
    <3> QED
      BY <3>1, <3>2, <3>3
  <2>5. ASSUME NEW i \in 1..Len(waiting'), NEW j \in 1..Len(waiting'), waiting'[i] = waiting'[j]
        PROVE  i = j
    <3>1. waiting[i + 1] = waiting[j + 1] /\ {i + 1, j + 1} \subseteq 1..Len(waiting)
      BY <2>2, <2>3, <2>5
    <3>2. i + 1 = j + 1
      BY <3>1 DEF Queued
    <3> QED
      BY <3>2
  <2> QED
    BY <2>4, <2>5 DEF Queued
<1>5. ASSUME NEW p \in Caller, \/ RecheckCached(p) \/ RecheckResting(p)
                               \/ FetchOk(p) \/ FetchFails(p)
      PROVE  Queued'
  BY <1>5, QueuedKept DEF RecheckCached, RecheckResting, FetchOk, FetchFails, Finish
<1>6. ASSUME NEW p \in Caller, RecheckMissing(p) \/ StartFetch(p) \/ FallBack(p) PROVE Queued'
  BY <1>6, QueuedKept DEF RecheckMissing, StartFetch, FallBack, Goto
<1>7. ASSUME NEW p \in Caller, Record(p) \/ Unflag(p) \/ Notify(p) PROVE Queued'
  BY <1>7, QueuedKept DEF Record, Unflag, Notify, Goto
<1>8. ASSUME NEW t \in Track, Expire(t) \/ CacheDrops(t) PROVE Queued'
  BY <1>8, QueuedKept DEF Expire, CacheDrops
<1>9. CASE UNCHANGED vars
  BY <1>9, QueuedKept DEF vars
<1> QED
  BY <1>1, <1>2, <1>3, <1>4, <1>5, <1>6, <1>7, <1>8, <1>9 DEF Next, Progress, Environment

\* A task leaves download_lock by giving it up.
LEMMA InhabitedStep ==
    ASSUME IInv, Inhabited, [Next]_vars
    PROVE  Inhabited'
<1> USE CallerAssumption DEF IInv, TypeOK, Inhabited, Inside, LockHeld, task, shared
<1>1. ASSUME NEW p \in Caller, NEW t \in Track, Call(p, t) PROVE Inhabited'
  BY <1>1 DEF Call, Goto
<1>2. ASSUME NEW p \in Caller, \/ Resting(p) \/ NotResting(p) \/ Lead(p) \/ Follow(p)
                               \/ Woken(p) \/ FollowTimeout(p)
      PROVE  Inhabited'
  BY <1>2 DEF Resting, NotResting, Lead, Follow, Woken, FollowTimeout, Return, Goto
<1>3. ASSUME NEW p \in Caller, Acquire(p) PROVE Inhabited'
  BY <1>3 DEF Acquire, Goto
<1>4. ASSUME NEW p \in Caller, \/ RecheckCached(p) \/ RecheckResting(p)
                               \/ FetchOk(p) \/ FetchFails(p)
      PROVE  Inhabited'
  BY <1>4 DEF RecheckCached, RecheckResting, FetchOk, FetchFails, Finish
<1>5. ASSUME NEW p \in Caller, RecheckMissing(p) \/ StartFetch(p) \/ FallBack(p)
      PROVE  Inhabited'
  BY <1>5 DEF RecheckMissing, StartFetch, FallBack, Goto
<1>6. ASSUME NEW p \in Caller, Record(p) \/ Unflag(p) \/ Notify(p) PROVE Inhabited'
  BY <1>6 DEF Record, Unflag, Notify, Goto
<1>7. ASSUME NEW t \in Track, Expire(t) \/ CacheDrops(t) PROVE Inhabited'
  BY <1>7 DEF Expire, CacheDrops
<1>8. CASE UNCHANGED vars
  BY <1>8 DEF vars
<1> QED
  BY <1>1, <1>2, <1>3, <1>4, <1>5, <1>6, <1>7, <1>8 DEF Next, Progress, Environment

\* Nobody waits in prepare_track for somebody who is gone: a follower waits for a leader of its
\* track, a leader is in the queue of download_lock, and the lock is held from inside.  So a call
\* that never returns would be one whose chain of waits ends in a download that never does.
THEOREM NobodyIsStranded == Spec => []NobodyStranded
<1>1. Init => NobodyStranded
  BY DEF Init, NobodyStranded, Followed, Queued, Inhabited
<1>2. IInv /\ NobodyStranded /\ [Next]_vars => NobodyStranded'
  BY FollowedStep, QueuedStep, InhabitedStep DEF NobodyStranded
<1> QED
  BY <1>1, <1>2, InductiveInvariant, PTL DEF Spec
=============================================================================
