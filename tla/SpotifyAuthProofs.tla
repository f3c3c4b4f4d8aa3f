--------------------------- MODULE SpotifyAuthProofs ---------------------------
(***************************************************************************)
(* Theorems of module SpotifyAuth, for any number of tasks that send       *)
(* requests, of admins, of pairings and of rotations.                      *)
(***************************************************************************)
EXTENDS SpotifyAuth, TLAPS

-----------------------------------------------------------------------------
(* The inductive invariant.                                                *)

\* A task is busy with a refresh or the end of a session that refused one: it is in
\* access_token, past token_refresh.
Refreshing(p) ==
    \/ pc[p] \in {"recheck", "refreshing", "store"}
    \/ pc[p] \in {"wipe", "update", "save"} /\ job[p].what \in {"refresh", "wipe"}

\* It holds the token of a refresh: the one it sends, or the one that came back.
Carries(p) ==
    pc[p] = "refreshing" \/ (pc[p] \in {"update", "save"} /\ job[p].what = "refresh")

\* A pairing that is not in the configuration yet.
Pairs(p) == pc[p] = "update" /\ job[p].what = "pair"

\* What a task that is somewhere has in its hands.
Jobs ==
    \A p \in Task :
        /\ pc[p] = "idle" => job[p] = NoJob
        /\ pc[p] = "wipe" => job[p].what \in {"wipe", "disconnect"}
        /\ pc[p] \in {"update", "save"}
              => job[p].what \in {"refresh", "wipe", "pair", "disconnect", "settings"}
        /\ pc[p] = "refreshing" => job[p].what = "refresh" /\ job[p].grant \in Grant
        /\ pc[p] = "store" => job[p].what \in {"use", "refresh"} /\ job[p].grant \in Grant
        /\ pc[p] \in {"update", "save"} /\ job[p].what \in {"refresh", "pair"}
              => job[p].grant \in Grant
        /\ Carries(p) => job[p].refresh \in RefreshToken

\* The locks: token_refresh around a refresh, WRITER around the file.
Locks ==
    \A p \in Task :
        /\ Refreshing(p) <=> refresher = p
        /\ pc[p] = "save" <=> writer = p

\* The snapshot that is being written is that of the configuration in memory.
Snapshots ==
    \A p \in Task :
        writer = p => (snap[p] = None <=> auth = None) /\ Session(snap[p]) = Session(auth)

\* Grants that were not given yet are as Spotify gives them.
Issued ==
    /\ \A g \in Grant : g > paired => latest[g] = 0
    /\ auth # None /\ auth.refresh # None => auth.refresh[1] <= paired
    /\ disk # None /\ disk.refresh # None => disk.refresh[1] <= paired
    /\ \A p \in Task : Carries(p) => job[p].refresh[1] <= paired
    /\ \A p \in Task : Pairs(p) => job[p].grant <= paired

\* Spotify takes the token, or it is not the program's fault that it does not.
Fit(t) == Accepted(t) \/ t[1] \in excused

\* A refreshed token that has arrived and is not in the configuration yet.
Arrived(p) == pc[p] = "update" /\ job[p].what = "refresh"

\* Its snapshot is being written.
Lands(p) == pc[p] = "save" /\ job[p].what = "refresh"

\* The same, or its successor has arrived and is about to enter the configuration.
Good(t) ==
    \/ Fit(t)
    \/ \E p \in Task : Arrived(p) /\ job[p].refresh = <<t[1], latest[t[1]]>>

\* The token of a pairing that is not in the configuration is nowhere else.
Fresh(p) ==
    /\ job[p].refresh # None => job[p].refresh = <<job[p].grant, 0>> /\ Fit(job[p].refresh)
    /\ auth # None /\ auth.refresh # None => auth.refresh[1] # job[p].grant
    /\ disk # None /\ disk.refresh # None => disk.refresh[1] # job[p].grant
    /\ \A q \in Task : Carries(q) => job[q].refresh[1] # job[p].grant
    /\ \A q \in Task : Pairs(q) /\ q # p => job[q].grant # job[p].grant

AuthGood == auth # None /\ auth.refresh # None => Good(auth.refresh)

\* The file may be behind while the successor of its token is being written, and after a
\* save has failed.
DiskGood ==
    ~unsaved /\ disk # None /\ disk.refresh # None =>
        Good(disk.refresh) \/ \E p \in Task : Lands(p)

HeldFit == \A p \in Task : pc[p] = "refreshing" \/ Arrived(p) => Fit(job[p].refresh)

PairsFresh == \A p \in Task : Pairs(p) => Fresh(p)

Honour == AuthGood /\ DiskGood /\ HeldFit /\ PairsFresh

IInv == TypeOK /\ Jobs /\ Locks /\ Snapshots /\ DiskFollows /\ Issued /\ Honour

-----------------------------------------------------------------------------
(* The steps of a task, and those around the tasks.                        *)

Step(p) ==
    \/ Local(p) \/ Reply(p) \/ Lock(p) \/ Update(p)
    \/ p \in Request /\ Call(p)
    \/ p \in Admin /\ AdminStarts(p)

LEMMA Steps ==
    [Next]_vars => (\E p \in Task : Step(p)) \/ Environment \/ UNCHANGED vars
BY DEF Next, Step, Task

\* The ends of config::update.
Saves(p) == SaveOk(p) \/ SaveFails(p)

\* Where a task goes once its change was saved or was not.
LEMMA AfterSaves ==
    ASSUME TypeOK, Jobs, NEW p \in Task, Saves(p)
    PROVE  /\ pc[p] = "save"
           /\ \/ /\ job[p].what = "refresh" /\ pc' = [pc EXCEPT ![p] = "store"]
                 /\ snap' = [snap EXCEPT ![p] = None] /\ retried' = retried
                 /\ job' = job /\ refresher' = refresher /\ signedOut' = signedOut
              \/ /\ job[p].what = "wipe" /\ End(p)
                 /\ refresher' = Nobody /\ signedOut' = signedOut
              \/ /\ job[p].what = "pair" /\ pc' = [pc EXCEPT ![p] = "paired"]
                 /\ snap' = [snap EXCEPT ![p] = None] /\ retried' = retried
                 /\ job' = job /\ refresher' = refresher /\ signedOut' = signedOut
              \/ /\ job[p].what \in {"pair", "settings", "disconnect"} /\ End(p)
                 /\ refresher' = refresher /\ signedOut' \in BOOLEAN
           /\ cache' = cache /\ cooling' = cooling /\ excused' = excused
           /\ \/ disk' = snap[p] /\ unsaved' = FALSE
              \/ disk' = disk /\ unsaved' = TRUE
           /\ auth' = auth /\ writer' = Nobody /\ latest' = latest /\ paired' = paired
<1> USE DEF TypeOK, spotify, client, history
<1>1. job[p].what \in {"refresh", "wipe", "pair", "disconnect", "settings"}
  BY DEF Saves, SaveOk, SaveFails, Jobs
<1>2. ASSUME NEW ok \in BOOLEAN, AfterSave(p, ok)
      PROVE  \/ /\ job[p].what = "refresh" /\ pc' = [pc EXCEPT ![p] = "store"]
                /\ snap' = [snap EXCEPT ![p] = None] /\ retried' = retried
                /\ job' = job /\ refresher' = refresher /\ signedOut' = signedOut
                /\ cache' = cache /\ cooling' = cooling /\ excused' = excused
             \/ /\ job[p].what = "wipe" /\ End(p)
                /\ refresher' = Nobody /\ signedOut' = signedOut
                /\ cache' = cache /\ cooling' = cooling /\ excused' = excused
             \/ /\ job[p].what = "pair" /\ pc' = [pc EXCEPT ![p] = "paired"]
                /\ snap' = [snap EXCEPT ![p] = None] /\ retried' = retried
                /\ job' = job /\ refresher' = refresher /\ signedOut' = signedOut
                /\ cache' = cache /\ cooling' = cooling /\ excused' = excused
             \/ /\ job[p].what \in {"pair", "settings", "disconnect"} /\ End(p)
                /\ refresher' = refresher /\ signedOut' \in BOOLEAN
                /\ cache' = cache /\ cooling' = cooling /\ excused' = excused
  <2>1. CASE job[p].what = "refresh"
    BY <1>2, <2>1 DEF AfterSave
  <2>2. CASE job[p].what = "wipe"
    BY <1>2, <2>2 DEF AfterSave
  <2>3. CASE job[p].what = "pair" /\ ok
    BY <1>2, <2>3 DEF AfterSave
  <2>4. CASE job[p].what = "settings" \/ (job[p].what = "pair" /\ ~ok)
    BY <1>2, <2>4 DEF AfterSave
  <2>5. CASE job[p].what = "disconnect"
    BY <1>2, <2>5 DEF AfterSave
  <2> QED
    BY <1>1, <2>1, <2>2, <2>3, <2>4, <2>5
<1>3. CASE SaveOk(p)
  <2>1. AfterSave(p, TRUE)
    BY <1>3 DEF SaveOk
  <2> QED
    BY <1>2, <1>3, <2>1 DEF SaveOk
<1>4. CASE SaveFails(p)
  <2>1. AfterSave(p, FALSE)
    BY <1>4 DEF SaveFails
  <2> QED
    BY <1>2, <1>4, <2>1 DEF SaveFails
<1> QED
  BY <1>3, <1>4 DEF Saves

-----------------------------------------------------------------------------
(* Types.                                                                  *)

Place == {"idle", "token", "lock", "recheck", "store", "refreshing", "wipe", "update", "save",
          "paired", "wait", "sleep", "sent", "forget", "invalidate"}

LEMMA NothingTyped == NoJob \in Job
BY DEF NoJob, Job

LEMMA Bounds == MaxGrants \in Nat /\ MaxRotations \in Nat /\ Gone = MaxRotations + 1
BY BoundAssumption DEF Gone

LEMMA TypesInit == Init => TypeOK /\ Jobs
<1> SUFFICES ASSUME Init PROVE TypeOK /\ Jobs
  OBVIOUS
<1>1. 0 \in 0..MaxGrants /\ 0 \in 0..Gone
  BY Bounds
<1>2. job \in [Task -> Job] /\ latest \in [Grant -> 0..Gone]
  BY <1>1, NothingTyped DEF Init
<1>3. TypeOK
  BY <1>1, <1>2 DEF Init, TypeOK
<1>4. Jobs
  BY DEF Init, Jobs, Carries
<1> QED
  BY <1>3, <1>4

LEMMA UpdatedType ==
    ASSUME TypeOK, Jobs, NEW p \in Task, pc[p] = "update"
    PROVE  Updated(p) \in Auth \cup {None}
<1>1. job[p] \in Job /\ auth \in Auth \cup {None}
  BY DEF TypeOK
<1>2. CASE job[p].what = "settings"
  BY <1>1, <1>2 DEF Updated
<1>3. CASE job[p].what \in {"wipe", "disconnect"}
  BY <1>3 DEF Updated
<1>4. CASE job[p].what \in {"refresh", "pair"}
  <2>1. job[p].grant \in Grant /\ job[p].refresh \in RefreshToken \cup {None}
    BY <1>1, <1>4 DEF Jobs, Job
  <2>2. auth # None => auth.refresh \in RefreshToken \cup {None}
    BY <1>1 DEF Auth
  <2>3. Updated(p) = [grant |-> job[p].grant, fresh |-> TRUE,
                      refresh |-> IF job[p].refresh = None /\ auth # None THEN auth.refresh
                                  ELSE job[p].refresh]
    BY <1>4 DEF Updated
  <2> QED
    BY <2>1, <2>2, <2>3 DEF Auth
<1> QED
  BY <1>2, <1>3, <1>4 DEF Jobs

LEMMA Ended ==
    ASSUME TypeOK, Jobs, NEW p \in Task, End(p)
    PROVE  /\ pc' \in [Task -> Place] /\ retried' \in [Task -> BOOLEAN]
           /\ job' \in [Task -> Job] /\ snap' \in [Task -> Auth \cup {None}]
           /\ Jobs'
<1> USE DEF TypeOK, Place
<1>1. /\ pc' \in [Task -> Place] /\ retried' \in [Task -> BOOLEAN]
      /\ job' \in [Task -> Job] /\ snap' \in [Task -> Auth \cup {None}]
  BY NothingTyped DEF End
<1>2. pc'[p] = "idle" /\ job'[p] = NoJob
  BY DEF End
<1>3. \A q \in Task \ {p} : pc'[q] = pc[q] /\ job'[q] = job[q]
  BY DEF End
<1>4. Jobs'
  BY <1>2, <1>3 DEF Jobs, Carries
<1> QED
  BY <1>1, <1>4

LEMMA TypesNext == TypeOK /\ Jobs /\ [Next]_vars => TypeOK' /\ Jobs'
<1> SUFFICES ASSUME TypeOK, Jobs, [Next]_vars PROVE TypeOK' /\ Jobs'
  OBVIOUS
<1> USE DEF TypeOK, Place, tasks, client, config, spotify, history
<1>1. ASSUME NEW p \in Task,
             Cached(p) \/ NotCached(p) \/ RecheckCached(p) \/ Send(p) \/ Sleep(p) \/ Wake(p)
      PROVE  TypeOK' /\ Jobs'
  BY <1>1 DEF Cached, NotCached, RecheckCached, Send, Sleep, Wake, Goto, Jobs, Carries
<1>2. ASSUME NEW p \in Task, Lock(p) \/ Forget(p) \/ WipeCache(p) \/ Unauthorized(p)
      PROVE  TypeOK' /\ Jobs'
  <2>1. CASE Lock(p) \/ Forget(p)
    BY <2>1 DEF Lock, Forget, Goto, Jobs, Carries
  <2>2. CASE WipeCache(p)
    BY <2>2 DEF WipeCache, Goto, Jobs, Carries
  <2>3. CASE Unauthorized(p)
    BY <2>3 DEF Unauthorized, Goto, Jobs, Carries
  <2> QED
    BY <1>2, <2>1, <2>2, <2>3
<1>3. ASSUME NEW p \in Task, Store(p) \/ Paired(p) PROVE TypeOK' /\ Jobs'
  BY <1>3, NothingTyped DEF Store, Paired, NoJob, Goto, Jobs, Carries
<1>4. ASSUME NEW p \in Task, NoWayToRefresh(p) \/ RefreshFails(p) PROVE TypeOK' /\ Jobs'
  BY <1>4, Ended DEF NoWayToRefresh, RefreshFails, Bail
<1>5. ASSUME NEW p \in Task, UseStored(p) PROVE TypeOK' /\ Jobs'
  BY <1>5 DEF UseStored, Job, Auth, Goto, Jobs, Carries
<1>6. ASSUME NEW p \in Task, SendRefresh(p) PROVE TypeOK' /\ Jobs'
  BY <1>6 DEF SendRefresh, Job, Auth, RefreshToken, Goto, Jobs, Carries
<1>7. ASSUME NEW p \in Task, RefreshOk(p) PROVE TypeOK' /\ Jobs'
  <2>1. job[p] \in Job /\ job[p].what = "refresh" /\ job[p].refresh \in RefreshToken
    BY <1>7 DEF RefreshOk, Goto, Jobs, Carries
  <2>2. PICK k \in 0..MaxRotations :
            /\ latest' = [latest EXCEPT ![job[p].refresh[1]] = k]
            /\ job' = [job EXCEPT ![p].refresh = <<job[p].refresh[1], k>>]
    BY <1>7 DEF RefreshOk
  <2>3. job[p].refresh[1] \in Grant /\ <<job[p].refresh[1], k>> \in RefreshToken
    BY <2>1 DEF RefreshToken
  <2>4. /\ job'[p] \in Job /\ job'[p].what = "refresh" /\ job'[p].refresh \in RefreshToken
        /\ job'[p].grant = job[p].grant /\ \A q \in Task \ {p} : job'[q] = job[q]
    <3>1. job'[p] = [job[p] EXCEPT !.refresh = <<job[p].refresh[1], k>>]
      BY <2>2
    <3>2. \A q \in Task \ {p} : job'[q] = job[q]
      BY <2>2
    <3> QED
      BY <2>1, <2>3, <3>1, <3>2 DEF Job
  <2>5. job' \in [Task -> Job]
    BY <2>2, <2>4
  <2>6. latest' \in [Grant -> 0..Gone]
    BY <2>2, <2>3, BoundAssumption DEF Gone
  <2>7. job[p].grant \in Grant
    BY <1>7, <2>1 DEF RefreshOk, Goto, Jobs
  <2>8. Jobs'
    BY <1>7, <2>4, <2>7 DEF RefreshOk, Goto, Jobs, Carries
  <2> QED
    BY <1>7, <2>5, <2>6, <2>8 DEF RefreshOk, Goto
<1>8. ASSUME NEW p \in Task, RefreshLost(p) PROVE TypeOK' /\ Jobs'
  BY <1>8, Ended, BoundAssumption
  DEF RefreshLost, Bail, RefreshToken, Gone, Accepted, Jobs, Carries
<1>9. ASSUME NEW p \in Task, RefreshRefused(p) PROVE TypeOK' /\ Jobs'
  BY <1>9 DEF RefreshRefused, Job, Goto, Jobs, Carries
<1>10. ASSUME NEW p \in Task, Update(p) PROVE TypeOK' /\ Jobs'
  BY <1>10, UpdatedType DEF Update, Goto, Jobs, Carries
<1>11. ASSUME NEW p \in Task, Saves(p) PROVE TypeOK' /\ Jobs'
  <2>1. CASE End(p)
    BY <1>11, <2>1, AfterSaves, Ended
  <2>2. CASE ~End(p)
    <3>1. /\ job' = job /\ job[p].what \in {"refresh", "pair"} /\ pc[p] = "save"
          /\ \/ job[p].what = "refresh" /\ pc' = [pc EXCEPT ![p] = "store"]
             \/ pc' = [pc EXCEPT ![p] = "paired"]
      BY <1>11, <2>2, AfterSaves
    <3>2. Jobs'
      BY <3>1 DEF Jobs, Carries
    <3>3. pc' \in [Task -> Place]
      BY <3>1
    <3>4. /\ snap' = [snap EXCEPT ![p] = None] /\ retried' = retried
          /\ refresher' = refresher /\ signedOut' = signedOut
      BY <1>11, <2>2, AfterSaves
    <3>5. snap' \in [Task -> Auth \cup {None}]
      BY <3>4
    <3>6. /\ cache' = cache /\ cooling' = cooling /\ excused' = excused /\ auth' = auth
          /\ disk' \in Auth \cup {None} /\ unsaved' \in BOOLEAN
          /\ writer' = Nobody /\ latest' = latest /\ paired' = paired
      BY <1>11, AfterSaves
    <3> QED
      BY <3>1, <3>2, <3>3, <3>4, <3>5, <3>6
  <2> QED
    BY <2>1, <2>2
<1>12. ASSUME NEW p \in Task, Invalidate(p) PROVE TypeOK' /\ Jobs'
  BY <1>12 DEF Invalidate, Auth, Goto, Jobs, Carries
<1>13. ASSUME NEW p \in Task, TooManyRequests(p) \/ Fails(p) \/ Succeeds(p)
       PROVE  TypeOK' /\ Jobs'
  BY <1>13, Ended DEF TooManyRequests, Fails, Succeeds
<1>14. ASSUME NEW p \in Task, PairApproved(p) PROVE TypeOK' /\ Jobs'
  BY <1>14, BoundAssumption DEF PairApproved, Job, Grant, RefreshToken, Goto, Jobs, Carries
<1>15. ASSUME NEW p \in Task, Disconnect(p) \/ ChangeSettings(p)
       PROVE  TypeOK' /\ Jobs'
  <2>1. CASE Disconnect(p)
    BY <2>1 DEF Disconnect, Job, Goto, Jobs, Carries
  <2>2. CASE ChangeSettings(p)
    BY <2>2 DEF ChangeSettings, Job, Goto, Jobs, Carries
  <2> QED
    BY <1>15, <2>1, <2>2
<1>16. CASE WaitOver \/ CacheExpires
  BY <1>16 DEF WaitOver, CacheExpires, Jobs, Carries
<1>17. ASSUME NEW g \in Grant, Revoke(g) PROVE TypeOK' /\ Jobs'
  BY <1>17, BoundAssumption DEF Revoke, Gone, Jobs, Carries
<1>18. CASE Crash
  BY <1>18, NothingTyped DEF Crash, NoJob, Jobs, Carries
<1>19. CASE UNCHANGED vars
  BY <1>19 DEF vars, Jobs, Carries
<1>20. CASE AuthExpires
  BY <1>20 DEF AuthExpires, Auth, Jobs, Carries
<1>21. ASSUME NEW p \in Task, Call(p) PROVE TypeOK' /\ Jobs'
  BY <1>21 DEF Call, Goto, Jobs, Carries
<1>22. ASSUME NEW p \in Task, Step(p) PROVE TypeOK' /\ Jobs'
  BY <1>1, <1>2, <1>3, <1>4, <1>5, <1>6, <1>7, <1>8, <1>9, <1>10, <1>11, <1>12, <1>13, <1>14,
     <1>15, <1>21, <1>22
  DEF Step, Local, Reply, AdminStarts, Saves
<1> HIDE DEF TypeOK, Place, tasks, client, config, spotify, history
<1> QED
  BY <1>16, <1>17, <1>18, <1>19, <1>20, <1>22, Steps DEF Environment

-----------------------------------------------------------------------------
(* What a step of a task leaves alone.                                     *)

\* A step of p changes nothing of what another task knows.
LEMMA Elsewhere ==
    ASSUME TypeOK, Jobs, NEW p \in Task, Step(p), NEW q \in Task, q # p
    PROVE  pc'[q] = pc[q] /\ job'[q] = job[q] /\ snap'[q] = snap[q]
<1> USE DEF TypeOK
<1>1. CASE End(p)
  BY <1>1 DEF End
<1>2. CASE Saves(p)
  BY <1>1, <1>2, AfterSaves
<1>3. CASE Cached(p) \/ NotCached(p) \/ RecheckCached(p) \/ UseStored(p) \/ SendRefresh(p)
           \/ Store(p) \/ WipeCache(p) \/ Paired(p)
  BY <1>3 DEF Cached, NotCached, RecheckCached, UseStored, SendRefresh, Store, WipeCache, Paired,
     Goto
<1>4. CASE Send(p) \/ Sleep(p) \/ Wake(p) \/ Forget(p) \/ Invalidate(p)
  BY <1>4 DEF Send, Sleep, Wake, Forget, Invalidate, Goto
<1>5. CASE RefreshOk(p) \/ RefreshRefused(p) \/ Unauthorized(p)
  BY <1>5 DEF RefreshOk, RefreshRefused, Unauthorized, Goto
<1>6. CASE Lock(p) \/ Update(p) \/ Call(p) \/ AdminStarts(p)
  BY <1>6 DEF Lock, Update, Call, AdminStarts, PairApproved, Disconnect, ChangeSettings, Goto
<1>7. CASE NoWayToRefresh(p) \/ RefreshLost(p) \/ RefreshFails(p) \/ TooManyRequests(p)
           \/ Fails(p) \/ Succeeds(p)
  BY <1>1, <1>7 DEF NoWayToRefresh, RefreshLost, RefreshFails, TooManyRequests, Fails, Succeeds,
     Bail
<1> QED
  BY <1>2, <1>3, <1>4, <1>5, <1>6, <1>7 DEF Step, Local, Reply, Saves

\* The steps that matter to the tokens of the session.
Weighs(p) ==
    \/ SendRefresh(p) \/ RefreshOk(p) \/ RefreshLost(p) \/ Update(p) \/ Saves(p)
    \/ PairApproved(p)

\* The session is the same, though it may have expired.
SameSession ==
    \/ auth' = auth
    \/ auth \in Auth /\ auth' = [auth EXCEPT !.fresh = FALSE]

LEMMA SameSessionMeans ==
    ASSUME TypeOK, SameSession
    PROVE  /\ Session(auth') = Session(auth) /\ (auth' = None <=> auth = None)
           /\ auth # None => auth'.refresh = auth.refresh
<1>1. CASE auth' = auth
  BY <1>1 DEF Session
<1>2. CASE auth \in Auth /\ auth' = [auth EXCEPT !.fresh = FALSE]
  <2>1. auth' \in Auth /\ auth'.refresh = auth.refresh /\ auth'.grant = auth.grant
    BY <1>2 DEF Auth
  <2>2. auth # None /\ auth' # None
    BY <1>2, <2>1, NoneAssumption
  <2> QED
    BY <2>1, <2>2 DEF Session
<1> QED
  BY <1>1, <1>2 DEF SameSession

\* What the admin has begun.
LEMMA StartedJob ==
    ASSUME TypeOK, NEW p \in Task, AdminStarts(p)
    PROVE  /\ pc[p] = "idle" /\ pc'[p] \in {"update", "wipe"}
           /\ job'[p].what = "pair" => PairApproved(p)
           /\ job'[p].what \in {"pair", "disconnect", "settings"}
           /\ UNCHANGED <<client, config, history>>
<1> USE DEF TypeOK, Goto
<1>1. CASE PairApproved(p)
  <2>1. PICK g, r : job' = [job EXCEPT ![p] = [what |-> "pair", grant |-> g, refresh |-> r]]
    BY <1>1 DEF PairApproved
  <2>2. job'[p].what = "pair"
    BY <2>1
  <2> QED
    BY <1>1, <2>2 DEF PairApproved
<1>2. CASE Disconnect(p)
  BY <1>2 DEF Disconnect, Job
<1>3. CASE ChangeSettings(p)
  BY <1>3 DEF ChangeSettings, Job
<1> QED
  BY <1>1, <1>2, <1>3 DEF AdminStarts

\* All other steps leave the file and Spotify alone, and p without a token in its hands.
LEMMA Light ==
    ASSUME TypeOK, Jobs, NEW p \in Task, Step(p), ~Weighs(p)
    PROVE  /\ UNCHANGED <<writer, disk, unsaved, spotify, excused>> /\ SameSession
           /\ pc[p] \notin {"update", "save"} /\ pc'[p] # "save"
           /\ ~Carries(p)' /\ ~Pairs(p)'
<1> USE DEF TypeOK, Carries, Pairs, SameSession, client, config, history
<1>1. CASE End(p) /\ pc[p] \in {"recheck", "refreshing", "sent"}
           /\ UNCHANGED <<auth, writer, disk, unsaved, spotify, excused>>
  BY <1>1 DEF End
<1>2. CASE Cached(p) \/ NotCached(p) \/ RecheckCached(p) \/ UseStored(p) \/ Store(p)
           \/ Paired(p)
  BY <1>2 DEF Cached, NotCached, RecheckCached, UseStored, Store, Paired, Goto
<1>3. CASE Send(p) \/ Sleep(p) \/ Wake(p) \/ Forget(p) \/ Call(p) \/ Lock(p)
  BY <1>3 DEF Send, Sleep, Wake, Forget, Call, Lock, Goto
<1>4. CASE Invalidate(p)
  BY <1>4 DEF Invalidate, Goto
<1>5. CASE WipeCache(p)
  BY <1>5 DEF WipeCache, Goto, Jobs
<1>6. CASE RefreshRefused(p) \/ Unauthorized(p)
  BY <1>6 DEF RefreshRefused, Unauthorized, Goto
<1>7. CASE Disconnect(p) \/ ChangeSettings(p)
  <2>1. /\ pc[p] = "idle" /\ pc'[p] \in {"update", "wipe"}
        /\ job'[p].what \in {"disconnect", "settings"}
    BY <1>7 DEF Disconnect, ChangeSettings, Goto, Job
  <2>2. UNCHANGED <<writer, disk, unsaved, spotify, excused, auth>>
    BY <1>7 DEF Disconnect, ChangeSettings
  <2> QED
    BY <2>1, <2>2
<1>8. CASE NoWayToRefresh(p) \/ RefreshFails(p) \/ TooManyRequests(p) \/ Fails(p)
           \/ Succeeds(p)
  BY <1>1, <1>8 DEF NoWayToRefresh, RefreshFails, TooManyRequests, Fails, Succeeds, Bail
<1> QED
  BY <1>2, <1>3, <1>4, <1>5, <1>6, <1>7, <1>8
  DEF Weighs, Step, Local, Reply, AdminStarts, Saves

-----------------------------------------------------------------------------
(* The locks and the file.                                                 *)

\* A step of p takes and gives up locks for p alone.
LEMMA OwnLocks ==
    ASSUME TypeOK, Jobs, Locks, NEW p \in Task, Step(p)
    PROVE  /\ Refreshing(p)' <=> refresher' = p
           /\ refresher' = refresher \/ {refresher, refresher'} \subseteq {p, Nobody}
           /\ pc'[p] = "save" <=> writer' = p
           /\ writer' = writer \/ {writer, writer'} \subseteq {p, Nobody}
<1>0. p # Nobody /\ (Refreshing(p) <=> refresher = p) /\ (pc[p] = "save" <=> writer = p)
  BY TaskAssumption DEF Locks, Task
<1> USE <1>0 DEF TypeOK, Refreshing, client, config
<1>1. CASE Cached(p) \/ NotCached(p) \/ RecheckCached(p) \/ UseStored(p) \/ SendRefresh(p)
           \/ Store(p) \/ Paired(p)
  BY <1>1 DEF Cached, NotCached, RecheckCached, UseStored, SendRefresh, Store, Paired, Goto
<1>2. CASE Send(p) \/ Sleep(p) \/ Wake(p) \/ Forget(p) \/ Call(p) \/ Lock(p) \/ Invalidate(p)
  BY <1>2 DEF Send, Sleep, Wake, Forget, Call, Lock, Invalidate, Goto
<1>3. CASE WipeCache(p) \/ RefreshRefused(p) \/ Unauthorized(p)
  <2>1. CASE WipeCache(p)
    BY <2>1 DEF WipeCache, Goto, Jobs
  <2>2. CASE RefreshRefused(p)
    <3>1. job'[p].what = "wipe" /\ pc[p] = "refreshing" /\ pc'[p] = "wipe"
      BY <2>2 DEF RefreshRefused, Goto, Job
    <3> QED
      BY <2>2, <3>1 DEF RefreshRefused
  <2>3. CASE Unauthorized(p)
    BY <2>3 DEF Unauthorized, Goto
  <2> QED
    BY <1>3, <2>1, <2>2, <2>3
<1>4. CASE AdminStarts(p)
  <2>1. /\ pc[p] = "idle" /\ pc'[p] \in {"update", "wipe"}
        /\ job'[p].what \in {"pair", "disconnect", "settings"}
        /\ writer' = writer /\ refresher' = refresher
    BY <1>4, StartedJob
  <2> QED
    BY <2>1
<1>5. CASE RefreshOk(p)
  <2>1. PICK t : job' = [job EXCEPT ![p].refresh = t]
    BY <1>5 DEF RefreshOk
  <2>2. job'[p].what = job[p].what /\ job[p].what = "refresh"
    BY <1>5, <2>1 DEF RefreshOk, Job, Goto, Jobs
  <2> QED
    BY <1>5, <2>2 DEF RefreshOk, Goto
<1>6. CASE Update(p)
  BY <1>6 DEF Update, Goto
<1>7. CASE /\ End(p) /\ pc[p] \in {"recheck", "refreshing", "sent"}
           /\ IF pc[p] = "sent" THEN refresher' = refresher ELSE refresher' = Nobody
           /\ writer' = writer
  BY <1>7 DEF End
<1>8. CASE NoWayToRefresh(p) \/ RefreshLost(p) \/ RefreshFails(p) \/ TooManyRequests(p)
           \/ Fails(p) \/ Succeeds(p)
  BY <1>7, <1>8 DEF NoWayToRefresh, RefreshLost, RefreshFails, TooManyRequests, Fails, Succeeds,
     Bail
<1>9. CASE Saves(p)
  <2>1. /\ pc[p] = "save" /\ writer' = Nobody
        /\ \/ pc'[p] = "store" /\ job[p].what = "refresh" /\ refresher' = refresher
           \/ pc'[p] = "idle" /\ job[p].what = "wipe" /\ refresher' = Nobody
           \/ /\ pc'[p] \in {"paired", "idle"} /\ refresher' = refresher
              /\ job[p].what \in {"pair", "settings", "disconnect"}
    BY <1>9, AfterSaves DEF End
  <2> QED
    BY <2>1
<1> QED
  BY <1>1, <1>2, <1>3, <1>4, <1>5, <1>6, <1>8, <1>9 DEF Step, Local, Reply, Saves

LEMMA LocksNext == TypeOK /\ Jobs /\ Locks /\ [Next]_vars => Locks'
<1> SUFFICES ASSUME TypeOK, Jobs, Locks, [Next]_vars PROVE Locks'
  OBVIOUS
<1>1. ASSUME NEW p \in Task, Step(p) PROVE Locks'
  <2> SUFFICES ASSUME NEW q \in Task
               PROVE  (Refreshing(q)' <=> refresher' = q) /\ (pc'[q] = "save" <=> writer' = q)
    BY DEF Locks
  <2>1. CASE q = p
    BY <1>1, <2>1, OwnLocks
  <2>2. CASE q # p
    <3>1. pc'[q] = pc[q] /\ job'[q] = job[q]
      BY <1>1, <2>2, Elsewhere
    <3>2. (Refreshing(q) <=> refresher = q) /\ (pc[q] = "save" <=> writer = q) /\ q # Nobody
      BY TaskAssumption DEF Locks, Task
    <3>3. /\ refresher' = refresher \/ {refresher, refresher'} \subseteq {p, Nobody}
          /\ writer' = writer \/ {writer, writer'} \subseteq {p, Nobody}
      BY <1>1, OwnLocks
    <3> QED
      BY <2>2, <3>1, <3>2, <3>3 DEF Refreshing
  <2> QED
    BY <2>1, <2>2
<1>2. CASE Environment
  <2>1. CASE Crash
    BY <2>1, TaskAssumption DEF Crash, Locks, Refreshing, Task
  <2>2. CASE ~Crash
    <3>1. UNCHANGED <<pc, job, refresher, writer>>
      BY <1>2, <2>2 DEF Environment, WaitOver, CacheExpires, AuthExpires, Revoke, tasks, client,
         config
    <3> QED
      BY <3>1 DEF Locks, Refreshing
  <2> QED
    BY <2>1, <2>2
<1>3. CASE UNCHANGED vars
  BY <1>3 DEF vars, tasks, client, config, Locks, Refreshing
<1> QED
  BY <1>1, <1>2, <1>3, Steps

\* Around the tasks, the session may expire, the file changes in no step.
LEMMA AroundSession ==
    ASSUME TypeOK, Environment \/ UNCHANGED vars, ~Crash
    PROVE  UNCHANGED <<tasks, writer, disk, unsaved, paired>> /\ SameSession
<1> USE DEF SameSession, config, client, spotify
<1>1. CASE AuthExpires
  BY <1>1 DEF AuthExpires, TypeOK
<1>2. CASE WaitOver \/ CacheExpires \/ (\E g \in Grant : Revoke(g)) \/ UNCHANGED vars
  BY <1>2 DEF WaitOver, CacheExpires, Revoke, vars
<1> QED
  BY <1>1, <1>2 DEF Environment

\* The snapshot that is written, and the file when none is, follow the memory.
Follows == Snapshots /\ DiskFollows

LEMMA FollowsNext ==
    TypeOK /\ Jobs /\ Locks /\ Follows /\ [Next]_vars => Follows'
<1> SUFFICES ASSUME TypeOK, Jobs, Locks, Follows, [Next]_vars PROVE Follows'
  OBVIOUS
<1> USE DEF Follows, Snapshots, DiskFollows
<1>1. ASSUME NEW p \in Task, Step(p) PROVE Follows'
  <2>0. /\ p # Nobody /\ (pc[p] = "save" <=> writer = p)
        /\ pc \in [Task -> Place] /\ snap \in [Task -> Auth \cup {None}]
    BY TaskAssumption DEF Locks, Task, TypeOK, Place
  <2>1. \A q \in Task \ {p} : snap'[q] = snap[q]
    BY <1>1, Elsewhere
  <2>2. CASE Update(p)
    <3>1. writer = Nobody /\ writer' = p /\ snap'[p] = Updated(p) /\ auth' = Updated(p)
      BY <2>0, <2>2 DEF Update
    <3> QED
      BY <2>0, <3>1
  <2>3. CASE Saves(p)
    <3>1. /\ pc[p] = "save" /\ auth' = auth /\ writer' = Nobody
          /\ (disk' = snap[p] /\ unsaved' = FALSE) \/ unsaved' = TRUE
      BY <2>3, AfterSaves
    <3>2. \A q \in Task : q # Nobody
      BY TaskAssumption DEF Task
    <3> QED
      BY <2>0, <3>1, <3>2 DEF Session
  <2>4. CASE ~Update(p) /\ ~Saves(p)
    <3>1. UNCHANGED <<writer, disk, unsaved>> /\ SameSession /\ pc[p] # "save"
      <4>1. CASE ~Weighs(p)
        BY <1>1, <4>1, Light
      <4>2. CASE Weighs(p)
        BY <2>4, <4>2 DEF Weighs, SendRefresh, RefreshOk, RefreshLost, PairApproved, Bail, Goto,
           client, config, SameSession
      <4> QED
        BY <4>1, <4>2
    <3>2. Session(auth') = Session(auth) /\ (auth' = None <=> auth = None)
      BY <3>1, SameSessionMeans
    <3> QED
      BY <2>0, <2>1, <3>1, <3>2 DEF Session
  <2> QED
    BY <2>2, <2>3, <2>4
<1>2. CASE Crash
  <2>1. writer' = Nobody /\ auth' = disk /\ disk' = disk
    BY <1>2 DEF Crash
  <2>2. \A q \in Task : q # Nobody
    BY TaskAssumption DEF Task
  <2> QED
    BY <2>1, <2>2 DEF Session
<1>3. CASE (Environment \/ UNCHANGED vars) /\ ~Crash
  <2>1. UNCHANGED <<snap, writer, disk, unsaved>> /\ SameSession
    BY <1>3, AroundSession DEF tasks
  <2>2. Session(auth') = Session(auth) /\ (auth' = None <=> auth = None)
    BY <2>1, SameSessionMeans
  <2> QED
    BY <2>1, <2>2 DEF Session
<1> QED
  BY <1>1, <1>2, <1>3, Steps DEF Environment

-----------------------------------------------------------------------------
(* The tokens.                                                             *)

LEMMA TokenParts ==
    ASSUME NEW t \in RefreshToken
    PROVE  t[1] \in Grant /\ t[2] \in 0..MaxRotations /\ t = <<t[1], t[2]>>
BY DEF RefreshToken

\* The tokens that are stored or under way are tokens.
LEMMA TokensAre ==
    ASSUME TypeOK, Jobs
    PROVE  /\ auth # None /\ auth.refresh # None => auth.refresh \in RefreshToken
           /\ disk # None /\ disk.refresh # None => disk.refresh \in RefreshToken
           /\ \A p \in Task : Carries(p) => job[p].refresh \in RefreshToken
BY DEF TypeOK, Auth, Jobs

\* Spotify's answers are the same, or nobody is to blame for the change.
Pardoned ==
    /\ excused \subseteq excused'
    /\ \A g \in Grant : latest'[g] = latest[g] \/ (g \in excused' /\ g <= paired)

\* A token is fit, or good, by any name.
LEMMA FitOf ==
    /\ \A t : t = auth'.refresh /\ Fit(t)' => Fit(auth.refresh)'
    /\ \A t : t = disk'.refresh /\ Fit(t)' => Fit(disk.refresh)'
    /\ \A t : \A p : t = job'[p].refresh /\ Fit(t)' => Fit(job[p].refresh)'
BY DEF Fit, Accepted

LEMMA GoodOf ==
    /\ \A t : t = auth'.refresh /\ Good(t)' => Good(auth.refresh)'
    /\ \A t : t = disk'.refresh /\ Good(t)' => Good(disk.refresh)'
BY DEF Good, Fit, Accepted

LEMMA FitStays == ASSUME Pardoned, NEW t \in RefreshToken, Fit(t) PROVE Fit(t)'
BY TokenParts DEF Pardoned, Fit, Accepted

LEMMA GoodStays ==
    ASSUME Pardoned, NEW t \in RefreshToken, Good(t),
           \A p \in Task : Arrived(p) => pc'[p] = pc[p] /\ job'[p] = job[p]
    PROVE  Good(t)'
<1>1. CASE Fit(t)
  BY <1>1, FitStays DEF Good
<1>2. CASE ~Fit(t)
  <2>1. PICK p \in Task : Arrived(p) /\ job[p].refresh = <<t[1], latest[t[1]]>>
    BY <1>2 DEF Good
  <2>2. Arrived(p)' /\ job'[p] = job[p]
    BY <2>1 DEF Arrived
  <2>3. t[1] \in Grant
    BY TokenParts
  <2>4. CASE latest'[t[1]] = latest[t[1]]
    BY <2>1, <2>2, <2>4 DEF Good
  <2>5. CASE t[1] \in excused'
    BY <2>5 DEF Good, Fit
  <2> QED
    BY <2>3, <2>4, <2>5 DEF Pardoned
<1> QED
  BY <1>1, <1>2

\* The session is the same and no task has got a token or a pairing.
Calm ==
    /\ Pardoned /\ SameSession /\ UNCHANGED <<disk, unsaved, paired>>
    /\ \A q \in Task :
          \/ pc'[q] = pc[q] /\ job'[q] = job[q]
          \/ pc[q] \notin {"update", "save"} /\ ~Carries(q)' /\ ~Pairs(q)'

LEMMA CalmTasks ==
    ASSUME Calm, NEW q \in Task
    PROVE  /\ Arrived(q) => pc'[q] = pc[q] /\ job'[q] = job[q]
           /\ Lands(q) => Lands(q)'
           /\ Carries(q)' => Carries(q) /\ pc'[q] = pc[q] /\ job'[q] = job[q]
           /\ Pairs(q)' => Pairs(q) /\ job'[q] = job[q]
BY DEF Calm, Arrived, Lands, Carries, Pairs

LEMMA CalmKeeps ==
    ASSUME TypeOK, Jobs, Issued, Honour, Calm
    PROVE  Issued' /\ Honour'
<1>1. /\ auth' = None <=> auth = None
      /\ auth # None => auth'.refresh = auth.refresh
      /\ disk' = disk /\ unsaved' = unsaved /\ paired' = paired /\ Pardoned
  BY SameSessionMeans DEF Calm
<1>2. AuthGood'
  <2> SUFFICES ASSUME auth' # None, auth'.refresh # None PROVE Good(auth.refresh)'
    BY DEF AuthGood
  <2>1. PICK t \in RefreshToken : t = auth.refresh /\ t = auth'.refresh
    BY <1>1, TokensAre
  <2>2. Good(t)
    BY <1>1, <2>1 DEF Honour, AuthGood
  <2>3. Good(t)'
    BY <1>1, <2>2, GoodStays, CalmTasks
  <2> QED
    BY <2>1, <2>3, GoodOf
<1>3. DiskGood'
  <2> SUFFICES ASSUME ~unsaved', disk' # None, disk'.refresh # None,
                      \A p \in Task : ~Lands(p)'
               PROVE  Good(disk.refresh)'
    BY DEF DiskGood
  <2>1. PICK t \in RefreshToken : t = disk.refresh /\ t = disk'.refresh
    BY <1>1, TokensAre
  <2>2. Good(t)
    BY <1>1, <2>1, CalmTasks DEF Honour, DiskGood
  <2>3. Good(t)'
    BY <1>1, <2>2, GoodStays, CalmTasks
  <2> QED
    BY <2>1, <2>3, GoodOf
<1>4. HeldFit'
  <2> SUFFICES ASSUME NEW p \in Task, pc'[p] = "refreshing" \/ Arrived(p)'
               PROVE  Fit(job[p].refresh)'
    BY DEF HeldFit
  <2>1. Carries(p)'
    BY DEF Carries, Arrived
  <2>2. pc'[p] = pc[p] /\ job'[p] = job[p] /\ Carries(p)
    BY <2>1, CalmTasks
  <2>3. PICK t \in RefreshToken : t = job[p].refresh /\ t = job'[p].refresh
    BY <2>2, TokensAre
  <2>4. Fit(t)
    BY <2>2, <2>3 DEF Honour, HeldFit, Arrived
  <2> QED
    BY <1>1, <2>3, <2>4, FitStays, FitOf
<1>5. PairsFresh'
  <2> SUFFICES ASSUME NEW p \in Task, Pairs(p)' PROVE Fresh(p)'
    BY DEF PairsFresh
  <2>1. Pairs(p) /\ job'[p] = job[p]
    BY CalmTasks
  <2>2. Fresh(p)
    BY <2>1 DEF Honour, PairsFresh
  <2>3. job'[p].refresh # None =>
            job'[p].refresh = <<job'[p].grant, 0>> /\ Fit(job[p].refresh)'
    <3> SUFFICES ASSUME job'[p].refresh # None
                 PROVE  job'[p].refresh = <<job'[p].grant, 0>> /\ Fit(job[p].refresh)'
      OBVIOUS
    <3>1. job[p].refresh = <<job[p].grant, 0>> /\ Fit(job[p].refresh)
      BY <2>1, <2>2 DEF Fresh
    <3>2. job[p].refresh \in RefreshToken
      BY <2>1 DEF TypeOK, Job
    <3>3. PICK t \in RefreshToken : t = job[p].refresh /\ t = job'[p].refresh
      BY <2>1, <3>2
    <3> QED
      BY <1>1, <2>1, <3>1, <3>3, FitStays, FitOf
  <2>4. \A q \in Task : Carries(q)' => job'[q].refresh[1] # job'[p].grant
    BY <2>1, <2>2, CalmTasks DEF Fresh
  <2>5. \A q \in Task : Pairs(q)' /\ q # p => job'[q].grant # job'[p].grant
    BY <2>1, <2>2, CalmTasks DEF Fresh
  <2> QED
    BY <1>1, <2>1, <2>2, <2>3, <2>4, <2>5 DEF Fresh
<1>6. Issued'
  <2>1. \A g \in Grant : g > paired' => latest'[g] = 0
    BY <1>1 DEF Issued, Pardoned, TypeOK, Grant
  <2>2. \A q \in Task : Carries(q)' => job'[q].refresh[1] <= paired'
    BY <1>1, CalmTasks DEF Issued
  <2>3. \A q \in Task : Pairs(q)' => job'[q].grant <= paired'
    BY <1>1, CalmTasks DEF Issued
  <2> QED
    BY <1>1, <2>1, <2>2, <2>3 DEF Issued
<1> QED
  BY <1>2, <1>3, <1>4, <1>5, <1>6 DEF Honour

-----------------------------------------------------------------------------
(* The steps that move a token.                                            *)

\* Only one task holds token_refresh.
LEMMA OneRefreshes ==
    ASSUME Locks, NEW p \in Task, NEW q \in Task, Refreshing(p), Refreshing(q)
    PROVE  p = q
BY DEF Locks

LEMMA SendRefreshKeeps ==
    ASSUME IInv, NEW p \in Task, Step(p), SendRefresh(p)
    PROVE  Issued' /\ Honour'
<1> USE DEF IInv
<1>1. /\ pc[p] = "recheck" /\ pc'[p] = "refreshing" /\ job'[p].refresh = auth.refresh
      /\ auth # None /\ auth.refresh # None
      /\ UNCHANGED <<auth, disk, unsaved, paired, latest, excused>>
  BY DEF SendRefresh, Goto, TypeOK, config, spotify, history
<1>2. \A q \in Task \ {p} : pc'[q] = pc[q] /\ job'[q] = job[q]
  BY Elsewhere
<1>3. \A q \in Task : ~Arrived(q) /\ ~Arrived(q)' /\ (Lands(q)' <=> Lands(q))
  <2> SUFFICES ASSUME NEW q \in Task PROVE ~Arrived(q) /\ ~Arrived(q)' /\ (Lands(q)' <=> Lands(q))
    OBVIOUS
  <2>1. CASE q = p
    BY <1>1, <2>1 DEF Arrived, Lands
  <2>2. CASE q # p
    BY <1>1, <1>2, <2>2, OneRefreshes DEF Arrived, Lands, Refreshing
  <2> QED
    BY <2>1, <2>2
<1>4. Fit(auth.refresh)
  BY <1>1, <1>3 DEF Honour, AuthGood, Good
<1>5. AuthGood' /\ DiskGood'
  BY <1>1, <1>3 DEF Honour, AuthGood, DiskGood, Good, Fit, Accepted
<1>6. HeldFit'
  <2> SUFFICES ASSUME NEW q \in Task, pc'[q] = "refreshing" PROVE Fit(job[q].refresh)'
    BY <1>3 DEF HeldFit
  <2>1. CASE q = p
    BY <1>1, <1>4, <2>1 DEF Fit, Accepted
  <2>2. CASE q # p
    BY <1>1, <1>2, <2>2 DEF Honour, HeldFit, Fit, Accepted
  <2> QED
    BY <2>1, <2>2
<1>7. \A q \in Task : Pairs(q)' => Pairs(q) /\ q # p /\ job'[q] = job[q]
  BY <1>1, <1>2 DEF Pairs
<1>8. \A q \in Task : Carries(q)' =>
          job'[q].refresh = auth.refresh \/ (Carries(q) /\ job'[q] = job[q])
  BY <1>1, <1>2 DEF Carries
<1>9. PairsFresh'
  <2> SUFFICES ASSUME NEW q \in Task, Pairs(q)' PROVE Fresh(q)'
    BY DEF PairsFresh
  <2>1. Fresh(q) /\ job'[q] = job[q]
    BY <1>7 DEF Honour, PairsFresh
  <2> QED
    BY <1>1, <1>7, <1>8, <2>1 DEF Fresh, Fit, Accepted
<1>10. Issued'
  BY <1>1, <1>7, <1>8 DEF Issued
<1> QED
  BY <1>5, <1>6, <1>9, <1>10 DEF Honour

LEMMA RefreshOkKeeps ==
    ASSUME IInv, NEW p \in Task, Step(p), RefreshOk(p)
    PROVE  Issued' /\ Honour'
<1> USE DEF IInv
<1>1. pc[p] = "refreshing" /\ pc'[p] = "update" /\ job[p].what = "refresh" /\ Carries(p)
  BY DEF RefreshOk, Goto, TypeOK, Jobs, Carries
<1>2. PICK g \in Grant : g = job[p].refresh[1]
  BY <1>1, TokensAre, TokenParts
<1>3. PICK k \in 0..MaxRotations :
          /\ latest' = [latest EXCEPT ![g] = k]
          /\ job' = [job EXCEPT ![p].refresh = <<g, k>>]
  BY <1>2 DEF RefreshOk
<1>4. /\ Accepted(job[p].refresh) /\ UNCHANGED <<auth, disk, unsaved, paired, excused>>
  BY DEF RefreshOk, config, history
<1>5. \A q \in Task \ {p} : pc'[q] = pc[q] /\ job'[q] = job[q]
  BY Elsewhere
<1>6. /\ latest'[g] = k /\ \A h \in Grant \ {g} : latest'[h] = latest[h]
      /\ job'[p].refresh = <<g, k>> /\ job'[p].what = "refresh" /\ Arrived(p)'
  BY <1>1, <1>3 DEF TypeOK, Job, Arrived
<1>7. \A q \in Task \ {p} : /\ ~Arrived(q) /\ ~Arrived(q)' /\ pc'[q] # "refreshing"
                            /\ ~Carries(q)'
  BY <1>1, <1>5, OneRefreshes DEF Arrived, Refreshing, Carries
<1>8. ASSUME NEW t \in RefreshToken, Fit(t) PROVE Good(t)'
  <2>1. t[1] \in Grant
    BY TokenParts
  <2>2. CASE t[1] = g
    BY <1>6, <2>2 DEF Good
  <2>3. CASE t[1] # g
    BY <1>4, <1>6, <1>8, <2>1, <2>3 DEF Good, Fit, Accepted
  <2> QED
    BY <2>2, <2>3
<1>9. ASSUME NEW t, Good(t) PROVE Fit(t)
  BY <1>1, <1>7, <1>9 DEF Good, Arrived
<1>10. AuthGood'
  <2> SUFFICES ASSUME auth' # None, auth'.refresh # None PROVE Good(auth.refresh)'
    BY DEF AuthGood
  <2>1. PICK t \in RefreshToken : t = auth.refresh /\ t = auth'.refresh
    BY <1>4, TokensAre
  <2> QED
    BY <1>4, <1>8, <1>9, <2>1, GoodOf DEF Honour, AuthGood
<1>11. DiskGood'
  <2> SUFFICES ASSUME ~unsaved', disk' # None, disk'.refresh # None PROVE Good(disk.refresh)'
    BY DEF DiskGood
  <2>1. PICK t \in RefreshToken : t = disk.refresh /\ t = disk'.refresh
    BY <1>4, TokensAre
  <2>2. \A q \in Task : ~Lands(q)
    BY <1>1, <1>7, OneRefreshes DEF Lands, Refreshing
  <2> QED
    BY <1>4, <1>8, <1>9, <2>1, <2>2, GoodOf DEF Honour, DiskGood
<1>12. HeldFit'
  <2> SUFFICES ASSUME NEW q \in Task, pc'[q] = "refreshing" \/ Arrived(q)'
               PROVE  Fit(job[q].refresh)'
    BY DEF HeldFit
  <2>1. q = p
    BY <1>7
  <2> QED
    BY <1>6, <2>1 DEF Fit, Accepted
<1>13. \A q \in Task : Pairs(q)' => Pairs(q) /\ q # p /\ job'[q] = job[q] /\ job[q].grant # g
  <2> SUFFICES ASSUME NEW q \in Task, Pairs(q)'
               PROVE  Pairs(q) /\ q # p /\ job'[q] = job[q] /\ job[q].grant # g
    OBVIOUS
  <2>1. q # p
    BY <1>6 DEF Pairs
  <2>2. Pairs(q) /\ job'[q] = job[q]
    BY <1>5, <2>1 DEF Pairs
  <2> QED
    BY <1>1, <1>2, <2>1, <2>2 DEF Honour, PairsFresh, Fresh
<1>14. \A q \in Task : Carries(q)' => job'[q].refresh[1] = g
  BY <1>6, <1>7
<1>15. PairsFresh'
  <2> SUFFICES ASSUME NEW q \in Task, Pairs(q)' PROVE Fresh(q)'
    BY DEF PairsFresh
  <2>1. Fresh(q) /\ job'[q] = job[q] /\ job[q].grant # g /\ job[q].grant \in Grant
    BY <1>13 DEF Honour, PairsFresh, Jobs, Pairs
  <2>2. job'[q].refresh # None =>
            job'[q].refresh = <<job'[q].grant, 0>> /\ Fit(job[q].refresh)'
    BY <1>4, <1>6, <2>1 DEF Fresh, Fit, Accepted
  <2> QED
    BY <1>4, <1>13, <1>14, <2>1, <2>2 DEF Fresh
<1>16. Issued'
  <2>1. g <= paired /\ \A h \in Grant : h > paired => latest'[h] = 0
    BY <1>1, <1>2, <1>6 DEF Issued, TypeOK, Grant
  <2> QED
    BY <1>4, <1>13, <1>14, <2>1 DEF Issued
<1> QED
  BY <1>10, <1>11, <1>12, <1>15, <1>16 DEF Honour

LEMMA UpdateKeeps ==
    ASSUME IInv, NEW p \in Task, Step(p), Update(p)
    PROVE  Issued' /\ Honour'
<1> USE DEF IInv
<1>1. /\ pc[p] = "update" /\ pc'[p] = "save" /\ job' = job /\ auth' = Updated(p)
      /\ UNCHANGED <<disk, unsaved, paired, latest, excused>>
  BY DEF Update, Goto, TypeOK, spotify
<1>2. \A q \in Task \ {p} : pc'[q] = pc[q]
  BY Elsewhere
<1>3. \A q \in Task : /\ Carries(q)' <=> Carries(q)
                      /\ Pairs(q)' => Pairs(q) /\ q # p
                      /\ pc'[q] = "refreshing" => pc[q] = "refreshing"
                      /\ Arrived(q)' => Arrived(q)
                      /\ Arrived(q) => Arrived(q)' \/ (q = p /\ Lands(p)')
                      /\ Lands(q) => Lands(q)'
  BY <1>1, <1>2 DEF Carries, Pairs, Arrived, Lands
<1>4. \A t : Fit(t)' <=> Fit(t)
  BY <1>1 DEF Fit, Accepted
<1>5. ASSUME NEW t, Good(t) PROVE Good(t)' \/ Lands(p)'
  <2>1. CASE Fit(t)
    BY <1>4, <2>1 DEF Good
  <2>2. CASE ~Fit(t)
    <3>1. PICK q \in Task : Arrived(q) /\ job[q].refresh = <<t[1], latest[t[1]]>>
      BY <1>5, <2>2 DEF Good
    <3>2. CASE Arrived(q)'
      BY <1>1, <3>1, <3>2 DEF Good
    <3>3. CASE Lands(p)'
      BY <3>3
    <3> QED
      BY <1>3, <3>1, <3>2, <3>3
  <2> QED
    BY <2>1, <2>2
\* A successor that goes into the configuration, or a token that is good without it.
<1>6. Arrived(p) => \A q \in Task \ {p} : ~Arrived(q)
  BY OneRefreshes DEF Arrived, Refreshing
<1>7. \A t : Good(t) /\ ~Arrived(p) => Good(t)'
  BY <1>1, <1>3, <1>4 DEF Good
<1>8. \/ auth' = None \/ auth'.refresh = None
      \/ auth # None /\ auth.refresh # None /\ auth'.refresh = auth.refresh /\ ~Arrived(p)
      \/ Arrived(p) /\ auth'.refresh = job[p].refresh /\ Fit(job[p].refresh) /\ Carries(p)
      \/ Pairs(p) /\ auth'.refresh = job[p].refresh /\ job[p].refresh # None
  <2>1. job[p].what \in {"refresh", "wipe", "pair", "disconnect", "settings"}
    BY <1>1 DEF Jobs
  <2>2. CASE job[p].what = "settings"
    BY <1>1, <2>2 DEF Updated, Arrived
  <2>3. CASE job[p].what \in {"wipe", "disconnect"}
    BY <1>1, <2>3 DEF Updated
  <2>4. CASE job[p].what = "refresh"
    <3>1. Arrived(p) /\ Carries(p)
      BY <1>1, <2>4 DEF Arrived, Carries
    <3>2. job[p].refresh # None
      BY <3>1, TokensAre, NoneAssumption
    <3>3. auth'.refresh = job[p].refresh
      BY <1>1, <2>4, <3>2 DEF Updated
    <3> QED
      BY <3>1, <3>3 DEF Honour, HeldFit
  <2>5. CASE job[p].what = "pair"
    <3>1. auth'.refresh = IF job[p].refresh = None /\ auth # None THEN auth.refresh
                          ELSE job[p].refresh
      BY <1>1, <2>5 DEF Updated
    <3> QED
      BY <1>1, <2>5, <3>1 DEF Pairs, Arrived
  <2> QED
    BY <2>1, <2>2, <2>3, <2>4, <2>5
<1>9. AuthGood'
  <2> SUFFICES ASSUME auth' # None, auth'.refresh # None PROVE Good(auth.refresh)'
    BY DEF AuthGood
  <2>1. PICK t : t = auth'.refresh
    OBVIOUS
  <2>2. CASE auth # None /\ auth.refresh # None /\ auth'.refresh = auth.refresh /\ ~Arrived(p)
    BY <1>7, <2>1, <2>2, GoodOf DEF Honour, AuthGood
  <2>3. CASE Arrived(p) /\ auth'.refresh = job[p].refresh /\ Fit(job[p].refresh)
    BY <1>4, <2>1, <2>3, GoodOf DEF Good
  <2>4. CASE Pairs(p) /\ auth'.refresh = job[p].refresh /\ job[p].refresh # None
    <3>1. Fit(job[p].refresh)
      BY <2>4 DEF Honour, PairsFresh, Fresh
    <3> QED
      BY <1>4, <2>1, <2>4, <3>1, GoodOf DEF Good
  <2> QED
    BY <1>8, <2>2, <2>3, <2>4
<1>10. DiskGood'
  <2> SUFFICES ASSUME ~unsaved', disk' # None, disk'.refresh # None,
                      \A q \in Task : ~Lands(q)'
               PROVE  Good(disk.refresh)'
    BY DEF DiskGood
  <2>1. PICK t : t = disk.refresh /\ t = disk'.refresh
    BY <1>1
  <2>2. Good(t)
    BY <1>1, <1>3, <2>1 DEF Honour, DiskGood
  <2> QED
    BY <1>5, <2>1, <2>2, GoodOf
<1>11. HeldFit'
  BY <1>1, <1>3, <1>4 DEF Honour, HeldFit, Fit, Accepted
<1>12. PairsFresh'
  <2> SUFFICES ASSUME NEW q \in Task, Pairs(q)' PROVE Fresh(q)'
    BY DEF PairsFresh
  <2>1. Fresh(q) /\ q # p /\ Pairs(q)
    BY <1>3 DEF Honour, PairsFresh
  <2>2. auth' # None /\ auth'.refresh # None => auth'.refresh[1] # job[q].grant
    <3>1. CASE Pairs(p) /\ auth'.refresh = job[p].refresh /\ job[p].refresh # None
      <4>1. job[p].refresh = <<job[p].grant, 0>> /\ job[p].grant # job[q].grant
        BY <2>1, <3>1 DEF Honour, PairsFresh, Fresh
      <4> QED
        BY <3>1, <4>1
    <3> QED
      BY <1>8, <2>1, <3>1 DEF Fresh
  <2> QED
    BY <1>1, <1>3, <1>4, <2>1, <2>2 DEF Fresh, Fit, Accepted
<1>13. Issued'
  <2>1. auth' # None /\ auth'.refresh # None => auth'.refresh[1] <= paired
    <3>1. CASE Pairs(p) /\ auth'.refresh = job[p].refresh /\ job[p].refresh # None
      <4>1. job[p].refresh = <<job[p].grant, 0>> /\ job[p].grant <= paired
        BY <3>1 DEF Honour, PairsFresh, Fresh, Issued
      <4> QED
        BY <3>1, <4>1
    <3> QED
      BY <1>8, <3>1 DEF Issued
  <2> QED
    BY <1>1, <1>3, <2>1 DEF Issued
<1> QED
  BY <1>9, <1>10, <1>11, <1>12, <1>13 DEF Honour

LEMMA SavesKeep ==
    ASSUME IInv, NEW p \in Task, Step(p), Saves(p)
    PROVE  Issued' /\ Honour'
<1> USE DEF IInv
<1>1. /\ pc[p] = "save" /\ pc'[p] \in {"store", "paired", "idle"}
      /\ disk' = snap[p] \/ (disk' = disk /\ unsaved')
      /\ UNCHANGED <<auth, paired, latest, excused>>
  BY AfterSaves DEF End, TypeOK
<1>2. \A q \in Task \ {p} : pc'[q] = pc[q] /\ job'[q] = job[q]
  BY Elsewhere
<1>3. /\ writer = p /\ Session(snap[p]) = Session(auth) /\ snap[p] \in Auth \cup {None}
      /\ snap[p] = None <=> auth = None
  BY <1>1 DEF Locks, Snapshots, TypeOK
<1>4. snap[p] # None => auth # None /\ snap[p].refresh = auth.refresh
  BY <1>3 DEF Session, TypeOK
<1>5. \A q \in Task : /\ Carries(q)' => Carries(q) /\ job'[q] = job[q]
                      /\ Pairs(q)' <=> Pairs(q)
                      /\ Pairs(q)' => job'[q] = job[q]
                      /\ pc'[q] = "refreshing" => pc[q] = "refreshing" /\ job'[q] = job[q]
                      /\ Arrived(q)' <=> Arrived(q)
                      /\ Arrived(q)' => job'[q] = job[q]
  BY <1>1, <1>2 DEF Carries, Pairs, Arrived
<1>6. \A t : (Fit(t)' <=> Fit(t)) /\ (Good(t) => Good(t)')
  BY <1>1, <1>5 DEF Good, Fit, Accepted
<1>7. AuthGood'
  <2>1. PICK t : t = auth.refresh /\ t = auth'.refresh
    BY <1>1
  <2> QED
    BY <1>1, <1>6, <2>1, GoodOf DEF Honour, AuthGood
<1>8. DiskGood'
  <2> SUFFICES ASSUME ~unsaved', disk' # None, disk'.refresh # None PROVE Good(disk.refresh)'
    BY DEF DiskGood
  <2>1. PICK t : t = auth.refresh /\ t = disk'.refresh
    BY <1>1, <1>4
  <2>2. Good(t)
    BY <1>1, <1>4, <2>1 DEF Honour, AuthGood
  <2> QED
    BY <1>6, <2>1, <2>2, GoodOf
<1>9. HeldFit'
  BY <1>1, <1>5, <1>6 DEF Honour, HeldFit, Fit, Accepted
<1>10. PairsFresh'
  <2> SUFFICES ASSUME NEW q \in Task, Pairs(q)' PROVE Fresh(q)'
    BY DEF PairsFresh
  <2>1. Fresh(q) /\ job'[q] = job[q]
    BY <1>5 DEF Honour, PairsFresh
  <2>2. disk' # None /\ disk'.refresh # None => disk'.refresh[1] # job[q].grant
    BY <1>1, <1>4, <2>1 DEF Fresh
  <2> QED
    BY <1>1, <1>5, <1>6, <2>1, <2>2 DEF Fresh, Fit, Accepted
<1>11. Issued'
  <2>1. disk' # None /\ disk'.refresh # None => disk'.refresh[1] <= paired
    BY <1>1, <1>4 DEF Issued
  <2> QED
    BY <1>1, <1>5, <2>1 DEF Issued
<1> QED
  BY <1>7, <1>8, <1>9, <1>10, <1>11 DEF Honour

LEMMA PairKeeps ==
    ASSUME IInv, NEW p \in Task, Step(p), PairApproved(p)
    PROVE  Issued' /\ Honour'
<1> USE DEF IInv
<1>1. PICK r : /\ r = None \/ r = <<paired + 1, 0>>
               /\ job' = [job EXCEPT ![p] = [what |-> "pair", grant |-> paired + 1,
                                            refresh |-> r]]
  BY DEF PairApproved
<1>2. /\ pc[p] = "idle" /\ pc'[p] = "update" /\ paired' = paired + 1
      /\ job'[p].what = "pair" /\ job'[p].grant = paired + 1 /\ job'[p].refresh = r
      /\ UNCHANGED <<auth, disk, unsaved, latest, excused>>
  BY <1>1 DEF PairApproved, Goto, TypeOK, config, history
<1>3. \A q \in Task \ {p} : pc'[q] = pc[q] /\ job'[q] = job[q]
  BY Elsewhere
<1>4. \A q \in Task : /\ Carries(q)' => Carries(q) /\ job'[q] = job[q]
                      /\ Pairs(q)' => q = p \/ (Pairs(q) /\ job'[q] = job[q])
                      /\ pc'[q] = "refreshing" => pc[q] = "refreshing" /\ job'[q] = job[q]
                      /\ Arrived(q)' <=> Arrived(q)
                      /\ Arrived(q)' => job'[q] = job[q]
                      /\ Lands(q) => Lands(q)'
  BY <1>2, <1>3 DEF Carries, Pairs, Arrived, Lands
<1>5. \A t : (Fit(t)' <=> Fit(t)) /\ (Good(t) => Good(t)')
  BY <1>2, <1>4 DEF Good, Fit, Accepted
<1>6. paired \in Nat /\ paired + 1 \in Grant /\ latest[paired + 1] = 0
  BY Bounds DEF PairApproved, TypeOK, Grant, Issued
<1>7. AuthGood' /\ DiskGood'
  <2>1. PICK t, u : t = auth.refresh /\ t = auth'.refresh /\ u = disk.refresh /\ u = disk'.refresh
    BY <1>2
  <2>2. AuthGood'
    BY <1>2, <1>5, <2>1, GoodOf DEF Honour, AuthGood
  <2>3. DiskGood'
    BY <1>2, <1>4, <1>5, <2>1, GoodOf DEF Honour, DiskGood
  <2> QED
    BY <2>2, <2>3
<1>8. HeldFit'
  BY <1>2, <1>4, <1>5 DEF Honour, HeldFit, Fit, Accepted
<1>9. \A q \in Task : /\ Carries(q) => job[q].refresh[1] \in Grant /\ job[q].refresh[1] <= paired
                      /\ Pairs(q) => job[q].grant \in Grant /\ job[q].grant <= paired
  BY TokensAre, TokenParts DEF Issued, Jobs, Pairs
<1>10. /\ auth # None /\ auth.refresh # None
            => auth.refresh[1] \in Grant /\ auth.refresh[1] <= paired
       /\ disk # None /\ disk.refresh # None
            => disk.refresh[1] \in Grant /\ disk.refresh[1] <= paired
  BY TokensAre, TokenParts DEF Issued
<1>11. \A g \in Grant : g <= paired => g # paired + 1 /\ g <= paired + 1
  BY <1>6 DEF Grant
<1>12. PairsFresh'
  <2> SUFFICES ASSUME NEW q \in Task, Pairs(q)' PROVE Fresh(q)'
    BY DEF PairsFresh
  <2>1. CASE q = p
    <3>1. job'[p].refresh # None =>
              job'[p].refresh = <<job'[p].grant, 0>> /\ Fit(job[p].refresh)'
      BY <1>1, <1>2, <1>6 DEF Fit, Accepted
    <3>2. \A x \in Task : Carries(x)' => job'[x].refresh[1] # job'[p].grant
      BY <1>2, <1>4, <1>9, <1>11
    <3>3. \A x \in Task : Pairs(x)' /\ x # p => job'[x].grant # job'[p].grant
      BY <1>2, <1>4, <1>9, <1>11
    <3> QED
      BY <1>2, <1>10, <1>11, <2>1, <3>1, <3>2, <3>3 DEF Fresh
  <2>2. CASE q # p
    <3>1. Fresh(q) /\ Pairs(q) /\ job'[q] = job[q]
      BY <1>4, <2>2 DEF Honour, PairsFresh
    <3>2. \A x \in Task : Pairs(x)' /\ x # q => job'[x].grant # job'[q].grant
      BY <1>2, <1>4, <1>9, <1>11, <3>1 DEF Fresh
    <3> QED
      BY <1>2, <1>4, <1>5, <3>1, <3>2 DEF Fresh, Fit, Accepted
  <2> QED
    BY <2>1, <2>2
<1>13. Issued'
  <2>1. \A g \in Grant : g > paired' => latest'[g] = 0
    BY <1>2, <1>6 DEF Issued, Grant
  <2>2. \A q \in Task : Pairs(q)' => job'[q].grant <= paired'
    BY <1>2, <1>4, <1>6, <1>9, <1>11
  <2>3. \A q \in Task : Carries(q)' => job'[q].refresh[1] <= paired'
    BY <1>2, <1>4, <1>9, <1>11
  <2> QED
    BY <1>2, <1>10, <1>11, <2>1, <2>2, <2>3 DEF Issued
<1> QED
  BY <1>7, <1>8, <1>12, <1>13 DEF Honour

\* A reply that is lost takes the refresh token with it.
LEMMA LostIsCalm == ASSUME IInv, NEW p \in Task, Step(p), RefreshLost(p) PROVE Calm
<1> USE DEF IInv
<1>1. pc[p] = "refreshing" /\ pc'[p] = "idle" /\ Carries(p)
  BY DEF RefreshLost, Bail, End, TypeOK, Carries
<1>2. PICK t \in RefreshToken : t = job[p].refresh
  BY <1>1, TokensAre
<1>3. /\ latest' = [latest EXCEPT ![t[1]] = t[2] + 1] /\ excused' = excused \cup {t[1]}
      /\ UNCHANGED <<auth, disk, unsaved, paired>>
  BY <1>2 DEF RefreshLost, Bail, config
<1>4. t[1] <= paired /\ t[1] \in Grant
  BY <1>1, <1>2, TokenParts DEF Issued
<1>5. Pardoned
  BY <1>3, <1>4 DEF Pardoned, TypeOK
<1>6. \A q \in Task \ {p} : pc'[q] = pc[q] /\ job'[q] = job[q]
  BY Elsewhere
<1> QED
  BY <1>1, <1>3, <1>5, <1>6 DEF Calm, SameSession, Carries, Pairs

LEMMA LightIsCalm == ASSUME IInv, NEW p \in Task, Step(p), ~Weighs(p) PROVE Calm
<1> USE DEF IInv
<1>1. /\ UNCHANGED <<disk, unsaved, paired, latest, excused>> /\ SameSession
      /\ pc[p] \notin {"update", "save"} /\ ~Carries(p)' /\ ~Pairs(p)'
  BY Light DEF spotify
<1>2. \A q \in Task \ {p} : pc'[q] = pc[q] /\ job'[q] = job[q]
  BY Elsewhere
<1> QED
  BY <1>1, <1>2 DEF Calm, Pardoned

LEMMA AroundIsCalm == ASSUME IInv, Environment \/ UNCHANGED vars, ~Crash PROVE Calm
<1>1. UNCHANGED <<pc, job, disk, unsaved, paired>> /\ SameSession
  BY AroundSession DEF IInv, tasks
<1>2. Pardoned
  <2>1. CASE \E g \in Grant : Revoke(g)
    BY <2>1 DEF Revoke, Pardoned, IInv, TypeOK
  <2>2. CASE ~\E g \in Grant : Revoke(g)
    BY <2>2 DEF Environment, WaitOver, CacheExpires, AuthExpires, vars, spotify, history, Pardoned
  <2> QED
    BY <2>1, <2>2
<1> QED
  BY <1>1, <1>2 DEF Calm

\* After a crash the session is what the file holds, and a token that was not in it is lost.
LEMMA CrashKeeps == ASSUME IInv, Crash PROVE Issued' /\ Honour'
<1> USE DEF IInv
<1>1. /\ auth' = disk /\ ~unsaved' /\ UNCHANGED <<disk, paired, latest>>
      /\ excused' = excused \cup (IF Unwritten THEN Grant ELSE {})
      /\ \A q \in Task : pc'[q] = "idle"
  BY DEF Crash
<1>2. \A q \in Task : ~Carries(q)' /\ ~Pairs(q)' /\ ~Arrived(q)' /\ pc'[q] # "refreshing"
  BY <1>1 DEF Carries, Pairs, Arrived
<1>3. disk # None /\ disk.refresh # None => Good(disk.refresh)'
  <2> SUFFICES ASSUME disk # None, disk.refresh # None PROVE Good(disk.refresh)'
    OBVIOUS
  <2>1. PICK t \in RefreshToken : t = disk.refresh /\ t = disk'.refresh
    BY <1>1, TokensAre
  <2>2. Fit(t)'
    <3>1. CASE Unwritten
      BY <1>1, <3>1, TokenParts DEF Fit
    <3>2. CASE ~Unwritten
      <4>1. ~unsaved /\ \A q \in Task : ~Arrived(q) /\ ~Lands(q)
        BY <3>2 DEF Unwritten, Arrived, Lands
      <4>2. Fit(t)
        BY <2>1, <4>1 DEF Honour, DiskGood, Good
      <4> QED
        BY <1>1, <4>2 DEF Fit, Accepted
    <3> QED
      BY <3>1, <3>2
  <2> QED
    BY <2>1, <2>2, GoodOf DEF Good
<1>4. AuthGood'
  BY <1>1, <1>3 DEF AuthGood, Good, Fit, Accepted
<1>5. DiskGood'
  BY <1>1, <1>3 DEF DiskGood
<1>6. HeldFit' /\ PairsFresh'
  BY <1>2 DEF HeldFit, PairsFresh
<1>7. Issued'
  BY <1>1, <1>2 DEF Issued
<1> QED
  BY <1>4, <1>5, <1>6, <1>7 DEF Honour

LEMMA HonourNext == IInv /\ [Next]_vars => Issued' /\ Honour'
<1> SUFFICES ASSUME IInv, [Next]_vars PROVE Issued' /\ Honour'
  OBVIOUS
<1>1. TypeOK /\ Jobs /\ Issued /\ Honour
  BY DEF IInv
<1>2. ASSUME NEW p \in Task, Step(p) PROVE Issued' /\ Honour'
  <2>1. CASE ~Weighs(p)
    BY <1>1, <1>2, <2>1, LightIsCalm, CalmKeeps
  <2>2. CASE RefreshLost(p)
    BY <1>1, <1>2, <2>2, LostIsCalm, CalmKeeps
  <2> QED
    BY <1>2, <2>1, <2>2, SendRefreshKeeps, RefreshOkKeeps, UpdateKeeps, SavesKeep, PairKeeps
    DEF Weighs
<1>3. CASE (Environment \/ UNCHANGED vars) /\ ~Crash
  BY <1>1, <1>3, AroundIsCalm, CalmKeeps
<1>4. CASE Crash
  BY <1>4, CrashKeeps
<1> QED
  BY <1>2, <1>3, <1>4, Steps

-----------------------------------------------------------------------------
(* The theorems.                                                           *)

LEMMA IInvInit == Init => IInv
<1> SUFFICES ASSUME Init PROVE IInv
  OBVIOUS
<1>1. TypeOK /\ Jobs
  BY TypesInit
<1>2. \A p \in Task : pc[p] = "idle" /\ p # Nobody
  BY TaskAssumption DEF Init, Task
<1>3. Locks /\ Snapshots
  BY <1>2 DEF Init, Locks, Refreshing, Snapshots
<1>4. DiskFollows
  BY DEF Init, DiskFollows
<1>5. Issued
  BY <1>2 DEF Init, Issued, Carries, Pairs
<1>6. Honour
  BY <1>2 DEF Init, Honour, AuthGood, DiskGood, HeldFit, PairsFresh, Arrived, Pairs
<1> QED
  BY <1>1, <1>3, <1>4, <1>5, <1>6 DEF IInv

LEMMA IInvNext == IInv /\ [Next]_vars => IInv'
BY TypesNext, LocksNext, FollowsNext, HonourNext DEF IInv, Follows

LEMMA IInvAlways == Spec => []IInv
BY IInvInit, IInvNext, PTL DEF Spec

\* Every variable has its type, however many pairings and rotations there are.
THEOREM TypeCorrect == Spec => []TypeOK
BY IInvAlways, PTL DEF IInv

\* token_refresh lets one task at a time renew the session, and WRITER one write the file;
\* neither is left taken by a task that is gone, whichever way a refresh ends (access_token,
\* config::update).
LocksHaveHolders ==
    /\ \A p, q \in Task : /\ Refreshing(p) /\ Refreshing(q) => p = q
                          /\ pc[p] = "save" /\ pc[q] = "save" => p = q
    /\ refresher = Nobody \/ Refreshing(refresher)
    /\ writer = Nobody \/ pc[writer] = "save"

\* Whoever waits for a lock waits for a task that can go on: the holder of token_refresh waits
\* for WRITER at most, and the holder of WRITER for nothing.
WaitsEnd ==
    \A p \in Task :
        /\ pc[p] = "lock" =>
              \/ refresher = Nobody
              \/ pc[refresher] \in {"recheck", "refreshing", "store", "wipe", "save"}
              \/ pc[refresher] = "update" /\ (writer = Nobody \/ pc[writer] = "save")
        /\ pc[p] = "update" => writer = Nobody \/ pc[writer] = "save"

THEOREM LocksExclude == Spec => [](LocksHaveHolders /\ WaitsEnd)
<1>1. IInv => LocksHaveHolders
  BY DEF IInv, TypeOK, Locks, LocksHaveHolders
<1>2. IInv => WaitsEnd
  BY <1>1 DEF WaitsEnd, LocksHaveHolders, Refreshing
<1> QED
  BY <1>1, <1>2, IInvAlways, PTL

\* spotify.rs:66 and config.rs:139: the program never makes Spotify refuse its own refresh
\* token. Whatever the tasks and the admin do and wherever the program crashes, a token that
\* was rotated is sent again only after its successor was lost, unsaved or revoked.
THEOREM TokensAreHonoured == Spec => []OwnTokensHonoured
<1>1. IInv => OwnTokensHonoured
  BY DEF IInv, Honour, HeldFit, Fit, OwnTokensHonoured
<1> QED
  BY <1>1, IInvAlways, PTL

\* config.rs:139: when no update runs and the last save succeeded, the file holds the session
\* that is in memory, for updates of any number of tasks.
THEOREM FileFollows == Spec => []DiskFollows
<1>1. IInv => DiskFollows
  BY DEF IInv
<1> QED
  BY <1>1, IInvAlways, PTL
=============================================================================
