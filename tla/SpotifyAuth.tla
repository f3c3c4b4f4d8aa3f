----------------------------- MODULE SpotifyAuth -----------------------------
(***************************************************************************)
(* The Spotify session of src/spotify.rs, kept in src/config.rs: tasks that *)
(* send authorised requests (monitor, fetchers), the admin who pairs and    *)
(* disconnects, and Spotify, which may rotate the refresh token whenever it *)
(* is used.                                                                 *)
(*                                                                          *)
(* Tokens are told apart by what matters to the session: the grant (the     *)
(* pairing) an access token belongs to, and <<grant, rotation>> for a       *)
(* refresh token.  A cached token in its last minute is as good as none.    *)
(* What the plan check after a pairing concludes belongs to librespot and   *)
(* is left out here, the request it sends is not.                           *)
(***************************************************************************)
EXTENDS Naturals

CONSTANTS
    Request,        \* tasks that call send_authed_json
    Admin,          \* tasks that run a handler of the admin page
    Nobody,         \* no task
    None,           \* no session, no token
    MaxGrants,      \* bound: pairings
    MaxRotations    \* bound: rotations of the refresh token of a grant

ASSUME TaskAssumption == Request \cap Admin = {} /\ Nobody \notin Request \cup Admin
ASSUME BoundAssumption == {MaxGrants, MaxRotations} \subseteq Nat

VARIABLES
    pc,         \* where each task is
    retried,    \* send_authed_json: the second attempt is running
    job,        \* the update of the configuration, or the token, a task is busy with
    snap,       \* config::update: the snapshot a task writes to disk
    cache,      \* Inner.token_cache: the grant of the cached access token
    refresher,  \* the holder of Inner.token_refresh
    cooling,    \* Inner.rate_limit_until lies ahead
    auth,       \* Config.spotify_auth in memory
    writer,     \* the holder of config::update's WRITER
    disk,       \* Config.spotify_auth in the configuration file
    paired,     \* grants so far
    latest,     \* Spotify: the rotation of each grant it accepts
    unsaved,    \* history: the last save failed
    excused,    \* history: grants whose refresh token was lost or ended from outside
    signedOut   \* history: a disconnect was saved, and nothing paired since

tasks == <<pc, retried, job, snap>>
client == <<cache, refresher, cooling>>
config == <<auth, writer, disk, unsaved>>
spotify == <<paired, latest>>
history == <<excused, signedOut>>
vars == <<tasks, client, config, spotify, history>>

-----------------------------------------------------------------------------
Task == Request \cup Admin
Grant == 1..MaxGrants
RefreshToken == Grant \X (0..MaxRotations)
Auth == [grant : Grant, refresh : RefreshToken \cup {None}, fresh : BOOLEAN]
Job == [what : {"none", "use", "refresh", "wipe", "pair", "disconnect", "settings"},
        grant : Grant \cup {None}, refresh : RefreshToken \cup {None}]

ASSUME NoneAssumption == None \notin Auth \cup Grant \cup RefreshToken

NoJob == [what |-> "none", grant |-> None, refresh |-> None]

\* The rotation of a grant that has been revoked: no token carries it.
Gone == MaxRotations + 1

Init ==
    /\ pc = [p \in Task |-> "idle"]
    /\ retried = [p \in Task |-> FALSE]
    /\ job = [p \in Task |-> NoJob]
    /\ snap = [p \in Task |-> None]
    /\ cache = None /\ refresher = Nobody /\ cooling = FALSE
    /\ auth = None /\ writer = Nobody /\ disk = None /\ unsaved = FALSE
    /\ paired = 0 /\ latest = [g \in Grant |-> 0]
    /\ excused = {} /\ signedOut = FALSE

Goto(p, from, to) == pc[p] = from /\ pc' = [pc EXCEPT ![p] = to]

\* The task's handler or call is over.
End(p) ==
    /\ pc' = [pc EXCEPT ![p] = "idle"]
    /\ retried' = [retried EXCEPT ![p] = FALSE]
    /\ job' = [job EXCEPT ![p] = NoJob]
    /\ snap' = [snap EXCEPT ![p] = None]

-----------------------------------------------------------------------------
(* access_token: the cached token, or the stored one, or a refreshed one.  *)

Call(r) ==
    /\ Goto(r, "idle", "token")
    /\ UNCHANGED <<retried, job, snap, client, config, spotify, history>>

Cached(p) ==
    /\ Goto(p, "token", "wait")
    /\ cache # None
    /\ UNCHANGED <<retried, job, snap, client, config, spotify, history>>

NotCached(p) ==
    /\ Goto(p, "token", "lock")
    /\ cache = None
    /\ UNCHANGED <<retried, job, snap, client, config, spotify, history>>

\* Mutated Lock: refreshes are not serialised.
LockNothing(p) ==
    /\ Goto(p, "lock", "recheck")
    /\ refresher' = p
    /\ UNCHANGED <<retried, job, snap, cache, cooling, config, spotify, history>>

Lock(p) ==
    /\ Goto(p, "lock", "recheck")
    /\ refresher = Nobody
    /\ refresher' = p
    /\ UNCHANGED <<retried, job, snap, cache, cooling, config, spotify, history>>

RecheckCached(p) ==
    /\ Goto(p, "recheck", "wait")
    /\ cache # None
    /\ refresher' = Nobody
    /\ UNCHANGED <<retried, job, snap, cache, cooling, config, spotify, history>>

\* access_token fails, and with it the request.
Bail(p) ==
    /\ End(p)
    /\ refresher' = Nobody
    /\ UNCHANGED <<cache, cooling, config>>

\* No token cached meanwhile.  Nobody but the holder of the lock fills the cache, so
\* the second look at it and the look at the stored session are one step.
\* Not paired, or expired without a refresh token.
NoWayToRefresh(p) ==
    /\ pc[p] = "recheck" /\ cache = None
    /\ auth # None => ~auth.fresh /\ auth.refresh = None
    /\ Bail(p)
    /\ UNCHANGED <<spotify, history>>

UseStored(p) ==
    /\ Goto(p, "recheck", "store") /\ cache = None
    /\ auth # None /\ auth.fresh
    /\ job' = [job EXCEPT ![p] = [what |-> "use", grant |-> auth.grant, refresh |-> None]]
    /\ UNCHANGED <<retried, snap, client, config, spotify, history>>

SendRefresh(p) ==
    /\ Goto(p, "recheck", "refreshing") /\ cache = None
    /\ auth # None /\ ~auth.fresh /\ auth.refresh # None
    /\ job' = [job EXCEPT ![p] = [what |-> "refresh", grant |-> auth.refresh[1],
                                  refresh |-> auth.refresh]]
    /\ UNCHANGED <<retried, snap, client, config, spotify, history>>

Accepted(t) == latest[t[1]] = t[2]

\* Spotify's reply: the same refresh token or its successor.
RefreshOk(p) ==
    /\ Goto(p, "refreshing", "update")
    /\ LET t == job[p].refresh
       IN  /\ Accepted(t)
           /\ \E k \in {t[2], t[2] + 1} \cap (0..MaxRotations) :
                 /\ latest' = [latest EXCEPT ![t[1]] = k]
                 /\ job' = [job EXCEPT ![p].refresh = <<t[1], k>>]
    /\ UNCHANGED <<retried, snap, client, config, paired, history>>

\* Spotify rotates, its reply is lost.
RefreshLost(p) ==
    /\ pc[p] = "refreshing"
    /\ LET t == job[p].refresh
       IN  /\ Accepted(t)
           /\ latest' = [latest EXCEPT ![t[1]] = t[2] + 1]
           /\ excused' = excused \cup {t[1]}
    /\ Bail(p)
    /\ UNCHANGED <<paired, signedOut>>

RefreshFails(p) ==
    /\ pc[p] = "refreshing"
    /\ Bail(p)
    /\ UNCHANGED <<spotify, history>>

\* invalid_grant: the session is cleared.
RefreshRefused(p) ==
    /\ Goto(p, "refreshing", "wipe")
    /\ ~Accepted(job[p].refresh)
    /\ job' = [job EXCEPT ![p].what = "wipe"]
    /\ UNCHANGED <<retried, snap, client, config, spotify, history>>

\* The token enters the cache and is used.
Store(p) ==
    /\ Goto(p, "store", "wait")
    /\ cache' = job[p].grant
    /\ refresher' = Nobody
    /\ job' = [job EXCEPT ![p] = NoJob]
    /\ UNCHANGED <<retried, snap, cooling, config, spotify, history>>

-----------------------------------------------------------------------------
(* config::update: the change in memory with a snapshot, then the file.    *)

\* clear_session starts with the cached token.
WipeCache(p) ==
    /\ Goto(p, "wipe", "update")
    /\ cache' = None
    /\ UNCHANGED <<retried, job, snap, refresher, cooling, config, spotify, history>>

\* Config.spotify_auth once p has changed it: save_spotify_auth keeps the refresh
\* token it finds when it is given none.
Updated(p) ==
    CASE job[p].what = "settings" -> auth
      [] job[p].what \in {"wipe", "disconnect"} -> None
      [] job[p].what \in {"refresh", "pair"} ->
            [grant |-> job[p].grant, fresh |-> TRUE,
             refresh |-> IF job[p].refresh = None /\ auth # None THEN auth.refresh
                         ELSE job[p].refresh]

\* Mutated Update: no WRITER, snapshots may be written in any order.
UpdateUnserialised(p) ==
    /\ Goto(p, "update", "save")
    /\ auth' = Updated(p) /\ snap' = [snap EXCEPT ![p] = Updated(p)]
    /\ signedOut' = (signedOut /\ job[p].what # "pair")
    /\ UNCHANGED <<retried, job, client, writer, disk, unsaved, spotify, excused>>

Update(p) ==
    /\ writer = Nobody /\ writer' = p
    /\ Goto(p, "update", "save")
    /\ auth' = Updated(p) /\ snap' = [snap EXCEPT ![p] = Updated(p)]
    /\ signedOut' = (signedOut /\ job[p].what # "pair")
    /\ UNCHANGED <<retried, job, client, disk, unsaved, spotify, excused>>

\* What the caller of update does next; only a pairing minds a failure.
AfterSave(p, ok) ==
    CASE job[p].what = "refresh" ->
            /\ pc' = [pc EXCEPT ![p] = "store"] /\ snap' = [snap EXCEPT ![p] = None]
            /\ UNCHANGED <<retried, job, client, history>>
      [] job[p].what = "wipe" ->
            /\ End(p) /\ refresher' = Nobody
            /\ UNCHANGED <<cache, cooling, history>>
      [] job[p].what = "pair" /\ ok ->
            /\ pc' = [pc EXCEPT ![p] = "paired"] /\ snap' = [snap EXCEPT ![p] = None]
            /\ UNCHANGED <<retried, job, client, history>>
      [] job[p].what = "settings" \/ (job[p].what = "pair" /\ ~ok) ->
            /\ End(p) /\ UNCHANGED <<client, history>>
      [] job[p].what = "disconnect" ->
            /\ End(p) /\ signedOut' = ok
            /\ UNCHANGED <<client, excused>>

SaveOk(p) ==
    /\ pc[p] = "save"
    /\ disk' = snap[p] /\ unsaved' = FALSE /\ writer' = Nobody
    /\ AfterSave(p, TRUE)
    /\ UNCHANGED <<auth, spotify>>

\* The temporary file is removed, the old one stays.
SaveFails(p) ==
    /\ pc[p] = "save"
    /\ unsaved' = TRUE /\ writer' = Nobody
    /\ AfterSave(p, FALSE)
    /\ UNCHANGED <<auth, disk, spotify>>

-----------------------------------------------------------------------------
(* The admin page.                                                         *)

\* poll_device_token comes back with the tokens of a new grant.
PairApproved(a) ==
    /\ Goto(a, "idle", "update")
    /\ paired < MaxGrants
    /\ paired' = paired + 1
    /\ \E r \in {<<paired', 0>>, None} :
          job' = [job EXCEPT ![a] = [what |-> "pair", grant |-> paired', refresh |-> r]]
    /\ UNCHANGED <<retried, snap, client, config, latest, history>>

\* complete_pairing drops the cached token and asks Spotify for the plan.
Paired(a) ==
    /\ Goto(a, "paired", "token")
    /\ cache' = None
    /\ job' = [job EXCEPT ![a] = NoJob]
    /\ UNCHANGED <<retried, snap, refresher, cooling, config, spotify, history>>

Disconnect(a) ==
    /\ Goto(a, "idle", "wipe")
    /\ job' = [job EXCEPT ![a].what = "disconnect"]
    /\ UNCHANGED <<retried, snap, client, config, spotify, history>>

\* Any other change of the configuration: player, cache, password.
ChangeSettings(a) ==
    /\ Goto(a, "idle", "update")
    /\ job' = [job EXCEPT ![a].what = "settings"]
    /\ UNCHANGED <<retried, snap, client, config, spotify, history>>

-----------------------------------------------------------------------------
(* send_authed_json, once it has a token.                                  *)

Send(p) ==
    /\ Goto(p, "wait", "sent")
    /\ ~cooling
    /\ UNCHANGED <<retried, job, snap, client, config, spotify, history>>

Sleep(p) ==
    /\ Goto(p, "wait", "sleep")
    /\ cooling
    /\ UNCHANGED <<retried, job, snap, client, config, spotify, history>>

\* Mutated Unauthorized: 401 is always retried.
UnauthorizedAgain(p) ==
    /\ Goto(p, "sent", "forget")
    /\ UNCHANGED <<retried, job, snap, client, config, spotify, history>>

\* Until the deadline it read, whatever has become of the cooldown since.
Wake(p) ==
    /\ Goto(p, "sleep", "sent")
    /\ UNCHANGED <<retried, job, snap, client, config, spotify, history>>

\* 401 on the first attempt.
Unauthorized(p) ==
    /\ Goto(p, "sent", "forget")
    /\ ~retried[p]
    /\ retried' = [retried EXCEPT ![p] = TRUE]
    /\ UNCHANGED <<job, snap, client, config, spotify, history>>

Forget(p) ==
    /\ Goto(p, "forget", "invalidate")
    /\ cache' = None
    /\ UNCHANGED <<retried, job, snap, refresher, cooling, config, spotify, history>>

\* In memory only, and without WRITER.
Invalidate(p) ==
    /\ Goto(p, "invalidate", "token")
    /\ auth' = IF auth = None THEN None ELSE [auth EXCEPT !.fresh = FALSE]
    /\ UNCHANGED <<retried, job, snap, client, writer, disk, unsaved, spotify, history>>

TooManyRequests(p) ==
    /\ pc[p] = "sent"
    /\ End(p)
    /\ cooling' = TRUE
    /\ UNCHANGED <<cache, refresher, config, spotify, history>>

\* Any other failure, a second 401 and the 10-second timeout among them.
Fails(p) ==
    /\ pc[p] = "sent"
    /\ End(p)
    /\ UNCHANGED <<client, config, spotify, history>>

Succeeds(p) ==
    /\ pc[p] = "sent"
    /\ End(p)
    /\ cooling' = FALSE
    /\ UNCHANGED <<cache, refresher, config, spotify, history>>

-----------------------------------------------------------------------------
(* Time, Spotify's user, and a crash followed by config::init.             *)

\* The wait that Spotify asked for is over.
WaitOver ==
    /\ cooling
    /\ cooling' = FALSE
    /\ UNCHANGED <<tasks, cache, refresher, config, spotify, history>>

CacheExpires ==
    /\ cache # None
    /\ cache' = None
    /\ UNCHANGED <<tasks, refresher, cooling, config, spotify, history>>

AuthExpires ==
    /\ auth # None /\ auth.fresh
    /\ auth' = [auth EXCEPT !.fresh = FALSE]
    /\ UNCHANGED <<tasks, client, writer, disk, unsaved, spotify, history>>

Revoke(g) ==
    /\ g <= paired /\ latest[g] # Gone
    /\ latest' = [latest EXCEPT ![g] = Gone]
    /\ excused' = excused \cup {g}
    /\ UNCHANGED <<tasks, client, config, paired, signedOut>>

\* A rotated token that has arrived and is not on disk.
Unwritten ==
    \/ unsaved
    \/ \E p \in Task : pc[p] \in {"update", "save"} /\ job[p].what = "refresh"

Crash ==
    /\ pc' = [p \in Task |-> "idle"]
    /\ retried' = [p \in Task |-> FALSE]
    /\ job' = [p \in Task |-> NoJob]
    /\ snap' = [p \in Task |-> None]
    /\ cache' = None /\ refresher' = Nobody /\ cooling' = FALSE
    /\ auth' = disk /\ writer' = Nobody /\ unsaved' = FALSE
    /\ excused' = excused \cup (IF Unwritten THEN Grant ELSE {})
    /\ UNCHANGED <<disk, paired, latest, signedOut>>

-----------------------------------------------------------------------------
Local(p) ==
    \/ Cached(p) \/ NotCached(p) \/ RecheckCached(p)
    \/ NoWayToRefresh(p) \/ UseStored(p) \/ SendRefresh(p) \/ Store(p)
    \/ WipeCache(p) \/ SaveOk(p) \/ SaveFails(p) \/ Paired(p)
    \/ Send(p) \/ Sleep(p) \/ Wake(p) \/ Forget(p) \/ Invalidate(p)

Reply(p) ==
    \/ RefreshOk(p) \/ RefreshLost(p) \/ RefreshFails(p) \/ RefreshRefused(p)
    \/ Unauthorized(p) \/ TooManyRequests(p) \/ Fails(p) \/ Succeeds(p)

AdminStarts(a) == PairApproved(a) \/ Disconnect(a) \/ ChangeSettings(a)

Environment == WaitOver \/ CacheExpires \/ AuthExpires \/ (\E g \in Grant : Revoke(g)) \/ Crash

Next ==
    \/ \E p \in Task : Local(p) \/ Reply(p) \/ Lock(p) \/ Update(p)
    \/ \E r \in Request : Call(r)
    \/ \E a \in Admin : AdminStarts(a)
    \/ Environment

Spec == Init /\ [][Next]_vars

\* Tasks are scheduled, every request is answered or times out after ten seconds
\* and Retry-After passes; both mutexes serve whoever waits for them in the end.
Fairness ==
    /\ WF_vars(WaitOver)
    /\ \A p \in Task : WF_vars(Local(p) \/ Reply(p)) /\ SF_vars(Lock(p) \/ Update(p))

FairSpec == Spec /\ Fairness

-----------------------------------------------------------------------------
(* Properties.                                                             *)

\* Every variable has its type.
TypeOK ==
    /\ pc \in [Task -> {"idle", "token", "lock", "recheck", "store", "refreshing",
                        "wipe", "update", "save", "paired", "wait", "sleep", "sent", "forget",
                        "invalidate"}]
    /\ retried \in [Task -> BOOLEAN] /\ job \in [Task -> Job]
    /\ snap \in [Task -> Auth \cup {None}]
    /\ cache \in Grant \cup {None} /\ refresher \in Task \cup {Nobody}
    /\ cooling \in BOOLEAN
    /\ auth \in Auth \cup {None} /\ disk \in Auth \cup {None}
    /\ writer \in Task \cup {Nobody} /\ unsaved \in BOOLEAN
    /\ paired \in 0..MaxGrants /\ latest \in [Grant -> 0..Gone]
    /\ excused \subseteq Grant /\ signedOut \in BOOLEAN

\* spotify.rs:66 and config.rs:139: the program never brings about a refusal of its
\* own refresh token. A token that Spotify has rotated is not sent again, neither by
\* a task that missed the cache at the same time nor after a restart, unless its
\* successor was lost on the way, its save failed, or the user revoked the grant.
OwnTokensHonoured ==
    \A p \in Task : pc[p] = "refreshing" =>
        Accepted(job[p].refresh) \/ job[p].refresh[1] \in excused

\* config.rs:139, "an older snapshot never lands on disk after a newer one": when no
\* update runs and the last save succeeded, the file holds the session in memory.
Session(a) == IF a = None THEN None ELSE <<a.grant, a.refresh>>
DiskFollows == writer = Nobody /\ ~unsaved => Session(disk) = Session(auth)

\* A request ends, whatever Spotify answers and however many tasks want the token.
EveryRequestEnds == \A p \in Task : pc[p] # "idle" ~> pc[p] = "idle"

\* workers.rs:45, "just disconnected reads as nothing playing": once a disconnect is
\* over and until the next pairing there is no session.
DisconnectHolds == signedOut => auth = None
=============================================================================
