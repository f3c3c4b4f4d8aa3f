--------------------------------- MODULE Ytdlp ---------------------------------
(***************************************************************************)
(* YtdlpFetcher of src/audio/ytdlp.rs: the search and the download of one  *)
(* track, each a loop that runs yt-dlp again for a reason of its own       *)
(* (YouTube asks to sign in, a newer yt-dlp came in, a 403), the updater   *)
(* that also runs every few hours, and the user who puts cookies in place  *)
(* or takes them away.                                                     *)
(*                                                                         *)
(* download_lock lets one fetch run at a time (module Preparer).  What     *)
(* yt-dlp complains of is a set of reasons, and any set may come of any    *)
(* run.  The two limits of a loop, 90 seconds or 2 minutes a run and 2     *)
(* minutes an update, keep it well below the hour for which the cookies    *)
(* are used.                                                               *)
(***************************************************************************)
EXTENDS Naturals

CONSTANT MaxRemovals    \* bound: times the cookies vanish during one loop

VARIABLES
    pc,         \* where the fetch is
    phase,      \* which loop runs: flat_dump or download_to_cache
    signedIn,   \* logged_in_now
    complaints, \* what the last run said
    updated,    \* the loop has been repeated for a new version
    retried,    \* the loop has been repeated for a 403
    attempts,   \* runs of this loop
    result,     \* what fetch_track returns
    asked,      \* ASKED: not within the hour, before this loop, or by it
    cookies,    \* cookies_file finds a file
    removals,   \* times it was taken away during this loop
    present,    \* the yt-dlp binary is there
    holder,     \* who holds UPDATES
    checked,    \* UPDATES.0 is less than UPDATE_GAP ago
    renewed,    \* UPDATES.1 is less than UPDATE_GAP ago
    updatesOff  \* UPDATES_OFF

loop == <<phase, signedIn, complaints, updated, retried, attempts>>
login == <<asked, cookies, removals>>
updates == <<present, holder, checked, renewed, updatesOff>>
vars == <<pc, loop, result, login, updates>>

Complaint == {"signIn", "outdated", "forbidden"}

Init ==
    /\ pc = "idle" /\ phase = "search" /\ signedIn = FALSE /\ complaints = {}
    /\ updated = FALSE /\ retried = FALSE /\ attempts = 0 /\ result = "none"
    /\ asked = "no" /\ cookies \in BOOLEAN /\ removals = 0
    /\ present = FALSE /\ holder = "nobody" /\ checked = FALSE /\ renewed = FALSE
    /\ updatesOff = FALSE

Goto(from, to) == pc = from /\ pc' = to

\* logged_in.
LoggedIn == cookies /\ asked # "no"

-----------------------------------------------------------------------------
(* fetch_track.                                                            *)

Begin ==
    /\ Goto("idle", "tools")
    /\ UNCHANGED <<loop, result, login, updates>>

\* fetch_track returns r to prepare_inner.
Return(r) ==
    /\ pc' = "done"
    /\ result' = r
    /\ asked' = IF asked = "now" THEN "before" ELSE asked
    /\ UNCHANGED <<loop, cookies, removals>>

\* prepare_inner has taken the result.
End ==
    /\ Goto("done", "idle")
    /\ phase' = "search" /\ signedIn' = FALSE /\ complaints' = {}
    /\ updated' = FALSE /\ retried' = FALSE /\ attempts' = 0 /\ removals' = 0
    /\ result' = "none"
    /\ UNCHANGED <<asked, cookies, updates>>

ToolsThere ==
    /\ Goto("tools", "match")
    /\ present
    /\ UNCHANGED <<loop, result, login, updates>>

\* ensure_tools downloads what is missing, yt-dlp or Deno, under the lock of the updater.
\* Deno may be missing at any time: unlike yt-dlp, it is nobody else's concern.
LockTools ==
    /\ Goto("tools", "install")
    /\ holder = "nobody" /\ holder' = "fetch"
    /\ UNCHANGED <<loop, result, login, present, checked, renewed, updatesOff>>

\* A new yt-dlp counts as up to date.
YtdlpThere ==
    /\ present' = TRUE
    /\ updatesOff' = (updatesOff /\ present)
    /\ checked' = (checked \/ ~present)
    /\ UNCHANGED renewed

Install ==
    /\ Goto("install", "match")
    /\ YtdlpThere
    /\ holder' = "nobody"
    /\ UNCHANGED <<loop, result, login>>

\* yt-dlp cannot be had, or Deno.
InstallFails ==
    /\ pc = "install"
    /\ Return("failed")
    /\ \/ YtdlpThere
       \/ UNCHANGED <<present, checked, renewed, updatesOff>>
    /\ holder' = "nobody"

\* A loop starts.
Enter(p) ==
    /\ pc' = "look"
    /\ phase' = p /\ complaints' = {} /\ updated' = FALSE /\ retried' = FALSE
    /\ attempts' = 0 /\ removals' = 0
    /\ asked' = IF asked = "now" THEN "before" ELSE asked
    /\ UNCHANGED <<signedIn, result, cookies, updates>>

\* togematch-api names the video, or has no answer.
Match == pc = "match" /\ \E p \in {"search", "download"} : Enter(p)

NoMatch ==
    /\ \/ pc = "match"
       \/ pc = "found"
    /\ Return("noMatch")
    /\ UNCHANGED updates

Best == pc = "found" /\ Enter("download")

-----------------------------------------------------------------------------
(* The two loops.                                                          *)

Look ==
    /\ Goto("look", "run")
    /\ signedIn' = LoggedIn
    /\ attempts' = attempts + 1
    /\ UNCHANGED <<phase, complaints, updated, retried, result, login, updates>>

RunOk ==
    /\ Goto("run", IF phase = "search" THEN "found" ELSE "store")
    /\ UNCHANGED <<loop, result, login, updates>>

RunFails ==
    /\ Goto("run", "judge")
    /\ complaints' \in SUBSET Complaint
    /\ UNCHANGED <<phase, signedIn, updated, retried, attempts, result, login, updates>>

RunTimeout ==
    /\ pc = "run"
    /\ Return("failed")
    /\ UNCHANGED updates

\* The file is found, encoded, renamed and put into the cache, or one of these fails.
Store ==
    /\ pc = "store"
    /\ \E r \in {"ok", "failed"} : Return(r)
    /\ UNCHANGED updates

\* Mutated WantsSignIn: asked again although the cookies were used.
WantsSignInAgain == cookies /\ "signIn" \in complaints

WantsSignIn == ~signedIn /\ cookies /\ "signIn" \in complaints

\* logged_in is looked at again before anything else can run.
SignIn ==
    /\ Goto("judge", "run")
    /\ WantsSignIn
    /\ asked' = "now" /\ signedIn' = TRUE
    /\ attempts' = attempts + 1
    /\ UNCHANGED <<phase, complaints, updated, retried, result, cookies, removals, updates>>

WantsUpdate == ~updated /\ "outdated" \in complaints

TryUpdate ==
    /\ Goto("judge", "update")
    /\ ~WantsSignIn /\ WantsUpdate
    /\ UNCHANGED <<loop, result, login, updates>>

NeitherOfThem ==
    /\ Goto("judge", "forbidden")
    /\ ~WantsSignIn /\ ~WantsUpdate
    /\ UNCHANGED <<loop, result, login, updates>>

Forbidden ==
    /\ Goto("forbidden", "look")
    /\ phase = "download" /\ ~retried /\ "forbidden" \in complaints
    /\ retried' = TRUE
    /\ UNCHANGED <<phase, signedIn, complaints, updated, attempts, result, login, updates>>

GiveUp ==
    /\ pc = "forbidden"
    /\ ~(phase = "download" /\ ~retried /\ "forbidden" \in complaints)
    /\ Return("failed")
    /\ UNCHANGED updates

-----------------------------------------------------------------------------
(* update, called by a loop with UPDATE_GAP.                               *)

CannotUpdate ==
    /\ Goto("update", "forbidden")
    /\ updatesOff \/ ~present
    /\ UNCHANGED <<loop, result, login, updates>>

LockUpdates ==
    /\ Goto("update", "locked")
    /\ ~updatesOff /\ present
    /\ holder = "nobody" /\ holder' = "fetch"
    /\ UNCHANGED <<loop, result, login, present, checked, renewed, updatesOff>>

\* update has returned whether a new version came in.
Updated(new) ==
    /\ pc' = IF new THEN "look" ELSE "forbidden"
    /\ updated' = new
    /\ holder' = "nobody"
    /\ UNCHANGED <<phase, signedIn, complaints, retried, attempts, result, login, present>>

\* Another check was less than UPDATE_GAP ago.
CheckedLately ==
    /\ pc = "locked" /\ checked
    /\ Updated(renewed)
    /\ UNCHANGED <<checked, renewed, updatesOff>>

RunUpdate ==
    /\ Goto("locked", "updating")
    /\ ~checked
    /\ checked' = TRUE
    /\ UNCHANGED <<loop, result, login, present, holder, renewed, updatesOff>>

\* The outcomes of yt-dlp -U: a new version, none, or it says that it never can.
Outcome(new) ==
    \/ new /\ renewed' = TRUE /\ UNCHANGED updatesOff
    \/ ~new /\ UNCHANGED renewed /\ updatesOff' \in {updatesOff, TRUE}

UpdateRan ==
    /\ pc = "updating"
    /\ \E new \in BOOLEAN : Outcome(new) /\ Updated(new)
    /\ UNCHANGED checked

\* keep_updated, with no gap.
PeriodicStart ==
    /\ ~updatesOff /\ present
    /\ holder = "nobody" /\ holder' = "periodic"
    /\ checked' = TRUE
    /\ UNCHANGED <<pc, loop, result, login, present, renewed, updatesOff>>

PeriodicEnd ==
    /\ holder = "periodic" /\ holder' = "nobody"
    /\ \E new \in BOOLEAN : Outcome(new)
    /\ UNCHANGED <<pc, loop, result, login, present, checked>>

-----------------------------------------------------------------------------
(* The user and the clock.                                                 *)

CookiesAppear ==
    /\ ~cookies
    /\ cookies' = TRUE
    /\ UNCHANGED <<pc, loop, result, asked, removals, updates>>

CookiesVanish ==
    /\ cookies /\ removals < MaxRemovals
    /\ cookies' = FALSE
    /\ removals' = removals + 1
    /\ UNCHANGED <<pc, loop, result, asked, updates>>

\* README: delete the binary to force a new one.
Delete ==
    /\ present
    /\ present' = FALSE
    /\ UNCHANGED <<pc, loop, result, login, holder, checked, renewed, updatesOff>>

\* LOGGED_IN_FOR is over; a loop that has asked ends before that.
HourOver ==
    /\ asked = "before"
    /\ asked' = "no"
    /\ UNCHANGED <<pc, loop, result, cookies, removals, updates>>

\* UPDATE_GAP is over, for the check no later than for the version it brought in.
GapOver ==
    /\ holder = "nobody"
    /\ \/ checked /\ checked' = FALSE /\ UNCHANGED renewed
       \/ ~checked /\ renewed /\ renewed' = FALSE /\ UNCHANGED checked
    /\ UNCHANGED <<pc, loop, result, login, present, holder, updatesOff>>

-----------------------------------------------------------------------------
Fetch ==
    \/ ToolsThere \/ LockTools \/ Install \/ InstallFails \/ Match \/ NoMatch \/ Best
    \/ Look \/ RunOk \/ RunFails \/ RunTimeout \/ Store
    \/ SignIn \/ TryUpdate \/ NeitherOfThem \/ Forbidden \/ GiveUp
    \/ CannotUpdate \/ LockUpdates \/ CheckedLately \/ RunUpdate \/ UpdateRan

Environment ==
    \/ PeriodicStart \/ PeriodicEnd
    \/ CookiesAppear \/ CookiesVanish \/ Delete \/ HourOver \/ GapOver

Next == Begin \/ Fetch \/ End \/ Environment

Spec == Init /\ [][Next]_vars

-----------------------------------------------------------------------------
(* Properties.                                                             *)

\* Every variable has its type; a version is never newer than the check it came from.
TypeOK ==
    /\ pc \in {"idle", "tools", "install", "match", "look", "run", "found", "store",
               "judge", "update", "locked", "updating", "forbidden", "done"}
    /\ phase \in {"search", "download"} /\ complaints \subseteq Complaint
    /\ {signedIn, updated, retried, cookies, present, checked, renewed, updatesOff}
          \subseteq BOOLEAN
    /\ attempts \in Nat /\ removals \in 0..MaxRemovals
    /\ result \in {"none", "ok", "noMatch", "failed"}
    /\ asked \in {"no", "before", "now"}
    /\ holder \in {"nobody", "fetch", "periodic"}

\* ytdlp.rs:128 and :268: the reasons to run yt-dlp again cannot feed one another.  A loop
\* runs it once, and once more for each reason, unless the user keeps taking the cookies
\* away: dead cookies or a version that stays outdated end the loop.
AttemptsBounded ==
    attempts <= removals + IF phase = "search" THEN 3 ELSE 4
=============================================================================
