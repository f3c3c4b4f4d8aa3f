------------------------------- MODULE Librespot -------------------------------
(***************************************************************************)
(* LibrespotFetcher of src/audio/librespot_src.rs: the session it keeps,   *)
(* the cooldown after an authentication failure and the formats an account *)
(* was refused, together with the handlers of the admin page that change   *)
(* the account under it (pairing, disconnecting), the tokens of            *)
(* src/spotify.rs that all of them share, and the switch USE_LIBRESPOT     *)
(* that a plan check sets (PLAN beside it is only shown to the admin).     *)
(*                                                                         *)
(* download_lock lets one fetch run at a time (module Preparer).  A token  *)
(* is known by its account; whether Spotify still honours it, and how      *)
(* often a request is sent again after a 401, is the business of module    *)
(* SpotifyAuth.  access_token lets one caller refresh at a time and puts   *)
(* what it got into token_cache: here the refresh is nobody's in           *)
(* particular, and whoever waits for a token takes it from there, or goes  *)
(* without one.                                                            *)
(***************************************************************************)
CONSTANTS
    Account,    \* Spotify accounts the user may pair
    NoAccount,  \* not paired, no session
    Admin       \* tasks that run a handler of the admin page

ASSUME AccountAssumption == NoAccount \notin Account

VARIABLES
    doing,             \* where the fetch is
    token,          \* the account of the token that ensure_session has
    planToken,      \* the account of the token that its plan request carries
    using,          \* the account of the session that the fetch has cloned
    apc,            \* where each handler is
    handlerToken,   \* the account of the token that a handler's plan request carries
    cleared,        \* history: the account a handler has disconnected for good
    answer,         \* a handler has been told that the plan is Premium
    paired,         \* the account in Config.spotify_auth
    cachedToken,    \* the account of token_cache, unless that has run out
    refreshing,     \* the account whose stored tokens access_token has read
    tokensKept,     \* the refreshed tokens are in Config.spotify_auth
    useLibrespot,   \* USE_LIBRESPOT
    session,        \* the account of LibrespotFetcher.session
    invalid,        \* Session::is_invalid
    held,           \* ensure_session holds the session mutex
    cooling,        \* cooldown_until lies ahead
    refused,        \* the accounts whose refusals the set refused holds
    plan,           \* Spotify: the accounts that are Premium
    excuse,         \* history: why the plan check under way may be of no use
    exited,         \* history: librespot-core has ended the process
    left            \* history: accounts disconnected for good, with the reset done

fetch == <<doing, token, planToken, using>>
handlers == <<apc, handlerToken, cleared, answer>>
shared == <<session, invalid, held, cooling, refused>>
tokens == <<cachedToken, refreshing, tokensKept>>
outside == <<paired, plan>>
history == <<excuse, exited, left>>
librespot == <<fetch, handlers, useLibrespot, shared, tokens, outside, history>>

AnyAccount == Account \cup {NoAccount}

\* The server starts after the first plan check, if there is an account to check.
LibrespotInit ==
    /\ doing = "idle" /\ token = NoAccount /\ planToken = NoAccount /\ using = NoAccount
    /\ apc = [h \in Admin |-> "idle"]
    /\ handlerToken = [h \in Admin |-> NoAccount]
    /\ cleared = [h \in Admin |-> NoAccount]
    /\ answer = [h \in Admin |-> FALSE]
    /\ plan \in SUBSET Account
    /\ paired \in AnyAccount
    /\ useLibrespot \in BOOLEAN
    /\ useLibrespot => paired \in plan \cup {NoAccount}
    /\ cachedToken \in {paired, NoAccount} /\ refreshing = NoAccount /\ tokensKept = FALSE
    /\ session = NoAccount /\ invalid = FALSE /\ held = FALSE /\ cooling = FALSE
    /\ refused = {}
    /\ excuse = "none" /\ exited = FALSE /\ left = {}

Turn(from, to) == doing = from /\ doing' = to

\* ensure_session has a token and waits to hear of the plan.
Checking == doing \in {"plan", "asked"}

\* Config.spotify_auth becomes that of account a, or of none.
Stored(a) ==
    /\ paired' = a
    /\ excuse' = IF Checking /\ a # paired THEN "account" ELSE excuse

\* Whoever had been disconnected is not any more.
Pairs(a) ==
    /\ Stored(a)
    /\ left' = left \ {a}
    /\ cleared' = [h \in Admin |-> IF cleared[h] = a THEN NoAccount ELSE cleared[h]]

-----------------------------------------------------------------------------
(* prepare_inner and fetch_track.                                          *)

BeginFetch ==
    /\ Turn("idle", IF useLibrespot THEN "cooldown" ELSE "ytdlp")
    /\ UNCHANGED <<token, planToken, using, handlers, useLibrespot, shared, tokens, outside,
                   history>>

Cooldown ==
    /\ Turn("cooldown", IF cooling THEN "ytdlp" ELSE "want")
    /\ UNCHANGED <<token, planToken, using, handlers, useLibrespot, shared, tokens, outside,
                   history>>

\* Mutated Acquire: the session is looked at under the mutex, and connected without it.
AcquireBriefly ==
    /\ Turn("want", "slot")
    /\ ~held
    /\ UNCHANGED <<token, planToken, using, handlers, useLibrespot, shared, tokens, outside,
                   history>>

\* ensure_session holds the mutex until it returns.
Acquire ==
    /\ Turn("want", "slot")
    /\ ~held /\ held' = TRUE
    /\ UNCHANGED <<token, planToken, using, handlers, useLibrespot, session, invalid,
                   cooling, refused, tokens, outside, history>>

Valid == session # NoAccount /\ ~invalid

\* ensure_session returns: the mutex is free again.
Leave(to) ==
    /\ doing' = to
    /\ token' = NoAccount /\ planToken' = NoAccount /\ excuse' = "none"
    /\ held' = FALSE

Reuse ==
    /\ doing = "slot" /\ Valid
    /\ Leave("download")
    /\ using' = session
    /\ UNCHANGED <<handlers, useLibrespot, session, invalid, cooling, refused, tokens,
                   outside, exited, left>>

\* The token is of the account paired, unless that changes or a stale one was in the cache.
AskToken ==
    /\ Turn("slot", "plan") /\ ~Valid
    /\ cachedToken # NoAccount
    /\ token' = cachedToken
    /\ excuse' = IF cachedToken = paired THEN "none" ELSE "account"
    /\ UNCHANGED <<planToken, using, handlers, useLibrespot, shared, tokens, outside,
                   exited, left>>

\* Not paired, or the refresh failed.
NoToken ==
    /\ doing = "slot" /\ ~Valid
    /\ cachedToken = NoAccount
    /\ Leave("authFailed")
    /\ UNCHANGED <<using, handlers, useLibrespot, session, invalid, cooling, refused,
                   tokens, outside, exited, left>>

\* account_is_premium asks for a token of its own.
AskPlan ==
    /\ Turn("plan", "asked")
    /\ cachedToken # NoAccount /\ planToken' = cachedToken
    /\ UNCHANGED <<token, using, handlers, useLibrespot, shared, tokens, outside, history>>

\* 401: the cached token is dropped, and another asked for.
PlanRefused ==
    /\ Turn("asked", "plan")
    /\ planToken' = NoAccount
    /\ cachedToken' = NoAccount
    /\ UNCHANGED <<token, using, handlers, useLibrespot, shared, refreshing, tokensKept,
                   outside, history>>

\* Mutated CheckPlan: a session is connected whatever the answer.
CheckNothing ==
    /\ Turn("asked", "connect")
    /\ planToken' = NoAccount
    /\ UNCHANGED <<token, using, handlers, useLibrespot, shared, tokens, outside, history>>

CheckPlan ==
    /\ Turn("asked", "connect")
    /\ planToken \in plan /\ planToken' = NoAccount
    /\ UNCHANGED <<token, using, handlers, useLibrespot, shared, tokens, outside, history>>

PlanIsFree ==
    /\ doing = "asked" /\ planToken \notin plan
    /\ useLibrespot' = FALSE
    /\ Leave("ytdlp")
    /\ UNCHANGED <<using, handlers, session, invalid, cooling, refused, tokens, outside,
                   exited, left>>

\* No token, or no answer.
PlanUnknown ==
    /\ \/ doing = "plan" /\ cachedToken = NoAccount
       \/ doing = "asked"
    /\ Leave("ytdlp")
    /\ UNCHANGED <<using, handlers, useLibrespot, session, invalid, cooling, refused,
                   tokens, outside, exited, left>>

\* Mutated Connect: what an earlier account was refused is kept.
ConnectKeeping ==
    /\ doing = "connect"
    /\ token \in plan
    /\ session' = token /\ using' = token /\ invalid' = FALSE
    /\ Leave("download")
    /\ UNCHANGED <<handlers, useLibrespot, cooling, refused, tokens, outside, exited, left>>

Connect ==
    /\ doing = "connect"
    /\ token \in plan
    /\ session' = token /\ using' = token /\ invalid' = FALSE /\ refused' = {}
    /\ Leave("download")
    /\ UNCHANGED <<handlers, useLibrespot, cooling, tokens, outside, exited, left>>

ConnectFails ==
    /\ doing = "connect"
    /\ Leave("authFailed")
    /\ UNCHANGED <<using, handlers, useLibrespot, session, invalid, cooling, refused,
                   tokens, outside, exited, left>>

\* librespot-core ends the process when the account it connects is not Premium.
Exits ==
    /\ Turn("connect", "gone")
    /\ token \notin plan
    /\ exited' = TRUE
    /\ UNCHANGED <<token, planToken, using, handlers, useLibrespot, shared, tokens, outside,
                   excuse, left>>

\* The rest of fetch_track_inner: the formats refused before another was granted are kept.
Download ==
    /\ doing = "download"
    /\ \/ doing' = "idle" /\ refused' \in {refused, refused \cup {using}}
       \/ doing' = "ytdlp" /\ refused' \in {refused, refused \cup {using}}
       \/ doing' = "authFailed" /\ UNCHANGED refused
    /\ using' = NoAccount
    /\ UNCHANGED <<token, planToken, handlers, useLibrespot, session, invalid, held,
                   cooling, tokens, outside, history>>

StartCooldown ==
    /\ Turn("authFailed", "drop")
    /\ cooling' = TRUE
    /\ UNCHANGED <<token, planToken, using, handlers, useLibrespot, session, invalid, held,
                   refused, tokens, outside, history>>

DropSession ==
    /\ Turn("drop", "ytdlp")
    /\ ~held
    /\ session' = NoAccount /\ invalid' = FALSE
    /\ UNCHANGED <<token, planToken, using, handlers, useLibrespot, held, cooling, refused,
                   tokens, outside, history>>

\* YtdlpFetcher is done as well, with a file or without (module Ytdlp).
YtdlpEnds ==
    /\ Turn("ytdlp", "idle")
    /\ UNCHANGED <<token, planToken, using, handlers, useLibrespot, shared, tokens, outside,
                   history>>

-----------------------------------------------------------------------------
(* access_token, for whoever holds token_refresh: the fetch, a handler, or *)
(* the monitor.                                                            *)

StartRefresh ==
    /\ refreshing = NoAccount /\ cachedToken = NoAccount
    /\ paired # NoAccount
    /\ refreshing' = paired
    /\ UNCHANGED <<fetch, handlers, useLibrespot, shared, cachedToken, tokensKept, outside,
                   history>>

\* save_spotify_auth writes over what is stored by now.
SaveTokens ==
    /\ refreshing # NoAccount /\ ~tokensKept
    /\ tokensKept' = TRUE
    /\ Pairs(refreshing)
    /\ UNCHANGED <<fetch, apc, handlerToken, answer, useLibrespot, shared, cachedToken,
                   refreshing, plan, exited>>

\* The new token, or the stored one if that was good still.
CacheToken ==
    /\ refreshing # NoAccount
    /\ cachedToken' = refreshing
    /\ refreshing' = NoAccount /\ tokensKept' = FALSE
    /\ UNCHANGED <<fetch, handlers, useLibrespot, shared, outside, history>>

RefreshFails ==
    /\ refreshing # NoAccount /\ ~tokensKept
    /\ refreshing' = NoAccount
    /\ UNCHANGED <<fetch, handlers, useLibrespot, shared, cachedToken, tokensKept, outside,
                   history>>

\* invalid_grant: clear_session forgets whoever is paired by now.
Revoked ==
    /\ refreshing # NoAccount /\ ~tokensKept
    /\ refreshing' = NoAccount /\ cachedToken' = NoAccount
    /\ Stored(NoAccount)
    /\ UNCHANGED <<fetch, handlers, useLibrespot, shared, tokensKept, plan, exited, left>>

\* The token runs out, or another request has met a 401.
TokenGone ==
    /\ cachedToken # NoAccount
    /\ cachedToken' = NoAccount
    /\ UNCHANGED <<fetch, handlers, useLibrespot, shared, refreshing, tokensKept, outside,
                   history>>

-----------------------------------------------------------------------------
(* The admin page.                                                         *)

Step(h, from, to) == apc[h] = from /\ apc' = [apc EXCEPT ![h] = to]

\* clear_cached_token, by clear_session and by complete_pairing.
ClearToken(h) ==
    /\ \/ Step(h, "idle", "forget")
       \/ Step(h, "paired", "sync")
    /\ cachedToken' = NoAccount
    /\ UNCHANGED <<fetch, handlerToken, cleared, answer, useLibrespot, shared, refreshing,
                   tokensKept, outside, history>>

\* The rest of clear_session.  An account whose tokens access_token is about to store, or has
\* put into the cache again, may come back (SpotifyAuth: DisconnectHolds); any other is gone
\* for good.
Disconnect(h) ==
    /\ Step(h, "forget", "reset")
    /\ Stored(NoAccount)
    /\ cleared' = [cleared EXCEPT ![h] =
                      IF paired \in {cachedToken, refreshing} THEN NoAccount ELSE paired]
    /\ UNCHANGED <<fetch, handlerToken, answer, useLibrespot, shared, tokens, plan, exited,
                   left>>

ResetSession(h) ==
    /\ Step(h, "reset", "resetCooldown")
    /\ ~held
    /\ session' = NoAccount /\ invalid' = FALSE
    /\ left' = left \cup ({cleared[h]} \ {NoAccount})
    /\ cleared' = [cleared EXCEPT ![h] = NoAccount]
    /\ UNCHANGED <<fetch, handlerToken, answer, useLibrespot, held, cooling, refused,
                   tokens, outside, excuse, exited>>

ResetCooldown(h) ==
    /\ Step(h, "resetCooldown", "off")
    /\ cooling' = FALSE
    /\ UNCHANGED <<fetch, handlerToken, cleared, answer, useLibrespot, session, invalid,
                   held, refused, tokens, outside, history>>

SwitchOff(h) ==
    /\ Step(h, "off", "idle")
    /\ useLibrespot' = FALSE
    /\ UNCHANGED <<fetch, handlerToken, cleared, answer, shared, tokens, outside, history>>

\* complete_pairing saves the new account first, and stops there if the file cannot be
\* written: the account is in memory all the same.
Pair(h, a) ==
    /\ \/ Step(h, "idle", "paired")
       \/ Step(h, "idle", "idle")
    /\ Pairs(a)
    /\ UNCHANGED <<fetch, handlerToken, answer, useLibrespot, shared, tokens, plan, exited>>

\* account_is_premium, for sync_librespot_for_subscription.
HandlerAsks(h) ==
    /\ Step(h, "sync", "asked")
    /\ cachedToken # NoAccount
    /\ handlerToken' = [handlerToken EXCEPT ![h] = cachedToken]
    /\ UNCHANGED <<fetch, cleared, answer, useLibrespot, shared, tokens, outside, history>>

HandlerRefused(h) ==
    /\ Step(h, "asked", "sync")
    /\ handlerToken' = [handlerToken EXCEPT ![h] = NoAccount]
    /\ cachedToken' = NoAccount
    /\ UNCHANGED <<fetch, cleared, answer, useLibrespot, shared, refreshing, tokensKept,
                   outside, history>>

PlanAnswer(h) ==
    /\ \/ Step(h, "sync", "answer") /\ cachedToken = NoAccount /\ UNCHANGED answer
       \/ /\ Step(h, "asked", "answer")
          /\ \E premium \in BOOLEAN :
                /\ premium => handlerToken[h] \in plan
                /\ answer' = [answer EXCEPT ![h] = premium]
    /\ handlerToken' = [handlerToken EXCEPT ![h] = NoAccount]
    /\ UNCHANGED <<fetch, cleared, useLibrespot, shared, tokens, outside, history>>

\* sync_librespot_for_subscription.
SwitchByPlan(h) ==
    /\ Step(h, "answer", "idle")
    /\ useLibrespot' = answer[h]
    /\ answer' = [answer EXCEPT ![h] = FALSE]
    /\ UNCHANGED <<fetch, handlerToken, cleared, shared, tokens, outside, history>>

-----------------------------------------------------------------------------
(* Spotify and the clock.                                                  *)

PlanChanges(a) ==
    /\ plan' = IF a \in plan THEN plan \ {a} ELSE plan \cup {a}
    /\ excuse' = IF doing = "connect" /\ a = token THEN "plan" ELSE excuse
    /\ UNCHANGED <<fetch, handlers, useLibrespot, shared, tokens, paired, exited, left>>

SessionBreaks ==
    /\ session # NoAccount
    /\ invalid' = TRUE
    /\ UNCHANGED <<fetch, handlers, useLibrespot, session, held, cooling, refused, tokens,
                   outside, history>>

CooldownOver ==
    /\ cooling
    /\ cooling' = FALSE
    /\ UNCHANGED <<fetch, handlers, useLibrespot, session, invalid, held, refused, tokens,
                   outside, history>>

-----------------------------------------------------------------------------
Fetch ==
    \/ Cooldown \/ Acquire \/ Reuse \/ AskToken \/ NoToken
    \/ AskPlan \/ PlanRefused \/ CheckPlan \/ PlanIsFree \/ PlanUnknown
    \/ Connect \/ ConnectFails \/ Exits
    \/ Download \/ StartCooldown \/ DropSession

Refresh == StartRefresh \/ SaveTokens \/ CacheToken \/ RefreshFails \/ Revoked

Handle(h) ==
    \/ ClearToken(h) \/ Disconnect(h)
    \/ ResetSession(h) \/ ResetCooldown(h) \/ SwitchOff(h)
    \/ HandlerAsks(h) \/ HandlerRefused(h) \/ PlanAnswer(h) \/ SwitchByPlan(h)

Environment ==
    \/ TokenGone \/ SessionBreaks \/ CooldownOver
    \/ \E a \in Account : PlanChanges(a)

\* Nothing runs on after the process has ended.
LibrespotNext ==
    /\ ~exited
    /\ \/ BeginFetch \/ Fetch \/ YtdlpEnds
       \/ Refresh
       \/ \E h \in Admin : Handle(h) \/ \E a \in Account : Pair(h, a)
       \/ Environment

LibrespotSpec == LibrespotInit /\ [][LibrespotNext]_librespot

-----------------------------------------------------------------------------
(* Properties.                                                             *)

\* Every variable has its type.
LibrespotTypeOK ==
    /\ doing \in {"idle", "cooldown", "want", "slot", "plan", "asked", "connect", "download",
                  "authFailed", "drop", "ytdlp", "gone"}
    /\ token \in AnyAccount /\ planToken \in AnyAccount /\ using \in AnyAccount
    /\ session \in AnyAccount /\ paired \in AnyAccount
    /\ cachedToken \in AnyAccount /\ refreshing \in AnyAccount
    /\ apc \in [Admin -> {"idle", "forget", "reset", "resetCooldown", "off",
                          "paired", "sync", "asked", "answer"}]
    /\ handlerToken \in [Admin -> AnyAccount] /\ cleared \in [Admin -> AnyAccount]
    /\ answer \in [Admin -> BOOLEAN]
    /\ useLibrespot \in BOOLEAN /\ tokensKept \in BOOLEAN /\ invalid \in BOOLEAN
    /\ held \in BOOLEAN /\ cooling \in BOOLEAN /\ exited \in BOOLEAN
    /\ excuse \in {"none", "account", "plan"}
    /\ refused \subseteq Account /\ plan \subseteq Account /\ left \subseteq Account

\* prepare.rs:64, librespot_src.rs:73: once a disconnect has reset the fetcher, nothing is
\* fetched any more with a session of that account, although the reset may come while a
\* fetch has its token.  Not said of an account whose tokens access_token had in hand, or in
\* the cache again, when it was disconnected: that one may come back (Disconnect).
SessionForgotten == session \notin left

\* librespot_src.rs:255: the account that is connected is the one whose plan was found to be
\* Premium, and only a plan that lapses between the check and the connection ends the
\* process.  The exception is a fetch whose token and plan check may be of two accounts:
\* another account was paired before the plan was told, or the token was stale already
\* (complete_pairing saves the new account before it clears the cached token).
ExitExcused == exited => excuse # "none"

\* librespot_src.rs:271: what one account was refused is never held against another.
RefusalsAreOwn == doing = "download" => refused \subseteq {using}
=============================================================================
