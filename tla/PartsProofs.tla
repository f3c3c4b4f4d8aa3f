------------------------------ MODULE PartsProofs ------------------------------
(***************************************************************************)
(* Theorems of the parts that module MCParts runs each on its own, for any *)
(* accounts, admins, tasks, files, addresses and limits.                   *)
(***************************************************************************)
EXTENDS MCParts, FiniteSetTheorems, SequenceTheorems, TLAPS

-----------------------------------------------------------------------------
(* Librespot.                                                              *)

\* The types, in three parts, and that a fetch on its way has a token, or a session, of an
\* account.
HandlersTyped ==
    /\ apc \in [Admin -> {"idle", "forget", "reset", "resetCooldown", "off",
                          "paired", "sync", "asked", "answer"}]
    /\ handlerToken \in [Admin -> AnyAccount]
    /\ cleared \in [Admin -> AnyAccount]
    /\ answer \in [Admin -> BOOLEAN]

FlagsTyped ==
    /\ useLibrespot \in BOOLEAN /\ tokensKept \in BOOLEAN /\ invalid \in BOOLEAN
    /\ held \in BOOLEAN /\ cooling \in BOOLEAN /\ exited \in BOOLEAN

FetchTyped ==
    /\ doing \in {"idle", "cooldown", "want", "slot", "plan", "asked", "connect", "download",
                  "authFailed", "drop", "ytdlp", "gone"}
    /\ token \in AnyAccount /\ planToken \in AnyAccount /\ using \in AnyAccount
    /\ session \in AnyAccount /\ paired \in AnyAccount
    /\ cachedToken \in AnyAccount /\ refreshing \in AnyAccount
    /\ excuse \in {"none", "account", "plan"}
    /\ refused \subseteq Account /\ plan \subseteq Account /\ left \subseteq Account
    /\ doing \in {"plan", "asked", "connect"} => token \in Account
    /\ doing = "download" => using \in Account

\* The token is carried under the session mutex.  An account forgotten is nowhere, and one
\* disconnected is where no new token comes from.
Forgotten ==
    /\ doing \in {"slot", "plan", "asked", "connect"} => held
    /\ token # NoAccount => held
    /\ \A a \in left : a \notin {session, token, paired, cachedToken, refreshing, NoAccount}
    /\ \A h \in Admin :
          cleared[h] # NoAccount => cleared[h] \notin {paired, cachedToken, refreshing}

\* A refresh only runs while no token is cached.  As long as the check is of use, every
\* token that may be got is of the account that the fetch has; once it is done, that
\* account's plan is Premium.
Excused ==
    /\ refreshing # NoAccount => cachedToken = NoAccount
    /\ Checking /\ excuse = "none" =>
          /\ token # NoAccount /\ paired = token
          /\ cachedToken \in {token, NoAccount} /\ refreshing \in {token, NoAccount}
          /\ doing = "asked" => planToken = token
    /\ doing = "connect" /\ excuse = "none" => token \in plan
    /\ exited => excuse # "none"

\* What is refused was refused to the account of the session, and a download goes on with
\* that session even if it is dropped meanwhile.
Own ==
    /\ session # NoAccount => refused \subseteq {session}
    /\ doing = "download" => refused \subseteq {using} /\ session \in {using, NoAccount}

LEMMA FetcherInit == LibrespotInit => HandlersTyped /\ FlagsTyped /\ FetchTyped
  BY DEF LibrespotInit, HandlersTyped, FlagsTyped, FetchTyped, AnyAccount

LEMMA FetcherParts == HandlersTyped /\ FlagsTyped /\ FetchTyped => LibrespotTypeOK
  BY DEF HandlersTyped, FlagsTyped, FetchTyped, LibrespotTypeOK

LEMMA HandlersNext == HandlersTyped /\ FetchTyped /\ [LibrespotNext]_librespot => HandlersTyped'
<1> SUFFICES ASSUME HandlersTyped, FetchTyped, [LibrespotNext]_librespot PROVE HandlersTyped'
  OBVIOUS
<1>0. UNCHANGED handlers => HandlersTyped'
  BY DEF HandlersTyped, handlers
<1>1. CASE Fetch \/ (Refresh /\ ~SaveTokens) \/ Environment \/ BeginFetch \/ YtdlpEnds
  BY <1>0, <1>1 DEF BeginFetch, YtdlpEnds, Cooldown, Acquire, StartCooldown, DropSession,
     Reuse, AskToken, NoToken, AskPlan, PlanRefused, CheckPlan, PlanIsFree, PlanUnknown,
     Connect, ConnectFails, Exits, Download, StartRefresh, CacheToken, RefreshFails,
     Revoked, TokenGone, SessionBreaks, CooldownOver, PlanChanges, Fetch, Refresh,
     Environment
<1>2. CASE UNCHANGED librespot
  BY <1>0, <1>2 DEF librespot
<1>3. CASE SaveTokens
  BY <1>3 DEF SaveTokens, Pairs, HandlersTyped, AnyAccount
<1>4. ASSUME NEW h \in Admin, ClearToken(h) PROVE HandlersTyped'
  BY <1>4 DEF ClearToken, Step, HandlersTyped, FetchTyped, AnyAccount
<1>5. ASSUME NEW h \in Admin, Disconnect(h) PROVE HandlersTyped'
  BY <1>5 DEF Disconnect, Stored, Step, HandlersTyped, FetchTyped, AnyAccount
<1>6. ASSUME NEW h \in Admin, ResetSession(h) PROVE HandlersTyped'
  BY <1>6 DEF ResetSession, Step, HandlersTyped, HandlersTyped, FetchTyped, AnyAccount
<1>7. ASSUME NEW h \in Admin, ResetCooldown(h) PROVE HandlersTyped'
  BY <1>7 DEF ResetCooldown, Step, HandlersTyped, FetchTyped, AnyAccount
<1>8. ASSUME NEW h \in Admin, SwitchOff(h) PROVE HandlersTyped'
  BY <1>8 DEF SwitchOff, Step, HandlersTyped, FetchTyped, AnyAccount
<1>9. ASSUME NEW h \in Admin, HandlerAsks(h) PROVE HandlersTyped'
  BY <1>9 DEF HandlerAsks, Step, HandlersTyped, FetchTyped, AnyAccount
<1>10. ASSUME NEW h \in Admin, HandlerRefused(h) PROVE HandlersTyped'
  BY <1>10 DEF HandlerRefused, Step, HandlersTyped, FetchTyped, AnyAccount
<1>11. ASSUME NEW h \in Admin, PlanAnswer(h) PROVE HandlersTyped'
  BY <1>11 DEF PlanAnswer, Step, HandlersTyped, FetchTyped, AnyAccount
<1>12. ASSUME NEW h \in Admin, SwitchByPlan(h) PROVE HandlersTyped'
  BY <1>12 DEF SwitchByPlan, Step, HandlersTyped, HandlersTyped, FetchTyped, AnyAccount
<1>13. ASSUME NEW h \in Admin, NEW a \in Account, Pair(h, a) PROVE HandlersTyped'
  BY <1>13 DEF Pair, Pairs, Step, HandlersTyped, AnyAccount
<1> QED
  BY <1>1, <1>2, <1>3, <1>4, <1>5, <1>6, <1>7, <1>8, <1>9, <1>10, <1>11, <1>12, <1>13 DEF
     LibrespotNext, Refresh, Handle

LEMMA FlagsKept == HandlersTyped /\ FlagsTyped /\ [LibrespotNext]_librespot => FlagsTyped'
<1> SUFFICES ASSUME HandlersTyped, FlagsTyped, [LibrespotNext]_librespot PROVE FlagsTyped'
  OBVIOUS
<1> USE DEF FlagsTyped
<1>1. CASE ~exited /\ (BeginFetch \/ YtdlpEnds \/ Cooldown \/ Acquire)
  BY <1>1 DEF BeginFetch, YtdlpEnds, Cooldown, Acquire, Turn, fetch, handlers, shared,
     tokens, outside, history
<1>2. CASE ~exited /\ (StartCooldown \/ DropSession)
  BY <1>2 DEF StartCooldown, DropSession, Turn, fetch, handlers, shared, tokens, outside,
     history
<1>3. CASE ~exited /\ (Reuse \/ AskToken \/ NoToken)
  BY <1>3 DEF Reuse, AskToken, NoToken, Valid, Leave, Turn, fetch, handlers, shared, tokens,
     outside, history
<1>4. CASE ~exited /\ (AskPlan \/ PlanRefused \/ CheckPlan \/ PlanIsFree \/ PlanUnknown)
  BY <1>4 DEF AskPlan, PlanRefused, CheckPlan, PlanIsFree, PlanUnknown, Leave, Turn, fetch,
     handlers, shared, tokens, outside, history
<1>5. CASE ~exited /\ (Connect \/ ConnectFails \/ Exits)
  BY <1>5 DEF Connect, ConnectFails, Exits, Leave, Turn, fetch, handlers, shared, tokens,
     outside, history
<1>6. CASE ~exited /\ Download
  BY <1>6 DEF Download, fetch, handlers, shared, tokens, outside, history
<1>7. CASE ~exited /\ (StartRefresh \/ CacheToken \/ RefreshFails)
  BY <1>7 DEF StartRefresh, CacheToken, RefreshFails, fetch, handlers, shared, tokens,
     outside, history
<1>8. CASE ~exited /\ SaveTokens
  BY <1>8 DEF SaveTokens, Stored, Pairs, fetch, handlers, shared, tokens, outside, history
<1>9. CASE ~exited /\ Revoked
  BY <1>9 DEF Revoked, Stored, fetch, handlers, shared, tokens, outside, history
<1>10. CASE ~exited /\ (TokenGone \/ SessionBreaks \/ CooldownOver)
  BY <1>10 DEF TokenGone, SessionBreaks, CooldownOver, fetch, handlers, shared, tokens,
     outside, history
<1>11. CASE UNCHANGED librespot
  BY <1>11 DEF librespot, fetch, handlers, shared, tokens, outside, history
<1>12. ASSUME NEW h \in Admin, ClearToken(h) PROVE FlagsTyped'
  BY <1>12 DEF ClearToken, Step, fetch, handlers, shared, tokens, outside, history
<1>13. ASSUME NEW h \in Admin, Disconnect(h) PROVE FlagsTyped'
  BY <1>13 DEF Disconnect, Stored, Step, fetch, handlers, shared, tokens, outside, history
<1>14. ASSUME NEW h \in Admin, ResetSession(h) PROVE FlagsTyped'
  BY <1>14 DEF ResetSession, Step, HandlersTyped, fetch, handlers, shared, tokens, outside,
     history
<1>15. ASSUME NEW h \in Admin, ResetCooldown(h) PROVE FlagsTyped'
  BY <1>15 DEF ResetCooldown, Step, fetch, handlers, shared, tokens, outside, history
<1>16. ASSUME NEW h \in Admin, SwitchOff(h) PROVE FlagsTyped'
  BY <1>16 DEF SwitchOff, Step, fetch, handlers, shared, tokens, outside, history
<1>17. ASSUME NEW h \in Admin, HandlerAsks(h) PROVE FlagsTyped'
  BY <1>17 DEF HandlerAsks, Step, fetch, handlers, shared, tokens, outside, history
<1>18. ASSUME NEW h \in Admin, HandlerRefused(h) PROVE FlagsTyped'
  BY <1>18 DEF HandlerRefused, Step, fetch, handlers, shared, tokens, outside, history
<1>19. ASSUME NEW h \in Admin, PlanAnswer(h) PROVE FlagsTyped'
  BY <1>19 DEF PlanAnswer, Step, fetch, handlers, shared, tokens, outside, history
<1>20. ASSUME NEW h \in Admin, SwitchByPlan(h) PROVE FlagsTyped'
  BY <1>20 DEF SwitchByPlan, Step, HandlersTyped, fetch, handlers, shared, tokens, outside,
     history
<1>21. ASSUME NEW a \in Account, PlanChanges(a) PROVE FlagsTyped'
  BY <1>21 DEF PlanChanges, fetch, handlers, shared, tokens, outside, history
<1>22. ASSUME NEW h \in Admin, NEW a \in Account, Pair(h, a) PROVE FlagsTyped'
  BY <1>22 DEF Pair, Pairs, Stored, Step, fetch, handlers, shared, tokens, outside, history
<1> QED
  BY <1>1, <1>2, <1>3, <1>4, <1>5, <1>6, <1>7, <1>8, <1>9, <1>10, <1>11, <1>12, <1>13,
     <1>14, <1>15, <1>16, <1>17, <1>18, <1>19, <1>20, <1>21, <1>22 DEF LibrespotNext, Fetch,
     Refresh, Handle, Environment

LEMMA FetchNext == HandlersTyped /\ FetchTyped /\ [LibrespotNext]_librespot => FetchTyped'
<1> SUFFICES ASSUME HandlersTyped, FetchTyped, [LibrespotNext]_librespot PROVE FetchTyped'
  OBVIOUS
<1> USE DEF FetchTyped, AnyAccount
<1>1. CASE ~exited /\ (BeginFetch \/ YtdlpEnds \/ Cooldown \/ Acquire)
  BY <1>1 DEF BeginFetch, YtdlpEnds, Cooldown, Acquire, Turn, fetch, handlers, shared,
     tokens, outside, history
<1>2. CASE ~exited /\ (StartCooldown \/ DropSession)
  BY <1>2 DEF StartCooldown, DropSession, Turn, fetch, handlers, shared, tokens, outside,
     history
<1>3. CASE ~exited /\ (Reuse \/ AskToken \/ NoToken)
  BY <1>3 DEF Reuse, AskToken, NoToken, Valid, Leave, Turn, fetch, handlers, shared, tokens,
     outside, history
<1>4. CASE ~exited /\ (AskPlan \/ PlanRefused \/ CheckPlan \/ PlanIsFree \/ PlanUnknown)
  BY <1>4 DEF AskPlan, PlanRefused, CheckPlan, PlanIsFree, PlanUnknown, Leave, Turn, fetch,
     handlers, shared, tokens, outside, history
<1>5. CASE ~exited /\ (Connect \/ ConnectFails \/ Exits)
  BY <1>5 DEF Connect, ConnectFails, Exits, Leave, Turn, fetch, handlers, shared, tokens,
     outside, history
<1>6. CASE ~exited /\ Download
  BY <1>6 DEF Download, fetch, handlers, shared, tokens, outside, history
<1>7. CASE ~exited /\ (StartRefresh \/ CacheToken \/ RefreshFails)
  BY <1>7 DEF StartRefresh, CacheToken, RefreshFails, fetch, handlers, shared, tokens,
     outside, history
<1>8. CASE ~exited /\ SaveTokens
  BY <1>8 DEF SaveTokens, Stored, Pairs, fetch, handlers, shared, tokens, outside, history
<1>9. CASE ~exited /\ Revoked
  BY <1>9 DEF Revoked, Stored, fetch, handlers, shared, tokens, outside, history
<1>10. CASE ~exited /\ (TokenGone \/ SessionBreaks \/ CooldownOver)
  BY <1>10 DEF TokenGone, SessionBreaks, CooldownOver, fetch, handlers, shared, tokens,
     outside, history
<1>11. CASE UNCHANGED librespot
  BY <1>11 DEF librespot, fetch, handlers, shared, tokens, outside, history
<1>12. ASSUME NEW h \in Admin, ClearToken(h) PROVE FetchTyped'
  BY <1>12 DEF ClearToken, Step, fetch, handlers, shared, tokens, outside, history
<1>13. ASSUME NEW h \in Admin, Disconnect(h) PROVE FetchTyped'
  BY <1>13 DEF Disconnect, Stored, Step, fetch, handlers, shared, tokens, outside, history
<1>14. ASSUME NEW h \in Admin, ResetSession(h) PROVE FetchTyped'
  BY <1>14 DEF ResetSession, Step, HandlersTyped, fetch, handlers, shared, tokens, outside,
     history
<1>15. ASSUME NEW h \in Admin, ResetCooldown(h) PROVE FetchTyped'
  BY <1>15 DEF ResetCooldown, Step, fetch, handlers, shared, tokens, outside, history
<1>16. ASSUME NEW h \in Admin, SwitchOff(h) PROVE FetchTyped'
  BY <1>16 DEF SwitchOff, Step, fetch, handlers, shared, tokens, outside, history
<1>17. ASSUME NEW h \in Admin, HandlerAsks(h) PROVE FetchTyped'
  BY <1>17 DEF HandlerAsks, Step, fetch, handlers, shared, tokens, outside, history
<1>18. ASSUME NEW h \in Admin, HandlerRefused(h) PROVE FetchTyped'
  BY <1>18 DEF HandlerRefused, Step, fetch, handlers, shared, tokens, outside, history
<1>19. ASSUME NEW h \in Admin, PlanAnswer(h) PROVE FetchTyped'
  BY <1>19 DEF PlanAnswer, Step, fetch, handlers, shared, tokens, outside, history
<1>20. ASSUME NEW h \in Admin, SwitchByPlan(h) PROVE FetchTyped'
  BY <1>20 DEF SwitchByPlan, Step, HandlersTyped, fetch, handlers, shared, tokens, outside,
     history
<1>21. ASSUME NEW a \in Account, PlanChanges(a) PROVE FetchTyped'
  BY <1>21 DEF PlanChanges, fetch, handlers, shared, tokens, outside, history
<1>22. ASSUME NEW h \in Admin, NEW a \in Account, Pair(h, a) PROVE FetchTyped'
  BY <1>22 DEF Pair, Pairs, Stored, Step, fetch, handlers, shared, tokens, outside, history
<1> QED
  BY <1>1, <1>2, <1>3, <1>4, <1>5, <1>6, <1>7, <1>8, <1>9, <1>10, <1>11, <1>12, <1>13,
     <1>14, <1>15, <1>16, <1>17, <1>18, <1>19, <1>20, <1>21, <1>22 DEF LibrespotNext, Fetch,
     Refresh, Handle, Environment

LEMMA ForgottenNext == LibrespotTypeOK /\ Forgotten /\ [LibrespotNext]_librespot => Forgotten'
<1> SUFFICES ASSUME LibrespotTypeOK, Forgotten, [LibrespotNext]_librespot PROVE Forgotten'
  OBVIOUS
<1> USE DEF Forgotten
<1>1. CASE ~exited /\ (BeginFetch \/ YtdlpEnds \/ Cooldown \/ Acquire)
  BY <1>1 DEF BeginFetch, YtdlpEnds, Cooldown, Acquire, Turn, fetch, handlers, shared,
     tokens, outside, history
<1>2. CASE ~exited /\ (StartCooldown \/ DropSession)
  BY <1>2 DEF StartCooldown, DropSession, Turn, fetch, handlers, shared, tokens, outside,
     history
<1>3. CASE ~exited /\ (Reuse \/ AskToken \/ NoToken)
  BY <1>3 DEF Reuse, AskToken, NoToken, Valid, Leave, Turn, fetch, handlers, shared, tokens,
     outside, history
<1>4. CASE ~exited /\ (AskPlan \/ PlanRefused \/ CheckPlan \/ PlanIsFree \/ PlanUnknown)
  BY <1>4 DEF AskPlan, PlanRefused, CheckPlan, PlanIsFree, PlanUnknown, Leave, Turn, fetch,
     handlers, shared, tokens, outside, history
<1>5. CASE ~exited /\ (Connect \/ ConnectFails \/ Exits)
  BY <1>5 DEF Connect, ConnectFails, Exits, Leave, Turn, fetch, handlers, shared, tokens,
     outside, history
<1>6. CASE ~exited /\ Download
  BY <1>6 DEF Download, fetch, handlers, shared, tokens, outside, history
<1>7. CASE ~exited /\ (StartRefresh \/ CacheToken \/ RefreshFails)
  BY <1>7 DEF StartRefresh, CacheToken, RefreshFails, fetch, handlers, shared, tokens,
     outside, history
<1>8. CASE ~exited /\ SaveTokens
  BY <1>8 DEF SaveTokens, Stored, Pairs, fetch, handlers, shared, tokens, outside, history
<1>9. CASE ~exited /\ Revoked
  BY <1>9 DEF Revoked, Stored, fetch, handlers, shared, tokens, outside, history
<1>10. CASE ~exited /\ (TokenGone \/ SessionBreaks \/ CooldownOver)
  BY <1>10 DEF TokenGone, SessionBreaks, CooldownOver, fetch, handlers, shared, tokens,
     outside, history
<1>11. CASE UNCHANGED librespot
  BY <1>11 DEF librespot, fetch, handlers, shared, tokens, outside, history
<1>12. ASSUME NEW h \in Admin, ClearToken(h) PROVE Forgotten'
  BY <1>12 DEF ClearToken, Step, fetch, handlers, shared, tokens, outside, history
<1>13. ASSUME NEW h \in Admin, Disconnect(h) PROVE Forgotten'
  BY <1>13 DEF Disconnect, Stored, Step, fetch, handlers, shared, tokens, outside, history
<1>14. ASSUME NEW h \in Admin, ResetSession(h) PROVE Forgotten'
  BY <1>14 DEF ResetSession, Step, fetch, handlers, shared, tokens, outside, history
<1>15. ASSUME NEW h \in Admin, ResetCooldown(h) PROVE Forgotten'
  BY <1>15 DEF ResetCooldown, Step, fetch, handlers, shared, tokens, outside, history
<1>16. ASSUME NEW h \in Admin, SwitchOff(h) PROVE Forgotten'
  BY <1>16 DEF SwitchOff, Step, fetch, handlers, shared, tokens, outside, history
<1>17. ASSUME NEW h \in Admin, HandlerAsks(h) PROVE Forgotten'
  BY <1>17 DEF HandlerAsks, Step, fetch, handlers, shared, tokens, outside, history
<1>18. ASSUME NEW h \in Admin, HandlerRefused(h) PROVE Forgotten'
  BY <1>18 DEF HandlerRefused, Step, fetch, handlers, shared, tokens, outside, history
<1>19. ASSUME NEW h \in Admin, PlanAnswer(h) PROVE Forgotten'
  BY <1>19 DEF PlanAnswer, Step, fetch, handlers, shared, tokens, outside, history
<1>20. ASSUME NEW h \in Admin, SwitchByPlan(h) PROVE Forgotten'
  BY <1>20 DEF SwitchByPlan, Step, fetch, handlers, shared, tokens, outside, history
<1>21. ASSUME NEW a \in Account, PlanChanges(a) PROVE Forgotten'
  BY <1>21 DEF PlanChanges, fetch, handlers, shared, tokens, outside, history
<1>22. ASSUME NEW h \in Admin, NEW a \in Account, Pair(h, a) PROVE Forgotten'
  BY <1>22 DEF Pair, Pairs, Stored, Step, fetch, handlers, shared, tokens, outside, history
<1> QED
  BY <1>1, <1>2, <1>3, <1>4, <1>5, <1>6, <1>7, <1>8, <1>9, <1>10, <1>11, <1>12, <1>13,
     <1>14, <1>15, <1>16, <1>17, <1>18, <1>19, <1>20, <1>21, <1>22 DEF LibrespotNext, Fetch,
     Refresh, Handle, Environment

LEMMA ExcusedNext == LibrespotTypeOK /\ Excused /\ [LibrespotNext]_librespot => Excused'
<1> SUFFICES ASSUME LibrespotTypeOK, Excused, [LibrespotNext]_librespot PROVE Excused'
  OBVIOUS
<1> USE DEF Excused, Checking
<1>1. CASE ~exited /\ (BeginFetch \/ YtdlpEnds \/ Cooldown \/ Acquire)
  BY <1>1 DEF BeginFetch, YtdlpEnds, Cooldown, Acquire, Turn, fetch, handlers, shared,
     tokens, outside, history
<1>2. CASE ~exited /\ (StartCooldown \/ DropSession)
  BY <1>2 DEF StartCooldown, DropSession, Turn, fetch, handlers, shared, tokens, outside,
     history
<1>3. CASE ~exited /\ (Reuse \/ AskToken \/ NoToken)
  BY <1>3 DEF Reuse, AskToken, NoToken, Valid, Leave, Turn, fetch, handlers, shared, tokens,
     outside, history
<1>4. CASE ~exited /\ (AskPlan \/ PlanRefused \/ CheckPlan \/ PlanIsFree \/ PlanUnknown)
  BY <1>4 DEF AskPlan, PlanRefused, CheckPlan, PlanIsFree, PlanUnknown, Leave, Turn, fetch,
     handlers, shared, tokens, outside, history
<1>5. CASE ~exited /\ (Connect \/ ConnectFails \/ Exits)
  BY <1>5 DEF Connect, ConnectFails, Exits, Leave, Turn, fetch, handlers, shared, tokens,
     outside, history
<1>6. CASE ~exited /\ Download
  BY <1>6 DEF Download, fetch, handlers, shared, tokens, outside, history
<1>7. CASE ~exited /\ (StartRefresh \/ CacheToken \/ RefreshFails)
  BY <1>7 DEF StartRefresh, CacheToken, RefreshFails, fetch, handlers, shared, tokens,
     outside, history
<1>8. CASE ~exited /\ SaveTokens
  BY <1>8 DEF SaveTokens, Stored, Pairs, fetch, handlers, shared, tokens, outside, history
<1>9. CASE ~exited /\ Revoked
  BY <1>9 DEF Revoked, Stored, fetch, handlers, shared, tokens, outside, history
<1>10. CASE ~exited /\ (TokenGone \/ SessionBreaks \/ CooldownOver)
  BY <1>10 DEF TokenGone, SessionBreaks, CooldownOver, fetch, handlers, shared, tokens,
     outside, history
<1>11. CASE UNCHANGED librespot
  BY <1>11 DEF librespot, fetch, handlers, shared, tokens, outside, history
<1>12. ASSUME NEW h \in Admin, ClearToken(h) PROVE Excused'
  BY <1>12 DEF ClearToken, Step, fetch, handlers, shared, tokens, outside, history
<1>13. ASSUME NEW h \in Admin, Disconnect(h) PROVE Excused'
  BY <1>13 DEF Disconnect, Stored, Step, fetch, handlers, shared, tokens, outside, history
<1>14. ASSUME NEW h \in Admin, ResetSession(h) PROVE Excused'
  BY <1>14 DEF ResetSession, Step, fetch, handlers, shared, tokens, outside, history
<1>15. ASSUME NEW h \in Admin, ResetCooldown(h) PROVE Excused'
  BY <1>15 DEF ResetCooldown, Step, fetch, handlers, shared, tokens, outside, history
<1>16. ASSUME NEW h \in Admin, SwitchOff(h) PROVE Excused'
  BY <1>16 DEF SwitchOff, Step, fetch, handlers, shared, tokens, outside, history
<1>17. ASSUME NEW h \in Admin, HandlerAsks(h) PROVE Excused'
  BY <1>17 DEF HandlerAsks, Step, fetch, handlers, shared, tokens, outside, history
<1>18. ASSUME NEW h \in Admin, HandlerRefused(h) PROVE Excused'
  BY <1>18 DEF HandlerRefused, Step, fetch, handlers, shared, tokens, outside, history
<1>19. ASSUME NEW h \in Admin, PlanAnswer(h) PROVE Excused'
  BY <1>19 DEF PlanAnswer, Step, fetch, handlers, shared, tokens, outside, history
<1>20. ASSUME NEW h \in Admin, SwitchByPlan(h) PROVE Excused'
  BY <1>20 DEF SwitchByPlan, Step, fetch, handlers, shared, tokens, outside, history
<1>21. ASSUME NEW a \in Account, PlanChanges(a) PROVE Excused'
  BY <1>21 DEF PlanChanges, fetch, handlers, shared, tokens, outside, history
<1>22. ASSUME NEW h \in Admin, NEW a \in Account, Pair(h, a) PROVE Excused'
  BY <1>22 DEF Pair, Pairs, Stored, Step, fetch, handlers, shared, tokens, outside, history
<1> QED
  BY <1>1, <1>2, <1>3, <1>4, <1>5, <1>6, <1>7, <1>8, <1>9, <1>10, <1>11, <1>12, <1>13,
     <1>14, <1>15, <1>16, <1>17, <1>18, <1>19, <1>20, <1>21, <1>22 DEF LibrespotNext, Fetch,
     Refresh, Handle, Environment

LEMMA OwnNext == LibrespotTypeOK /\ Own /\ [LibrespotNext]_librespot => Own'
<1> SUFFICES ASSUME LibrespotTypeOK, Own, [LibrespotNext]_librespot PROVE Own'
  OBVIOUS
<1> USE DEF Own
<1>1. CASE ~exited /\ (BeginFetch \/ YtdlpEnds \/ Cooldown \/ Acquire)
  BY <1>1 DEF BeginFetch, YtdlpEnds, Cooldown, Acquire, Turn, fetch, handlers, shared,
     tokens, outside, history
<1>2. CASE ~exited /\ (StartCooldown \/ DropSession)
  BY <1>2 DEF StartCooldown, DropSession, Turn, fetch, handlers, shared, tokens, outside,
     history
<1>3. CASE ~exited /\ (Reuse \/ AskToken \/ NoToken)
  BY <1>3 DEF Reuse, AskToken, NoToken, Valid, Leave, Turn, fetch, handlers, shared, tokens,
     outside, history
<1>4. CASE ~exited /\ (AskPlan \/ PlanRefused \/ CheckPlan \/ PlanIsFree \/ PlanUnknown)
  BY <1>4 DEF AskPlan, PlanRefused, CheckPlan, PlanIsFree, PlanUnknown, Leave, Turn, fetch,
     handlers, shared, tokens, outside, history
<1>5. CASE ~exited /\ (Connect \/ ConnectFails \/ Exits)
  BY <1>5 DEF Connect, ConnectFails, Exits, Leave, Turn, fetch, handlers, shared, tokens,
     outside, history
<1>6. CASE ~exited /\ Download
  BY <1>6 DEF Download, fetch, handlers, shared, tokens, outside, history
<1>7. CASE ~exited /\ (StartRefresh \/ CacheToken \/ RefreshFails)
  BY <1>7 DEF StartRefresh, CacheToken, RefreshFails, fetch, handlers, shared, tokens,
     outside, history
<1>8. CASE ~exited /\ SaveTokens
  BY <1>8 DEF SaveTokens, Stored, Pairs, fetch, handlers, shared, tokens, outside, history
<1>9. CASE ~exited /\ Revoked
  BY <1>9 DEF Revoked, Stored, fetch, handlers, shared, tokens, outside, history
<1>10. CASE ~exited /\ (TokenGone \/ SessionBreaks \/ CooldownOver)
  BY <1>10 DEF TokenGone, SessionBreaks, CooldownOver, fetch, handlers, shared, tokens,
     outside, history
<1>11. CASE UNCHANGED librespot
  BY <1>11 DEF librespot, fetch, handlers, shared, tokens, outside, history
<1>12. ASSUME NEW h \in Admin, ClearToken(h) PROVE Own'
  BY <1>12 DEF ClearToken, Step, fetch, handlers, shared, tokens, outside, history
<1>13. ASSUME NEW h \in Admin, Disconnect(h) PROVE Own'
  BY <1>13 DEF Disconnect, Stored, Step, fetch, handlers, shared, tokens, outside, history
<1>14. ASSUME NEW h \in Admin, ResetSession(h) PROVE Own'
  BY <1>14 DEF ResetSession, Step, fetch, handlers, shared, tokens, outside, history
<1>15. ASSUME NEW h \in Admin, ResetCooldown(h) PROVE Own'
  BY <1>15 DEF ResetCooldown, Step, fetch, handlers, shared, tokens, outside, history
<1>16. ASSUME NEW h \in Admin, SwitchOff(h) PROVE Own'
  BY <1>16 DEF SwitchOff, Step, fetch, handlers, shared, tokens, outside, history
<1>17. ASSUME NEW h \in Admin, HandlerAsks(h) PROVE Own'
  BY <1>17 DEF HandlerAsks, Step, fetch, handlers, shared, tokens, outside, history
<1>18. ASSUME NEW h \in Admin, HandlerRefused(h) PROVE Own'
  BY <1>18 DEF HandlerRefused, Step, fetch, handlers, shared, tokens, outside, history
<1>19. ASSUME NEW h \in Admin, PlanAnswer(h) PROVE Own'
  BY <1>19 DEF PlanAnswer, Step, fetch, handlers, shared, tokens, outside, history
<1>20. ASSUME NEW h \in Admin, SwitchByPlan(h) PROVE Own'
  BY <1>20 DEF SwitchByPlan, Step, fetch, handlers, shared, tokens, outside, history
<1>21. ASSUME NEW a \in Account, PlanChanges(a) PROVE Own'
  BY <1>21 DEF PlanChanges, fetch, handlers, shared, tokens, outside, history
<1>22. ASSUME NEW h \in Admin, NEW a \in Account, Pair(h, a) PROVE Own'
  BY <1>22 DEF Pair, Pairs, Stored, Step, fetch, handlers, shared, tokens, outside, history
<1> QED
  BY <1>1, <1>2, <1>3, <1>4, <1>5, <1>6, <1>7, <1>8, <1>9, <1>10, <1>11, <1>12, <1>13,
     <1>14, <1>15, <1>16, <1>17, <1>18, <1>19, <1>20, <1>21, <1>22 DEF LibrespotNext, Fetch,
     Refresh, Handle, Environment

-----------------------------------------------------------------------------

\* Every variable of the fetcher keeps its type.
THEOREM FetcherTypes == LibrespotSpec => []LibrespotTypeOK
  BY FetcherInit, FetcherParts, HandlersNext, FlagsKept, FetchNext, PTL DEF LibrespotSpec

\* Once a disconnect has reset the fetcher, no session of that account comes back, however
\* fetches, token refreshes, pairings, disconnects and revocations interleave, unless a refresh
\* had its tokens in hand when it was disconnected (LibrespotFetcher::reset, clear_session).
THEOREM SessionIsForgotten == LibrespotSpec => []SessionForgotten
<1>1. LibrespotInit => Forgotten
  BY AccountAssumption DEF LibrespotInit, Forgotten
<1>2. Forgotten => SessionForgotten
  BY DEF Forgotten, SessionForgotten
<1> QED
  BY <1>1, <1>2, FetcherTypes, ForgottenNext, PTL DEF LibrespotSpec

\* The process is ended by librespot-core only if the plan lapses between its check and the
\* connection, or the check may have been of another account (ensure_session).
THEOREM ExitIsExcused == LibrespotSpec => []ExitExcused
<1>1. LibrespotInit => Excused
  BY DEF LibrespotInit, Excused, Checking
<1>2. Excused => ExitExcused
  BY DEF Excused, ExitExcused
<1> QED
  BY <1>1, <1>2, FetcherTypes, ExcusedNext, PTL DEF LibrespotSpec

\* A download skips only the formats that were refused to its own account (the set refused,
\* cleared where a session is connected).
THEOREM RefusalsStayOwn == LibrespotSpec => []RefusalsAreOwn
<1>1. LibrespotInit => Own
  BY DEF LibrespotInit, Own
<1>2. Own => RefusalsAreOwn
  BY DEF Own, RefusalsAreOwn
<1> QED
  BY <1>1, <1>2, FetcherTypes, OwnNext, PTL DEF LibrespotSpec

-----------------------------------------------------------------------------
(* Setup.                                                                  *)

\* The types, and that a form under way carries a password.
FormsShaped ==
    /\ SetupTypeOK
    /\ \A r \in Request : at[r] \in {"hash", "confirm", "login"} => typed[r] \in Password

\* The attempts of an address that count and have had no answer yet.
Waiting(a) == {r \in Request : counted[r] /\ from[r] = a}

\* Every wrong answer and every open attempt has been registered.
Registered == \A a \in Address : wrong[a] + Cardinality(Waiting(a)) <= tries[a]

\* A restart goes back to a password that was entered twice too.
Repeated ==
    /\ hash # NoPassword => hash \in repeated
    /\ saved # NoPassword => saved \in repeated

-----------------------------------------------------------------------------
(* Waiting attempts.                                                          *)

LEMMA WaitingFinite == \A a : IsFiniteSet(Waiting(a)) /\ Cardinality(Waiting(a)) \in Nat
<1> SUFFICES ASSUME NEW a PROVE IsFiniteSet(Waiting(a)) /\ Cardinality(Waiting(a)) \in Nat
  OBVIOUS
<1>1. Waiting(a) \in SUBSET Request
  BY DEF Waiting
<1> QED
  BY <1>1, RequestAssumption, FS_Subset, FS_CardinalityType

\* Nothing is open after the attempts of an address have been forgiven.
LEMMA NoneWaiting ==
    ASSUME NEW a, \A r \in Request : ~(counted'[r] /\ from'[r] = a)
    PROVE  Cardinality(Waiting(a)') = 0
<1>1. Waiting(a)' = {}
  BY DEF Waiting
<1> QED
  BY <1>1, FS_EmptySet

LEMMA SameWaiting ==
    ASSUME NEW a, from' = from, \A r \in Request : from[r] = a => counted'[r] = counted[r]
    PROVE  Waiting(a)' = Waiting(a)
BY DEF Waiting

-----------------------------------------------------------------------------
(* Types.                                                                  *)

LEMMA FormsInit == SetupInit => FormsShaped
  BY PasswordAssumption, AttemptsAssumption DEF SetupInit, FormsShaped, SetupTypeOK

LEMMA TypeForgive ==
    ASSUME FormsShaped, NEW a \in Address, Forgive(a)
    PROVE  /\ tries' \in [Address -> 0..MaxAttempts] /\ wrong' \in [Address -> Nat]
           /\ counted' \in [Request -> BOOLEAN]
BY AttemptsAssumption DEF FormsShaped, SetupTypeOK, Forgive

LEMMA FormsNext == FormsShaped /\ [SetupNext]_setup => FormsShaped'
<1> SUFFICES ASSUME FormsShaped, [SetupNext]_setup PROVE FormsShaped'
  OBVIOUS
<1> USE AttemptsAssumption DEF FormsShaped, SetupTypeOK
<1>1. ASSUME NEW r \in Request, NEW p \in Password, Login(r, p) PROVE FormsShaped'
  BY <1>1 DEF Login, Admitted, Register, Enter, account
<1>2. ASSUME NEW r \in Request, WrongToken(r) PROVE FormsShaped'
  BY <1>2 DEF WrongToken, account, form
<1>3. ASSUME NEW r \in Request, TokenStep(r) PROVE FormsShaped'
  BY <1>3, TypeForgive DEF TokenStep, WithToken, account, form
<1>4. ASSUME NEW r \in Request, NEW p \in Password, PasswordStep(r, p) PROVE FormsShaped'
  BY <1>4, TypeForgive DEF PasswordStep, WithToken, Enter, account
<1>5. ASSUME NEW r \in Request, NEW p \in Password, ConfirmStep(r, p) PROVE FormsShaped'
  BY <1>5, TypeForgive DEF ConfirmStep, WithToken, Enter, form
<1>6. ASSUME NEW r \in Request, Hashed(r) PROVE FormsShaped'
  BY <1>6 DEF Hashed, End, tallies
<1>7. ASSUME NEW r \in Request, Mismatch(r) PROVE FormsShaped'
  BY <1>7 DEF Mismatch, Refuse, End, account
<1>8. ASSUME NEW r \in Request, Confirmed(r) PROVE FormsShaped'
  BY <1>8 DEF Confirmed, End, form
<1>9. ASSUME NEW r \in Request, Cleared(r) PROVE FormsShaped'
  BY <1>9 DEF Cleared, form, tallies
<1>10. ASSUME NEW r \in Request, Done(r) PROVE FormsShaped'
  BY <1>10, TypeForgive DEF Done, End, account
<1>11. ASSUME NEW a \in Address, WindowOver(a) PROVE FormsShaped'
  BY <1>11, TypeForgive DEF WindowOver, account, form
<1>12. CASE Restart
  BY <1>12 DEF Restart
<1>13. CASE UNCHANGED setup
  BY <1>13 DEF setup, account, form, tallies
<1> QED
  BY <1>1, <1>2, <1>3, <1>4, <1>5, <1>6, <1>7, <1>8, <1>9, <1>10, <1>11, <1>12, <1>13
  DEF SetupNext

-----------------------------------------------------------------------------
(* Attempts.                                                               *)

\* What forgives the attempts of an address leaves the tally of every address right.
LEMMA ForgiveRegistered ==
    ASSUME FormsShaped, Registered, NEW a \in Address, Forgive(a), from' = from
    PROVE  Registered'
<1> SUFFICES ASSUME NEW b \in Address PROVE wrong'[b] + Cardinality(Waiting(b)') <= tries'[b]
  BY DEF Registered
<1>1. CASE b = a
  <2>1. Cardinality(Waiting(b)') = 0
    BY <1>1, NoneWaiting DEF Forgive
  <2> QED
    BY <1>1, <2>1 DEF Forgive, FormsShaped, SetupTypeOK
<1>2. CASE b # a
  <2>1. Waiting(b)' = Waiting(b)
    BY <1>2, SameWaiting DEF Forgive, FormsShaped, SetupTypeOK
  <2>2. wrong'[b] = wrong[b] /\ tries'[b] = tries[b]
    BY <1>2 DEF Forgive, FormsShaped, SetupTypeOK
  <2> QED
    BY <2>1, <2>2 DEF Registered
<1> QED
  BY <1>1, <1>2

\* Steps that touch neither tally nor answers.
LEMMA StillRegistered ==
    ASSUME Registered, UNCHANGED <<wrong, counted, from, tries>>
    PROVE  Registered'
BY DEF Registered, Waiting

LEMMA RegisteredNext == FormsShaped /\ Registered /\ [SetupNext]_setup => Registered'
<1> SUFFICES ASSUME FormsShaped, Registered, [SetupNext]_setup PROVE Registered'
  OBVIOUS
<1>1. ASSUME NEW r \in Request, NEW p \in Password, Login(r, p) PROVE Registered'
  <2> SUFFICES ASSUME NEW b \in Address PROVE wrong'[b] + Cardinality(Waiting(b)') <= tries'[b]
    BY DEF Registered
  <2>1. /\ wrong' = wrong /\ from' = from /\ from[r] \in Address
        /\ counted' = [counted EXCEPT ![r] = TRUE]
        /\ tries' = [tries EXCEPT ![from[r]] = @ + 1]
    BY <1>1 DEF Login, Admitted, Register, Enter, FormsShaped, SetupTypeOK
  <2>2. wrong[b] \in Nat /\ tries[b] \in Nat /\ wrong[b] + Cardinality(Waiting(b)) <= tries[b]
    BY AttemptsAssumption DEF FormsShaped, SetupTypeOK, Registered
  <2>3. CASE b = from[r]
    <3>1. Waiting(b)' = Waiting(b) \cup {r}
      BY <2>1, <2>3 DEF Waiting, FormsShaped, SetupTypeOK
    <3>2. /\ Cardinality(Waiting(b)) \in Nat /\ Cardinality(Waiting(b)') \in Nat
          /\ Cardinality(Waiting(b)') <= Cardinality(Waiting(b)) + 1
      <4>1. IsFiniteSet(Waiting(b)) /\ Cardinality(Waiting(b)) \in Nat
        BY WaitingFinite
      <4>2. CASE r \in Waiting(b)
        <5>1. Waiting(b)' = Waiting(b)
          BY <3>1, <4>2
        <5> QED
          BY <4>1, <5>1
      <4>3. CASE r \notin Waiting(b)
        <5>1. Cardinality(Waiting(b) \cup {r}) = Cardinality(Waiting(b)) + 1
          BY <4>1, <4>3, FS_AddElement, Zenon
        <5> QED
          BY <3>1, <4>1, <5>1
      <4> QED
        BY <4>2, <4>3
    <3>3. tries'[b] = tries[b] + 1
      BY <2>1, <2>3 DEF FormsShaped, SetupTypeOK
    <3> QED
      BY <2>1, <2>2, <3>2, <3>3
  <2>4. CASE b # from[r]
    <3>1. Waiting(b)' = Waiting(b)
      BY <2>1, <2>4, SameWaiting DEF FormsShaped, SetupTypeOK
    <3> QED
      BY <2>1, <2>2, <2>4, <3>1 DEF FormsShaped, SetupTypeOK
  <2> QED
    BY <2>3, <2>4
<1>2. ASSUME NEW r \in Request, WrongToken(r) PROVE Registered'
  <2> SUFFICES ASSUME NEW b \in Address PROVE wrong'[b] + Cardinality(Waiting(b)') <= tries'[b]
    BY DEF Registered
  <2>1. Waiting(b)' = Waiting(b)
    BY <1>2 DEF WrongToken, form, Waiting
  <2>2. /\ wrong[b] \in Nat /\ tries[b] \in Nat /\ from[r] \in Address
        /\ Cardinality(Waiting(b)) \in Nat /\ wrong[b] + Cardinality(Waiting(b)) <= tries[b]
    BY WaitingFinite, AttemptsAssumption DEF FormsShaped, SetupTypeOK, Registered
  <2>3. /\ wrong' = [wrong EXCEPT ![from[r]] = @ + 1] /\ wrong \in [Address -> Nat]
        /\ tries' = [tries EXCEPT ![from[r]] = @ + 1] /\ tries \in [Address -> 0..MaxAttempts]
    BY <1>2 DEF WrongToken, FormsShaped, SetupTypeOK
  <2> QED
    BY <2>1, <2>2, <2>3
<1>3. ASSUME NEW r \in Request, Mismatch(r) PROVE Registered'
  <2> SUFFICES ASSUME NEW b \in Address PROVE wrong'[b] + Cardinality(Waiting(b)') <= tries'[b]
    BY DEF Registered
  <2>1. /\ wrong' = [wrong EXCEPT ![from[r]] = IF counted[r] THEN @ + 1 ELSE @]
        /\ counted' = [counted EXCEPT ![r] = FALSE] /\ from' = from /\ tries' = tries
        /\ from[r] \in Address
    BY <1>3 DEF Mismatch, Refuse, End, FormsShaped, SetupTypeOK
  <2>2. /\ wrong[b] \in Nat /\ tries[b] \in Nat
        /\ Cardinality(Waiting(b)) \in Nat /\ wrong[b] + Cardinality(Waiting(b)) <= tries[b]
    BY WaitingFinite, AttemptsAssumption DEF FormsShaped, SetupTypeOK, Registered
  <2>3. CASE counted[r] /\ b = from[r]
    <3>1. Waiting(b)' = Waiting(b) \ {r} /\ r \in Waiting(b)
      BY <2>1, <2>3 DEF Waiting, FormsShaped, SetupTypeOK
    <3>2. Cardinality(Waiting(b)') = Cardinality(Waiting(b)) - 1
      BY <3>1, WaitingFinite, FS_RemoveElement
    <3>3. wrong'[b] = wrong[b] + 1
      BY <2>1, <2>3 DEF FormsShaped, SetupTypeOK
    <3> QED
      BY <2>1, <2>2, <3>2, <3>3
  <2>4. CASE ~(counted[r] /\ b = from[r])
    <3>1. Waiting(b)' = Waiting(b)
      BY <2>1, <2>4 DEF Waiting, FormsShaped, SetupTypeOK
    <3>2. wrong'[b] = wrong[b]
      BY <2>1, <2>4 DEF FormsShaped, SetupTypeOK
    <3> QED
      BY <2>1, <2>2, <3>1, <3>2
  <2> QED
    BY <2>3, <2>4
<1>4. ASSUME NEW r \in Request,
             \/ TokenStep(r)
             \/ \E p \in Password : PasswordStep(r, p) \/ ConfirmStep(r, p)
      PROVE Registered'
  <2>1. Forgive(from[r]) /\ from' = from /\ from[r] \in Address
    BY <1>4 DEF TokenStep, PasswordStep, ConfirmStep, WithToken, Enter, form, FormsShaped, SetupTypeOK
  <2> QED
    BY <2>1, ForgiveRegistered
<1>5. ASSUME NEW r \in Request, Done(r) PROVE Registered'
  <2>1. Forgive(from[r]) /\ from' = from /\ from[r] \in Address
    BY <1>5 DEF Done, End, FormsShaped, SetupTypeOK
  <2> QED
    BY <2>1, ForgiveRegistered
<1>6. ASSUME NEW a \in Address, WindowOver(a) PROVE Registered'
  BY <1>6, ForgiveRegistered DEF WindowOver, form
<1>7. ASSUME NEW r \in Request, Hashed(r) \/ Confirmed(r) \/ Cleared(r) PROVE Registered'
  BY <1>7, StillRegistered DEF Hashed, Confirmed, Cleared, End, form, tallies
<1>8. CASE Restart
  <2>1. ASSUME NEW a \in Address PROVE Cardinality(Waiting(a)') = 0
    BY <1>8, NoneWaiting DEF Restart
  <2> QED
    BY <1>8, <2>1 DEF Restart, Registered
<1>9. CASE UNCHANGED setup
  BY <1>9, StillRegistered DEF setup, form, tallies
<1> QED
  BY <1>1, <1>2, <1>3, <1>4, <1>5, <1>6, <1>7, <1>8, <1>9 DEF SetupNext

LEMMA RepeatedNext == Repeated /\ [SetupNext]_setup => Repeated'
<1> SUFFICES ASSUME Repeated, [SetupNext]_setup PROVE Repeated'
  OBVIOUS
<1>1. ASSUME NEW r \in Request, Confirmed(r) PROVE Repeated'
  BY <1>1 DEF Repeated, Confirmed
<1>2. CASE Restart
  BY <1>2 DEF Repeated, Restart
<1>3. CASE UNCHANGED <<hash, saved, repeated>>
  BY <1>3 DEF Repeated
<1>4. ASSUME NEW r \in Request, NEW p \in Password,
             Login(r, p) \/ PasswordStep(r, p) \/ ConfirmStep(r, p)
      PROVE  UNCHANGED <<hash, saved, repeated>>
  BY <1>4 DEF Login, Admitted, PasswordStep, ConfirmStep, WithToken, account
<1>5. ASSUME NEW r \in Request,
             WrongToken(r) \/ TokenStep(r) \/ Hashed(r) \/ Mismatch(r) \/ Cleared(r) \/ Done(r)
      PROVE  UNCHANGED <<hash, saved, repeated>>
  BY <1>5 DEF WrongToken, TokenStep, WithToken, Hashed, Mismatch, Refuse, Cleared, Done, account,
     tallies
<1>6. ASSUME NEW a \in Address, WindowOver(a) PROVE UNCHANGED <<hash, saved, repeated>>
  BY <1>6 DEF WindowOver, account
<1>7. CASE UNCHANGED setup
  BY <1>7, <1>3 DEF setup, account, tallies
<1> QED
  BY <1>1, <1>2, <1>3, <1>4, <1>5, <1>6, <1>7 DEF SetupNext

-----------------------------------------------------------------------------

\* Every variable of the login keeps its type, so no address is counted beyond the limit.
THEOREM FormsTypes == SetupSpec => []SetupTypeOK
<1>1. FormsShaped => SetupTypeOK
  BY DEF FormsShaped
<1> QED
  BY <1>1, FormsInit, FormsNext, PTL DEF SetupSpec

\* An address gets at most MaxAttempts wrong answers in a window without a right one, however
\* many of its forms are under way at once (register_login_attempt counts before bcrypt runs).
THEOREM GuessesAreBounded == SetupSpec => []GuessesBounded
<1>1. SetupInit => Registered
  <2> SUFFICES ASSUME SetupInit PROVE Registered
    OBVIOUS
  <2>1. ASSUME NEW a \in Address PROVE Waiting(a) = {}
    BY DEF SetupInit, Waiting
  <2> QED
    BY <2>1, FS_EmptySet DEF SetupInit, Registered
<1>2. FormsShaped /\ Registered => GuessesBounded
  <2> SUFFICES ASSUME FormsShaped, Registered, NEW a \in Address
               PROVE  wrong[a] + Cardinality(Waiting(a)) <= MaxAttempts
    BY DEF GuessesBounded, Waiting
  <2>1. /\ wrong[a] \in Nat /\ Cardinality(Waiting(a)) \in Nat
        /\ tries[a] \in 0..MaxAttempts /\ wrong[a] + Cardinality(Waiting(a)) <= tries[a]
    BY WaitingFinite DEF FormsShaped, SetupTypeOK, Registered
  <2> QED
    BY <2>1, AttemptsAssumption
<1> QED
  BY <1>1, <1>2, FormsInit, FormsNext, RegisteredNext, PTL DEF SetupSpec

\* The password in force, and the one a restart goes back to, were entered twice, although all
\* browsers share one pending hash (handle_admin_login_post).
THEOREM PasswordWasRepeated == SetupSpec => []EnteredTwice
<1>1. SetupInit => Repeated
  BY DEF SetupInit, Repeated
<1>2. Repeated => EnteredTwice
  BY DEF Repeated, EnteredTwice
<1> QED
  BY <1>1, <1>2, RepeatedNext, PTL DEF SetupSpec

-----------------------------------------------------------------------------
(* StreamCopies.                                                           *)

Stage == {"idle", "claim", "wait", "ensure", "inner", "innerBuild", "innerRename", "innerPrune",
          "start", "build", "rename", "prune", "release", "open"}

\* The types of what a task knows.
TasksTyped ==
    /\ pc \in [Task -> Stage]
    /\ job \in [Task -> {"prewarm", "play"}]
    /\ file \in [Task -> File \cup {NoFile}]
    /\ variant \in [Task -> Variant \cup {"raw"}]
    /\ inner \in [Task -> BOOLEAN]

\* A scratch file that is about to become a copy is complete.
Whole ==
    /\ torn = {}
    /\ \A p \in Task :
          /\ pc[p] = "rename" /\ Scratch(p, Target(p)) \in scratch
                => Scratch(p, Target(p)) \in written
          /\ pc[p] = "innerRename" /\ Scratch(p, Normalized(p)) \in scratch
                => Scratch(p, Normalized(p)) \in written

\* What a task runs for shows in where it can be.
Purpose ==
    \A p \in Task :
        /\ pc[p] \in {"claim", "release"} => job[p] = "prewarm"
        /\ pc[p] \in {"wait", "open"} => job[p] = "play"

\* The steps of a task, and those around the tasks.
TaskStep(p) == (\E f \in File : Prewarm(p, f) \/ Play(p, f)) \/ Advance(p) \/ Encoder(p)
Around == (\E n, l \in BOOLEAN : Settings(n, l)) \/ Shutdown \/ CopiesRestart

LEMMA CopiesSteps ==
    [CopiesNext]_streamCopies =>
        (\E p \in Task : TaskStep(p)) \/ Around \/ UNCHANGED streamCopies
BY DEF CopiesNext, TaskStep, Around

-----------------------------------------------------------------------------
(* Types.                                                                  *)

LEMMA PlannedType == \A f : Planned(f) \in Variant \cup {"raw"}
BY DEF Planned, Variant

\* A step of p changes nothing of what another task knows.
LEMMA OthersKeep ==
    ASSUME TasksTyped, NEW p \in Task, TaskStep(p), NEW q \in Task, q # p
    PROVE  /\ pc'[q] = pc[q] /\ job'[q] = job[q] /\ file'[q] = file[q]
           /\ variant'[q] = variant[q] /\ inner'[q] = inner[q]
<1> USE DEF TasksTyped
<1>1. CASE \E f \in File : Prewarm(p, f) \/ Play(p, f)
  BY <1>1 DEF Prewarm, Play, Begin, Goto
<1>2. CASE Claim(p) \/ ClaimTaken(p) \/ WaitOver(p) \/ WaitTimeout(p)
  BY <1>2 DEF Claim, ClaimTaken, WaitOver, WaitTimeout, Goto, EndTask, mine
<1>3. CASE EnsureFound(p) \/ EnsureMissing(p) \/ InnerFound(p) \/ InnerStart(p) \/ InnerNoFile(p)
  BY <1>3 DEF EnsureFound, EnsureMissing, InnerFound, InnerStart, InnerNoFile, Goto, CopyDone,
     mine
<1>4. CASE InnerRenamed(p) \/ InnerPruned(p) \/ Start(p) \/ Renamed(p) \/ Pruned(p)
  BY <1>4 DEF InnerRenamed, InnerPruned, Start, Renamed, Pruned, Goto, CopyDone, mine
<1>5. CASE Release(p) \/ Open(p)
  BY <1>5 DEF Release, Open, EndTask
<1>6. CASE Encoder(p)
  BY <1>6 DEF Encoder, InnerBuilt, InnerFails, Built, Fails, Goto, CopyDone, mine
<1> QED
  BY <1>1, <1>2, <1>3, <1>4, <1>5, <1>6 DEF TaskStep, Advance

LEMMA TasksNext == TasksTyped /\ [CopiesNext]_streamCopies => TasksTyped'
<1> SUFFICES ASSUME TasksTyped, [CopiesNext]_streamCopies PROVE TasksTyped'
  OBVIOUS
<1> USE DEF TasksTyped, Stage, Variant
<1>1. ASSUME NEW p \in Task, NEW f \in File, Prewarm(p, f) \/ Play(p, f) PROVE TasksTyped'
  BY <1>1, PlannedType DEF Prewarm, Play, Begin, Goto
<1>2. ASSUME NEW p \in Task, Claim(p) \/ ClaimTaken(p) \/ WaitOver(p) \/ WaitTimeout(p)
      PROVE  TasksTyped'
  BY <1>2 DEF Claim, ClaimTaken, WaitOver, WaitTimeout, Goto, EndTask, mine
<1>3. ASSUME NEW p \in Task, EnsureFound(p) \/ EnsureMissing(p) \/ InnerFound(p)
      PROVE  TasksTyped'
  BY <1>3 DEF EnsureFound, EnsureMissing, InnerFound, Goto, CopyDone, mine
<1>4. ASSUME NEW p \in Task, InnerStart(p) \/ InnerNoFile(p) \/ InnerRenamed(p)
      PROVE  TasksTyped'
  BY <1>4 DEF InnerStart, InnerNoFile, InnerRenamed, Goto, mine
<1>5. ASSUME NEW p \in Task, InnerPruned(p) \/ Start(p) \/ Renamed(p) \/ Pruned(p)
      PROVE  TasksTyped'
  BY <1>5 DEF InnerPruned, Start, Renamed, Pruned, Goto, CopyDone, mine
<1>6. ASSUME NEW p \in Task, Release(p) \/ Open(p) PROVE TasksTyped'
  BY <1>6 DEF Release, Open, EndTask
<1>7. ASSUME NEW p \in Task, Encoder(p) PROVE TasksTyped'
  BY <1>7 DEF Encoder, InnerBuilt, InnerFails, Built, Fails, Goto, CopyDone, mine
<1>8. CASE Around
  <2>1. CASE CopiesRestart
    BY <2>1 DEF CopiesRestart
  <2>2. CASE ~CopiesRestart
    BY <1>8, <2>2 DEF Around, Settings, Shutdown, mine
  <2> QED
    BY <2>1, <2>2
<1>9. CASE UNCHANGED streamCopies
  BY <1>9 DEF streamCopies, mine
<1> QED
  BY <1>1, <1>2, <1>3, <1>4, <1>5, <1>6, <1>7, <1>8, <1>9, CopiesSteps DEF TaskStep, Advance

LEMMA TasksInit == CopiesInit => TasksTyped
BY DEF CopiesInit, TasksTyped, Stage, Variant

-----------------------------------------------------------------------------
(* Whole copies.                                                           *)

\* What is in a scratch file of another task is not changed by a step of p.
LEMMA OthersScratch ==
    ASSUME NEW p \in Task, TaskStep(p), NEW q \in Task, q # p, NEW n
    PROVE  /\ Scratch(q, n) \in scratch' <=> Scratch(q, n) \in scratch
           /\ Scratch(q, n) \in written' <=> Scratch(q, n) \in written
<1> USE DEF Scratch
<1>1. CASE \E f \in File : Prewarm(p, f) \/ Play(p, f)
  BY <1>1 DEF Prewarm, Play, Begin, disk
<1>2. CASE Claim(p) \/ ClaimTaken(p) \/ WaitOver(p) \/ WaitTimeout(p) \/ Release(p) \/ Open(p)
  BY <1>2 DEF Claim, ClaimTaken, WaitOver, WaitTimeout, Release, Open, disk
<1>3. CASE EnsureFound(p) \/ EnsureMissing(p) \/ InnerFound(p) \/ InnerNoFile(p)
  BY <1>3 DEF EnsureFound, EnsureMissing, InnerFound, InnerNoFile, disk
<1>4. CASE InnerStart(p) \/ Start(p)
  BY <1>4 DEF InnerStart, Start, Create
<1>5. CASE InnerRenamed(p) \/ Renamed(p)
  BY <1>5 DEF InnerRenamed, Renamed, Rename
<1>6. CASE InnerPruned(p) \/ Pruned(p)
  BY <1>6 DEF InnerPruned, Pruned, Prune
<1>7. CASE InnerBuilt(p) \/ Built(p)
  BY <1>7 DEF InnerBuilt, Built, Complete
<1>8. CASE InnerFails(p) \/ Fails(p)
  BY <1>8 DEF InnerFails, Fails
<1> QED
  BY <1>1, <1>2, <1>3, <1>4, <1>5, <1>6, <1>7, <1>8 DEF TaskStep, Advance, Encoder

\* No two tasks write to one file.
LEMMA Alone == \A p \in Task : \A n : WritesAlone(p, n)
BY DEF WritesAlone, Scratch

\* The scratch files of p itself are complete when it renames them.
LEMMA OwnWhole ==
    ASSUME TasksTyped, Whole, NEW p \in Task, TaskStep(p)
    PROVE  /\ pc'[p] = "rename" /\ Scratch(p, Target(p)') \in scratch'
                 => Scratch(p, Target(p)') \in written'
           /\ pc'[p] = "innerRename" /\ Scratch(p, Normalized(p)') \in scratch'
                 => Scratch(p, Normalized(p)') \in written'
<1>1. CASE Built(p)
  BY <1>1, Alone DEF Built, Complete, Goto, Target, Normalized, TasksTyped, mine
<1>2. CASE InnerBuilt(p)
  BY <1>2, Alone DEF InnerBuilt, Complete, Goto, Target, Normalized, TasksTyped, mine
<1>3. CASE ~Built(p) /\ ~InnerBuilt(p)
  <2> SUFFICES pc'[p] \notin {"rename", "innerRename"}
    OBVIOUS
  <2> USE DEF TasksTyped
  <2>1. CASE \E f \in File : Prewarm(p, f) \/ Play(p, f)
    BY <2>1 DEF Prewarm, Play, Begin, Goto
  <2>2. CASE Claim(p) \/ ClaimTaken(p) \/ WaitOver(p) \/ WaitTimeout(p) \/ Release(p) \/ Open(p)
    BY <2>2 DEF Claim, ClaimTaken, WaitOver, WaitTimeout, Release, Open, Goto, EndTask
  <2>3. CASE EnsureFound(p) \/ EnsureMissing(p) \/ InnerFound(p) \/ InnerStart(p)
             \/ InnerNoFile(p)
    BY <2>3 DEF EnsureFound, EnsureMissing, InnerFound, InnerStart, InnerNoFile, Goto, CopyDone
  <2>4. CASE InnerRenamed(p) \/ InnerPruned(p) \/ Start(p) \/ Renamed(p) \/ Pruned(p)
    BY <2>4 DEF InnerRenamed, InnerPruned, Start, Renamed, Pruned, Goto, CopyDone
  <2>5. CASE InnerFails(p) \/ Fails(p)
    BY <2>5 DEF InnerFails, Fails, CopyDone
  <2> QED
    BY <1>3, <2>1, <2>2, <2>3, <2>4, <2>5 DEF TaskStep, Advance, Encoder
<1> QED
  BY <1>1, <1>2, <1>3

\* No step of a task makes a copy that is not whole.
LEMMA NeverTorn ==
    ASSUME TasksTyped, Whole, NEW p \in Task, TaskStep(p)
    PROVE  torn' = {}
<1> USE DEF Whole
<1>1. CASE Renamed(p)
  BY <1>1 DEF Renamed, Rename, Goto
<1>2. CASE InnerRenamed(p)
  BY <1>2 DEF InnerRenamed, Rename, Goto
<1>3. CASE ~Renamed(p) /\ ~InnerRenamed(p)
  <2>1. torn' = torn
    BY <1>3 DEF TaskStep, Advance, Encoder, Prewarm, Play, Begin, Claim, ClaimTaken, WaitOver,
       WaitTimeout, EnsureFound, EnsureMissing, InnerFound, InnerStart, InnerNoFile, InnerPruned,
       Start, Pruned, Release, Open, InnerBuilt, InnerFails, Built, Fails, Create, Prune, disk
  <2> QED
    BY <2>1
<1> QED
  BY <1>1, <1>2, <1>3

LEMMA WholeNext == TasksTyped /\ Whole /\ [CopiesNext]_streamCopies => Whole'
<1> SUFFICES ASSUME TasksTyped, Whole, [CopiesNext]_streamCopies PROVE Whole'
  OBVIOUS
<1>1. ASSUME NEW p \in Task, TaskStep(p) PROVE Whole'
  <2>1. ASSUME NEW q \in Task
        PROVE  /\ pc'[q] = "rename" /\ Scratch(q, Target(q)') \in scratch'
                     => Scratch(q, Target(q)') \in written'
               /\ pc'[q] = "innerRename" /\ Scratch(q, Normalized(q)') \in scratch'
                     => Scratch(q, Normalized(q)') \in written'
    <3>1. CASE q = p
      BY <1>1, <3>1, OwnWhole
    <3>2. CASE q # p
      <4>1. pc'[q] = pc[q] /\ Target(q)' = Target(q) /\ Normalized(q)' = Normalized(q)
        BY <1>1, <3>2, OthersKeep DEF Target, Normalized
      <4>2. \A n : /\ Scratch(q, n) \in scratch' <=> Scratch(q, n) \in scratch
                   /\ Scratch(q, n) \in written' <=> Scratch(q, n) \in written
        BY <1>1, <3>2, OthersScratch
      <4> QED
        BY <4>1, <4>2 DEF Whole
    <3> QED
      BY <3>1, <3>2
  <2> QED
    BY <1>1, <2>1, NeverTorn DEF Whole, Scratch
<1>2. CASE Around
  BY <1>2 DEF Around, Settings, Shutdown, CopiesRestart, Whole, Scratch, Target, Normalized,
     disk, mine
<1>3. CASE UNCHANGED streamCopies
  BY <1>3 DEF streamCopies, disk, mine, Whole, Scratch, Target, Normalized
<1> QED
  BY <1>1, <1>2, <1>3, CopiesSteps

-----------------------------------------------------------------------------
(* Prewarms.                                                               *)

LEMMA PurposeNext == TasksTyped /\ Purpose /\ [CopiesNext]_streamCopies => Purpose'
<1> SUFFICES ASSUME TasksTyped, Purpose, [CopiesNext]_streamCopies PROVE Purpose'
  OBVIOUS
<1>1. ASSUME NEW p \in Task, TaskStep(p) PROVE Purpose'
  <2> SUFFICES ASSUME NEW q \in Task
               PROVE  /\ pc'[q] \in {"claim", "release"} => job'[q] = "prewarm"
                      /\ pc'[q] \in {"wait", "open"} => job'[q] = "play"
    BY DEF Purpose
  <2>1. CASE q # p
    BY <1>1, <2>1, OthersKeep DEF Purpose
  <2>2. CASE q = p
    <3> USE <2>2 DEF TasksTyped, Purpose
    <3>1. CASE \E f \in File : Prewarm(p, f) \/ Play(p, f)
      BY <3>1 DEF Prewarm, Play, Begin, Goto
    <3>2. CASE Claim(p) \/ ClaimTaken(p) \/ WaitOver(p) \/ WaitTimeout(p) \/ Release(p)
               \/ Open(p)
      BY <3>2 DEF Claim, ClaimTaken, WaitOver, WaitTimeout, Release, Open, Goto, EndTask, mine
    <3>3. CASE EnsureFound(p) \/ EnsureMissing(p) \/ InnerFound(p) \/ InnerStart(p)
               \/ InnerNoFile(p)
      BY <3>3 DEF EnsureFound, EnsureMissing, InnerFound, InnerStart, InnerNoFile, Goto, CopyDone,
         mine
    <3>4. CASE InnerRenamed(p) \/ InnerPruned(p) \/ Start(p) \/ Renamed(p) \/ Pruned(p)
      BY <3>4 DEF InnerRenamed, InnerPruned, Start, Renamed, Pruned, Goto, CopyDone, mine
    <3>5. CASE Encoder(p)
      BY <3>5 DEF Encoder, InnerBuilt, InnerFails, Built, Fails, Goto, CopyDone, mine
    <3> QED
      BY <1>1, <3>1, <3>2, <3>3, <3>4, <3>5 DEF TaskStep, Advance
  <2> QED
    BY <2>1, <2>2
<1>2. CASE Around
  BY <1>2 DEF Around, Settings, Shutdown, CopiesRestart, Purpose, mine
<1>3. CASE UNCHANGED streamCopies
  BY <1>3 DEF streamCopies, mine, Purpose
<1> QED
  BY <1>1, <1>2, <1>3, CopiesSteps

\* Only Claim makes a prewarm of p that runs, only Release ends one, and no other step of p
\* changes its file or the set while one runs.
LEMMA OthersPrewarm ==
    ASSUME TasksTyped, Purpose, NEW p \in Task, TaskStep(p), ~Claim(p), ~Release(p)
    PROVE  /\ prewarming' = prewarming
           /\ Prewarms(p)' <=> Prewarms(p)
           /\ Prewarms(p) => file'[p] = file[p]
<1> USE DEF TasksTyped, Purpose, Prewarms
<1>1. CASE \E f \in File : Prewarm(p, f) \/ Play(p, f)
  BY <1>1 DEF Prewarm, Play, Begin, Goto
<1>2. CASE ClaimTaken(p) \/ WaitOver(p) \/ WaitTimeout(p) \/ Open(p)
  BY <1>2 DEF ClaimTaken, WaitOver, WaitTimeout, Open, Goto, EndTask, mine
<1>3. CASE EnsureFound(p) \/ EnsureMissing(p) \/ InnerFound(p) \/ InnerStart(p) \/ InnerNoFile(p)
  BY <1>3 DEF EnsureFound, EnsureMissing, InnerFound, InnerStart, InnerNoFile, Goto, CopyDone,
     mine
<1>4. CASE InnerRenamed(p) \/ InnerPruned(p) \/ Start(p) \/ Renamed(p) \/ Pruned(p)
  BY <1>4 DEF InnerRenamed, InnerPruned, Start, Renamed, Pruned, Goto, CopyDone, mine
<1>5. CASE Encoder(p)
  BY <1>5 DEF Encoder, InnerBuilt, InnerFails, Built, Fails, Goto, CopyDone, mine
<1> QED
  BY <1>1, <1>2, <1>3, <1>4, <1>5 DEF TaskStep, Advance

LEMMA PrewarmingNext ==
    TasksTyped /\ Purpose /\ PrewarmingMatches /\ [CopiesNext]_streamCopies => PrewarmingMatches'
<1> SUFFICES ASSUME TasksTyped, Purpose, PrewarmingMatches, [CopiesNext]_streamCopies
             PROVE  PrewarmingMatches'
  OBVIOUS
<1>1. ASSUME NEW p \in Task, TaskStep(p) PROVE PrewarmingMatches'
  <2>1. \A q \in Task \ {p} : (Prewarms(q)' <=> Prewarms(q)) /\ file'[q] = file[q]
    BY <1>1, OthersKeep DEF Prewarms
  <2>2. CASE Claim(p)
    <3>1. /\ file[p] \notin prewarming /\ prewarming' = prewarming \cup {file[p]}
          /\ file' = file /\ ~Prewarms(p) /\ Prewarms(p)'
      BY <2>2 DEF Claim, Goto, Prewarms, TasksTyped, Purpose, mine
    <3> QED
      BY <2>1, <3>1 DEF PrewarmingMatches
  <2>3. CASE Release(p)
    <3>1. prewarming' = prewarming \ {file[p]} /\ Prewarms(p) /\ ~Prewarms(p)'
      BY <2>3 DEF Release, EndTask, Prewarms, TasksTyped, Purpose
    <3> QED
      BY <2>1, <3>1 DEF PrewarmingMatches
  <2>4. CASE ~Claim(p) /\ ~Release(p)
    <3>1. /\ prewarming' = prewarming /\ (Prewarms(p)' <=> Prewarms(p))
          /\ Prewarms(p) => file'[p] = file[p]
      BY <1>1, <2>4, OthersPrewarm
    <3> QED
      BY <2>1, <3>1 DEF PrewarmingMatches
  <2> QED
    BY <2>2, <2>3, <2>4
<1>2. CASE Around
  BY <1>2 DEF Around, Settings, Shutdown, CopiesRestart, PrewarmingMatches, Prewarms, mine
<1>3. CASE UNCHANGED streamCopies
  BY <1>3 DEF streamCopies, mine, PrewarmingMatches, Prewarms
<1> QED
  BY <1>1, <1>2, <1>3, CopiesSteps

-----------------------------------------------------------------------------

\* A copy that can be opened is complete: a name that starts with random digits keeps builders
\* of one file apart, and only a complete scratch file is renamed (prepare_stream_temp).
THEOREM CopiesAreWhole == CopiesSpec => []WholeCopies
<1>1. CopiesInit => Whole
  BY DEF CopiesInit, Whole
<1>2. Whole => WholeCopies
  BY DEF Whole, WholeCopies
<1> QED
  BY <1>1, <1>2, TasksInit, TasksNext, WholeNext, PTL DEF CopiesSpec

\* The set prewarming is that of the files whose prewarm runs, one prewarm each: none stays
\* marked, whichever way its prewarm ends (StreamManager::prewarm).
THEOREM PrewarmingIsExact == CopiesSpec => []PrewarmingMatches
<1>1. CopiesInit => Purpose /\ PrewarmingMatches
  BY DEF CopiesInit, Purpose, PrewarmingMatches, Prewarms
<1> QED
  BY <1>1, TasksInit, TasksNext, PurposeNext, PrewarmingNext, PTL DEF CopiesSpec

-----------------------------------------------------------------------------
(* The directory of the copies.                                            *)

Listed == copies \in Seq(Name) /\ IsInjective(copies)

\* A task has a file as long as it runs, and a copy to build until it is done with it.
Sourced ==
    \A p \in Task :
        /\ pc[p] # "idle" => file[p] \in File
        /\ pc[p] \notin {"idle", "release", "open"} => variant[p] \in Variant

\* A scratch file belongs to a build under way.
Owned ==
    /\ scratch \subseteq Task \X Name /\ written \subseteq scratch
    /\ \A p \in Task : \A n \in Name :
          Scratch(p, n) \in scratch =>
              \/ pc[p] \in {"build", "rename"} /\ n = Target(p)
              \/ pc[p] \in {"innerBuild", "innerRename"} /\ n = Normalized(p)

\* The tasks that have renamed a copy and have yet to prune; each has made room for one more.
Pruning == {p \in Task : pc[p] \in {"prune", "innerPrune"}}
Fits == Len(copies) <= MaxCopies + Cardinality(Pruning)

\* What Without leaves of the copies.
LEMMA WithoutProperties ==
    ASSUME Listed, NEW n
    PROVE  /\ Without(n) \in Seq(Name) /\ Len(Without(n)) <= Len(copies)
           /\ IsInjective(Without(n))
           /\ \A i \in 1..Len(Without(n)) : Without(n)[i] # n
<1>1. copies \in Seq(Name) /\ Len(copies) \in Nat /\ DOMAIN copies = 1..Len(copies)
  BY LenProperties DEF Listed
<1>2. \A i \in 1..Len(copies) : copies[i] \in Name
  BY <1>1, ElementOfSeq
<1>3. \A i, j \in 1..Len(copies) : copies[i] = copies[j] => i = j
  BY <1>1 DEF Listed, IsInjective
<1>4. CASE ~Has(n)
  BY <1>1, <1>4 DEF Without, Has, Listed
<1>5. CASE Has(n)
  <2>1. PICK k \in 1..Len(copies) : copies[k] = n /\ Without(n) = RemoveAt(copies, k)
    BY <1>5 DEF Without, Has
  <2> DEFINE a == SubSeq(copies, 1, k - 1)
             b == SubSeq(copies, k + 1, Len(copies))
  <2>2. /\ a \in Seq(Name) /\ Len(a) = k - 1
        /\ \A i \in 1..k - 1 : a[i] = copies[i]
    <3>1. \A i \in 1..k - 1 : copies[i] \in Name
      BY <1>1, <1>2, <2>1
    <3>2. /\ a \in Seq(Name) /\ Len(a) = (IF 1 <= k - 1 THEN k - 1 - 1 + 1 ELSE 0)
          /\ \A i \in 1..k - 1 - 1 + 1 : a[i] = copies[1 + i - 1]
      BY <1>1, <2>1, <3>1, SubSeqProperties
    <3> QED
      BY <1>1, <2>1, <3>2
  <2>3. /\ b \in Seq(Name) /\ Len(b) = Len(copies) - k
        /\ \A i \in 1..Len(copies) - k : b[i] = copies[k + i]
    <3>1. \A i \in k + 1..Len(copies) : copies[i] \in Name
      BY <1>1, <1>2, <2>1
    <3>2. /\ b \in Seq(Name)
          /\ Len(b) = (IF k + 1 <= Len(copies) THEN Len(copies) - (k + 1) + 1 ELSE 0)
          /\ \A i \in 1..Len(copies) - (k + 1) + 1 : b[i] = copies[k + 1 + i - 1]
      BY <1>1, <2>1, <3>1, SubSeqProperties
    <3>3. Len(copies) - (k + 1) + 1 = Len(copies) - k /\ k \in Int
      BY <1>1, <2>1
    <3>4. Len(b) = Len(copies) - k
      <4>1. CASE k + 1 <= Len(copies)
        BY <3>2, <3>3, <4>1
      <4>2. CASE ~(k + 1 <= Len(copies))
        <5>1. k \in Int /\ Len(copies) \in Int /\ k <= Len(copies)
          BY <1>1, <2>1
        <5>3. Len(copies) - k = 0
          BY <4>2, <5>1
        <5>2. Len(b) = 0
          BY <3>2, <4>2
        <5> QED
          BY <5>2, <5>3
      <4> QED
        BY <4>1, <4>2
    <3>5. ASSUME NEW i \in 1..Len(copies) - k PROVE b[i] = copies[k + i]
      <4>1. k + 1 + i - 1 = k + i
        BY <3>3
      <4> QED
        BY <3>2, <3>3, <4>1
    <3> QED
      BY <3>2, <3>4, <3>5
  <2> HIDE DEF a, b
  <2>4. /\ a \o b \in Seq(Name) /\ Len(a \o b) = Len(copies) - 1
        /\ \A i \in 1..Len(copies) - 1 :
              (a \o b)[i] = IF i < k THEN copies[i] ELSE copies[i + 1]
    <3>1. /\ a \o b \in Seq(Name) /\ Len(a \o b) = Len(a) + Len(b)
          /\ \A i \in 1..Len(a) + Len(b) :
                (a \o b)[i] = IF i <= Len(a) THEN a[i] ELSE b[i - Len(a)]
      BY <2>2, <2>3, ConcatProperties
    <3>2. ASSUME NEW i \in 1..Len(copies) - 1
          PROVE  (a \o b)[i] = IF i < k THEN copies[i] ELSE copies[i + 1]
      <4>1. (a \o b)[i] = IF i <= k - 1 THEN a[i] ELSE b[i - (k - 1)]
        BY <1>1, <2>1, <2>2, <2>3, <3>1
      <4>2. CASE i < k
        BY <1>1, <2>1, <2>2, <4>1, <4>2
      <4>3. CASE ~(i < k)
        <5>1. i - (k - 1) \in 1..Len(copies) - k /\ k + (i - (k - 1)) = i + 1
          BY <1>1, <2>1, <4>3
        <5> QED
          BY <1>1, <2>1, <2>3, <4>1, <4>3, <5>1
      <4> QED
        BY <4>2, <4>3
    <3> QED
      BY <1>1, <2>1, <2>2, <2>3, <3>1, <3>2
  <2>5. Without(n) = a \o b
    BY <2>1 DEF RemoveAt, a, b
  <2> DEFINE w == Without(n)
  <2>6. /\ w \in Seq(Name) /\ Len(w) = Len(copies) - 1
        /\ \A i \in 1..Len(w) : w[i] = IF i < k THEN copies[i] ELSE copies[i + 1]
    BY <2>4, <2>5
  <2> HIDE DEF w
  <2>7. \A i \in 1..Len(w) : w[i] # n
    <3> SUFFICES ASSUME NEW i \in 1..Len(w) PROVE w[i] # n
      OBVIOUS
    <3>1. i \in 1..Len(copies) /\ i + 1 \in 1..Len(copies)
      BY <1>1, <2>6
    <3>2. CASE i < k
      BY <1>3, <2>1, <2>6, <3>1, <3>2
    <3>3. CASE ~(i < k)
      BY <1>3, <2>1, <2>6, <3>1, <3>3
    <3> QED
      BY <3>2, <3>3
  <2>8. \A i, j \in 1..Len(w) : w[i] = w[j] => i = j
    <3> SUFFICES ASSUME NEW i \in 1..Len(w), NEW j \in 1..Len(w), w[i] = w[j] PROVE i = j
      OBVIOUS
    <3>1. /\ i \in 1..Len(copies) /\ i + 1 \in 1..Len(copies)
          /\ j \in 1..Len(copies) /\ j + 1 \in 1..Len(copies)
      BY <1>1, <2>6
    <3>2. CASE i < k /\ j < k
      BY <1>3, <2>6, <3>1, <3>2
    <3>3. CASE i < k /\ ~(j < k)
      BY <1>3, <2>1, <2>6, <3>1, <3>3
    <3>4. CASE ~(i < k) /\ j < k
      BY <1>3, <2>1, <2>6, <3>1, <3>4
    <3>5. CASE ~(i < k) /\ ~(j < k)
      BY <1>3, <2>6, <3>1, <3>5
    <3> QED
      BY <3>2, <3>3, <3>4, <3>5
  <2>9. DOMAIN w = 1..Len(w)
    BY <2>6, LenProperties
  <2>10. Len(w) <= Len(copies)
    BY <1>1, <2>6
  <2> QED
    BY <2>6, <2>7, <2>8, <2>9, <2>10 DEF w, IsInjective
<1> QED
  BY <1>4, <1>5

LEMMA AppendOne ==
    ASSUME Listed, NEW n \in Name, copies' = Append(Without(n), n)
    PROVE  Listed' /\ Len(copies') <= Len(copies) + 1
<1> DEFINE w == Without(n)
<1>1. /\ w \in Seq(Name) /\ Len(w) \in Nat /\ Len(w) <= Len(copies) /\ Len(copies) \in Nat
      /\ \A i \in 1..Len(w) : w[i] # n
      /\ \A i, j \in 1..Len(w) : w[i] = w[j] => i = j
  BY WithoutProperties, LenProperties DEF IsInjective, Listed
<1> HIDE DEF w
<1>2. PICK c : c = Append(w, n)
  OBVIOUS
<1>3. /\ c \in Seq(Name) /\ Len(c) = Len(w) + 1
      /\ \A i \in 1..Len(w) : c[i] = w[i]
      /\ c[Len(w) + 1] = n
  BY <1>1, <1>2, AppendProperties
<1>4. \A i, j \in 1..Len(c) : c[i] = c[j] => i = j
  <2> SUFFICES ASSUME NEW i \in 1..Len(c), NEW j \in 1..Len(c), c[i] = c[j] PROVE i = j
    OBVIOUS
  <2>1. (i \in 1..Len(w) \/ i = Len(w) + 1) /\ (j \in 1..Len(w) \/ j = Len(w) + 1)
    BY <1>1, <1>3
  <2> QED
    BY <1>1, <1>3, <2>1
<1>5. DOMAIN c = 1..Len(c)
  BY <1>3, LenProperties
<1>6. copies' = c
  BY <1>2 DEF w
<1>7. Len(c) <= Len(copies) + 1
  BY <1>1, <1>3
<1> QED
  BY <1>3, <1>4, <1>5, <1>6, <1>7 DEF Listed, IsInjective

LEMMA WithoutOne ==
    ASSUME Listed, NEW n, copies' = Without(n)
    PROVE  Listed' /\ Len(copies') <= Len(copies)
BY WithoutProperties DEF Listed

\* What prune_norm_cache leaves.
LEMMA PruneKeeps ==
    ASSUME Listed, Prune
    PROVE  Listed' /\ Len(copies') <= MaxCopies
<1>1. /\ copies \in Seq(Name) /\ Len(copies) \in Nat /\ DOMAIN copies = 1..Len(copies)
      /\ \A i \in 1..Len(copies) : copies[i] \in Name
  BY LenProperties, ElementOfSeq DEF Listed
<1>2. \A i, j \in 1..Len(copies) : copies[i] = copies[j] => i = j
  BY <1>1 DEF Listed, IsInjective
<1>3. MaxCopies \in Nat \ {0}
  BY MaxAssumption
<1>4. CASE Len(copies) > MaxCopies
  <2>1. PICK m : m = Len(copies) - MaxCopies + 1
    OBVIOUS
  <2>2. m \in 1..Len(copies) /\ Len(copies) - m + 1 = MaxCopies
    BY <1>1, <1>3, <1>4, <2>1
  <2>3. PICK c : c = SubSeq(copies, m, Len(copies))
    OBVIOUS
  <2>4. /\ c \in Seq(Name) /\ Len(c) = MaxCopies
        /\ \A i \in 1..MaxCopies : c[i] = copies[m + i - 1]
    <3>1. \A i \in m..Len(copies) : copies[i] \in Name
      BY <1>1, <2>2
    <3>2. /\ c \in Seq(Name)
          /\ Len(c) = (IF m <= Len(copies) THEN Len(copies) - m + 1 ELSE 0)
          /\ \A i \in 1..Len(copies) - m + 1 : c[i] = copies[m + i - 1]
      BY <1>1, <2>2, <2>3, <3>1, SubSeqProperties
    <3> QED
      BY <1>1, <2>2, <3>2
  <2>5. \A i, j \in 1..Len(c) : c[i] = c[j] => i = j
    <3> SUFFICES ASSUME NEW i \in 1..MaxCopies, NEW j \in 1..MaxCopies, c[i] = c[j] PROVE i = j
      BY <2>4
    <3>1. m + i - 1 \in 1..Len(copies) /\ m + j - 1 \in 1..Len(copies)
      BY <1>1, <1>3, <2>2
    <3>2. copies[m + i - 1] = copies[m + j - 1]
      BY <2>4
    <3>3. m + i - 1 = m + j - 1
      BY <1>2, <3>1, <3>2
    <3> QED
      BY <2>2, <3>3
  <2>6. DOMAIN c = 1..Len(c)
    BY <2>4, LenProperties
  <2>7. copies' = c
    BY <1>4, <2>1, <2>3 DEF Prune, NewestOf
  <2>8. Len(c) <= MaxCopies
    BY <1>3, <2>4
  <2> QED
    BY <2>4, <2>5, <2>6, <2>7, <2>8 DEF Listed, IsInjective
<1>5. CASE ~(Len(copies) > MaxCopies)
  BY <1>1, <1>3, <1>5 DEF Prune, Listed
<1> QED
  BY <1>4, <1>5

\* The steps of a task by what they do to the directory.
Renames(p) == InnerRenamed(p) \/ Renamed(p)
Prunes(p) == InnerPruned(p) \/ Pruned(p)
Looks(p) ==
    \/ \E f \in File : Prewarm(p, f) \/ Play(p, f)
    \/ Claim(p) \/ ClaimTaken(p) \/ WaitOver(p) \/ WaitTimeout(p)
    \/ EnsureFound(p) \/ EnsureMissing(p) \/ InnerFound(p) \/ InnerNoFile(p)
    \/ Release(p) \/ Open(p)
Starts(p) == InnerStart(p) \/ Start(p)

LEMMA TaskSteps ==
    ASSUME NEW p, TaskStep(p)
    PROVE  Looks(p) \/ Starts(p) \/ Renames(p) \/ Prunes(p) \/ Encoder(p)
BY DEF TaskStep, Advance, Looks, Starts, Renames, Prunes

LEMMA SourcedNext == TasksTyped /\ Sourced /\ [CopiesNext]_streamCopies => Sourced'
<1> SUFFICES ASSUME TasksTyped, Sourced, [CopiesNext]_streamCopies PROVE Sourced'
  OBVIOUS
<1>1. ASSUME NEW p \in Task, TaskStep(p) PROVE Sourced'
  <2> SUFFICES ASSUME NEW q \in Task
               PROVE  /\ pc'[q] # "idle" => file'[q] \in File
                      /\ pc'[q] \notin {"idle", "release", "open"} => variant'[q] \in Variant
    BY DEF Sourced
  <2>1. CASE q # p
    BY <1>1, <2>1, OthersKeep DEF Sourced
  <2>2. CASE q = p
    <3> USE <2>2 DEF TasksTyped, Sourced
    <3>1. CASE \E f \in File : Prewarm(p, f) \/ Play(p, f)
      BY <3>1, PlannedType DEF Prewarm, Play, Begin, Goto
    <3>2. CASE Claim(p) \/ ClaimTaken(p) \/ WaitOver(p) \/ WaitTimeout(p) \/ Release(p)
               \/ Open(p)
      BY <3>2 DEF Claim, ClaimTaken, WaitOver, WaitTimeout, Release, Open, Goto, EndTask, mine
    <3>3. CASE EnsureFound(p) \/ EnsureMissing(p) \/ InnerFound(p) \/ InnerStart(p)
               \/ InnerNoFile(p)
      BY <3>3 DEF EnsureFound, EnsureMissing, InnerFound, InnerStart, InnerNoFile, Goto, CopyDone,
         mine
    <3>4. CASE InnerRenamed(p) \/ InnerPruned(p) \/ Start(p) \/ Renamed(p) \/ Pruned(p)
      BY <3>4 DEF InnerRenamed, InnerPruned, Start, Renamed, Pruned, Goto, CopyDone, mine
    <3>5. CASE Encoder(p)
      BY <3>5 DEF Encoder, InnerBuilt, InnerFails, Built, Fails, Goto, CopyDone, mine
    <3> QED
      BY <1>1, <3>1, <3>2, <3>3, <3>4, <3>5 DEF TaskStep, Advance
  <2> QED
    BY <2>1, <2>2
<1>2. CASE Around
  BY <1>2 DEF Around, Settings, Shutdown, CopiesRestart, Sourced, mine
<1>3. CASE UNCHANGED streamCopies
  BY <1>3 DEF streamCopies, mine, Sourced
<1> QED
  BY <1>1, <1>2, <1>3, CopiesSteps

\* The names of what a task builds.
LEMMA BuildsNames ==
    ASSUME Sourced, NEW p \in Task, pc[p] \notin {"idle", "release", "open"}
    PROVE  Target(p) \in Name /\ Normalized(p) \in Name
BY DEF Sourced, Target, Normalized, Name, Variant

\* Which scratch files of its own a step of p leaves.
LEMMA OwnScratch ==
    ASSUME TasksTyped, Owned, NEW p \in Task, TaskStep(p), NEW n \in Name,
           Scratch(p, n) \in scratch'
    PROVE  \/ pc'[p] \in {"build", "rename"} /\ n = Target(p)'
           \/ pc'[p] \in {"innerBuild", "innerRename"} /\ n = Normalized(p)'
<1> USE DEF TasksTyped
<1>1. Scratch(p, n) \in scratch =>
          \/ pc[p] \in {"build", "rename"} /\ n = Target(p)
          \/ pc[p] \in {"innerBuild", "innerRename"} /\ n = Normalized(p)
  BY DEF Owned
<1>2. CASE Looks(p)
  <2>1. scratch' = scratch
    BY <1>2 DEF Looks, Prewarm, Play, Begin, Claim, ClaimTaken, WaitOver, WaitTimeout,
       EnsureFound, EnsureMissing, InnerFound, InnerNoFile, Release, Open, disk
  <2>2. pc[p] \notin {"build", "rename", "innerBuild", "innerRename"}
    BY <1>2 DEF Looks, Prewarm, Play, Begin, Claim, ClaimTaken, WaitOver, WaitTimeout,
       EnsureFound, EnsureMissing, InnerFound, InnerNoFile, Release, Open, Goto
  <2> QED
    BY <1>1, <2>1, <2>2
<1>3. CASE InnerStart(p)
  BY <1>1, <1>3 DEF InnerStart, Create, Goto, Scratch, Normalized, mine
<1>4. CASE Start(p)
  BY <1>1, <1>4 DEF Start, Create, Goto, Scratch, Target, mine
<1>5. CASE InnerRenamed(p)
  BY <1>1, <1>5 DEF InnerRenamed, Rename, Goto
<1>6. CASE Renamed(p)
  BY <1>1, <1>6 DEF Renamed, Rename, Goto
<1>7. CASE Prunes(p)
  BY <1>1, <1>7 DEF Prunes, InnerPruned, Pruned, Prune, Goto
<1>8. CASE InnerBuilt(p)
  BY <1>1, <1>8 DEF InnerBuilt, Goto, Normalized, mine
<1>9. CASE Built(p)
  BY <1>1, <1>9 DEF Built, Goto, Target, mine
<1>10. CASE InnerFails(p)
  BY <1>1, <1>10 DEF InnerFails, Scratch
<1>11. CASE Fails(p)
  BY <1>1, <1>11 DEF Fails, Scratch
<1> QED
  BY <1>2, <1>3, <1>4, <1>5, <1>6, <1>7, <1>8, <1>9, <1>10, <1>11, TaskSteps
  DEF Starts, Renames, Encoder

\* What the scratch files are in any step.
LEMMA ScratchTyped ==
    ASSUME TasksTyped, Sourced, Owned, NEW p \in Task, TaskStep(p)
    PROVE  scratch' \subseteq Task \X Name /\ written' \subseteq scratch'
<1> USE DEF TasksTyped, Owned
<1>1. CASE Looks(p)
  BY <1>1 DEF Looks, Prewarm, Play, Begin, Claim, ClaimTaken, WaitOver, WaitTimeout,
     EnsureFound, EnsureMissing, InnerFound, InnerNoFile, Release, Open, disk
<1>2. CASE Starts(p)
  <2>1. Target(p) \in Name /\ Normalized(p) \in Name
    BY <1>2, BuildsNames DEF Starts, InnerStart, Start, Goto
  <2> QED
    BY <1>2, <2>1 DEF Starts, InnerStart, Start, Create, Scratch
<1>3. CASE Renames(p)
  BY <1>3 DEF Renames, InnerRenamed, Renamed, Rename
<1>4. CASE Prunes(p)
  BY <1>4 DEF Prunes, InnerPruned, Pruned, Prune
<1>5. CASE InnerBuilt(p) \/ Built(p)
  BY <1>5 DEF InnerBuilt, Built, Complete
<1>6. CASE InnerFails(p) \/ Fails(p)
  BY <1>6 DEF InnerFails, Fails
<1> QED
  BY <1>1, <1>2, <1>3, <1>4, <1>5, <1>6, TaskSteps DEF Encoder

LEMMA OwnedNext == TasksTyped /\ Sourced /\ Owned /\ [CopiesNext]_streamCopies => Owned'
<1> SUFFICES ASSUME TasksTyped, Sourced, Owned, [CopiesNext]_streamCopies PROVE Owned'
  OBVIOUS
<1>1. ASSUME NEW p \in Task, TaskStep(p) PROVE Owned'
  <2>1. ASSUME NEW q \in Task, NEW n \in Name, Scratch(q, n) \in scratch'
        PROVE  \/ pc'[q] \in {"build", "rename"} /\ n = Target(q)'
               \/ pc'[q] \in {"innerBuild", "innerRename"} /\ n = Normalized(q)'
    <3>1. CASE q = p
      BY <1>1, <2>1, <3>1, OwnScratch
    <3>2. CASE q # p
      <4>1. pc'[q] = pc[q] /\ Target(q)' = Target(q) /\ Normalized(q)' = Normalized(q)
        BY <1>1, <3>2, OthersKeep DEF Target, Normalized
      <4>2. Scratch(q, n) \in scratch
        BY <1>1, <2>1, <3>2, OthersScratch
      <4> QED
        BY <4>1, <4>2 DEF Owned
    <3> QED
      BY <3>1, <3>2
  <2>2. scratch' \subseteq Task \X Name /\ written' \subseteq scratch'
    BY <1>1, ScratchTyped
  <2> QED
    BY <2>1, <2>2 DEF Owned, Scratch
<1>2. CASE Around
  BY <1>2 DEF Around, Settings, Shutdown, CopiesRestart, Owned, Scratch, Target, Normalized,
     disk, mine
<1>3. CASE UNCHANGED streamCopies
  BY <1>3 DEF streamCopies, disk, mine, Owned, Scratch, Target, Normalized
<1> QED
  BY <1>1, <1>2, <1>3, CopiesSteps

\* What a step of a task does to the list of the copies, by whether it has to prune after it,
\* or has pruned.
LEMMA TaskLists ==
    ASSUME TasksTyped, Sourced, Listed, NEW p \in Task, TaskStep(p)
    PROVE  /\ Listed'
           /\ \/ /\ Len(copies') <= Len(copies) + 1
                 /\ p \notin Pruning /\ p \in Pruning'
              \/ Len(copies') <= MaxCopies
              \/ /\ Len(copies') <= Len(copies)
                 /\ p \in Pruning' <=> p \in Pruning
<1> USE DEF TasksTyped
<1>0. Len(copies) <= Len(copies)
  <2>1. Len(copies) \in Nat
    BY LenProperties DEF Listed
  <2> QED
    BY <2>1
<1>1. CASE InnerRenamed(p)
  <2>1. copies' = Append(Without(Normalized(p)), Normalized(p)) /\ Normalized(p) \in Name
    BY <1>1, BuildsNames DEF InnerRenamed, Rename, Goto
  <2>2. p \notin Pruning /\ p \in Pruning'
    BY <1>1 DEF InnerRenamed, Goto, Pruning
  <2> QED
    BY <2>1, <2>2, AppendOne
<1>2. CASE Renamed(p)
  <2>1. copies' = Append(Without(Target(p)), Target(p)) /\ Target(p) \in Name
    BY <1>2, BuildsNames DEF Renamed, Rename, Goto
  <2>2. p \notin Pruning /\ p \in Pruning'
    BY <1>2 DEF Renamed, Goto, Pruning
  <2> QED
    BY <2>1, <2>2, AppendOne
<1>3. CASE Prunes(p)
  BY <1>3, PruneKeeps DEF Prunes, InnerPruned, Pruned
<1>4. CASE ~Renames(p) /\ ~Prunes(p)
  <2>1. copies' = copies \/ copies' = Without(Normalized(p))
    BY <1>4, TaskSteps DEF Looks, Starts, Prewarm, Play, Begin, Claim, ClaimTaken, WaitOver,
       WaitTimeout, EnsureFound, EnsureMissing, InnerFound, InnerStart, InnerNoFile, Start,
       Release, Open, Encoder, InnerBuilt, InnerFails, Built, Fails, Freed, Create, disk
  <2>2. p \in Pruning' <=> p \in Pruning
    <3> SUFFICES pc'[p] \in {"prune", "innerPrune"} <=> pc[p] \in {"prune", "innerPrune"}
      BY DEF Pruning
    <3>1. CASE \E f \in File : Prewarm(p, f) \/ Play(p, f)
      BY <3>1 DEF Prewarm, Play, Begin, Goto
    <3>2. CASE Claim(p) \/ ClaimTaken(p) \/ WaitOver(p) \/ WaitTimeout(p) \/ Release(p)
               \/ Open(p)
      BY <3>2 DEF Claim, ClaimTaken, WaitOver, WaitTimeout, Release, Open, Goto, EndTask
    <3>3. CASE EnsureFound(p) \/ EnsureMissing(p) \/ InnerFound(p) \/ InnerNoFile(p)
      BY <3>3 DEF EnsureFound, EnsureMissing, InnerFound, InnerNoFile, Goto, CopyDone
    <3>4. CASE Starts(p)
      BY <3>4 DEF Starts, InnerStart, Start, Goto
    <3>5. CASE Encoder(p)
      BY <3>5 DEF Encoder, InnerBuilt, InnerFails, Built, Fails, Goto, CopyDone
    <3> QED
      BY <1>4, <3>1, <3>2, <3>3, <3>4, <3>5, TaskSteps DEF Looks
  <2>3. CASE copies' = copies
    BY <1>0, <2>2, <2>3 DEF Listed
  <2>4. CASE copies' = Without(Normalized(p))
    BY <2>2, <2>4, WithoutOne
  <2> QED
    BY <2>1, <2>3, <2>4
<1> QED
  BY <1>1, <1>2, <1>3, <1>4 DEF Renames

LEMMA PruningFinite ==
    /\ IsFiniteSet(Pruning) /\ Cardinality(Pruning) \in Nat
    /\ IsFiniteSet(Pruning') /\ Cardinality(Pruning') \in Nat
<1>1. Pruning \in SUBSET Task /\ Pruning' \in SUBSET Task
  BY DEF Pruning
<1> QED
  BY <1>1, TaskAssumption, FS_Subset, FS_CardinalityType

\* The number of copies against the tasks in the set P, which becomes Q.
LEMMA FitsCounted ==
    ASSUME NEW P, NEW Q, NEW p, IsFiniteSet(P), IsFiniteSet(Q), NEW l \in Nat, NEW k \in Nat,
           \A q : q # p => (q \in Q <=> q \in P),
           l <= MaxCopies + Cardinality(P),
           \/ k <= l + 1 /\ p \notin P /\ p \in Q
           \/ k <= MaxCopies
           \/ k <= l /\ (p \in Q <=> p \in P)
    PROVE  k <= MaxCopies + Cardinality(Q)
<1>1. Cardinality(P) \in Nat /\ Cardinality(Q) \in Nat /\ MaxCopies \in Nat
  BY MaxAssumption, FS_CardinalityType
<1>2. CASE k <= l + 1 /\ p \notin P /\ p \in Q
  <2>1. Q = P \cup {p}
    BY <1>2
  <2>2. Cardinality(Q) = Cardinality(P) + 1
    BY <1>2, <2>1, FS_AddElement
  <2> QED
    BY <1>1, <1>2, <2>2
<1>3. CASE k <= MaxCopies
  BY <1>1, <1>3
<1>4. CASE k <= l /\ (p \in Q <=> p \in P)
  <2>1. Q = P
    BY <1>4
  <2> QED
    BY <1>1, <1>4, <2>1
<1> QED
  BY <1>2, <1>3, <1>4

LEMMA ListedNext ==
    TasksTyped /\ Sourced /\ Listed /\ Fits /\ [CopiesNext]_streamCopies => Listed' /\ Fits'
<1> SUFFICES ASSUME TasksTyped, Sourced, Listed, Fits, [CopiesNext]_streamCopies
             PROVE  Listed' /\ Fits'
  OBVIOUS
<1>1. ASSUME NEW p \in Task, TaskStep(p) PROVE Listed' /\ Fits'
  <2>1. /\ Listed'
        /\ \/ /\ Len(copies') <= Len(copies) + 1
              /\ p \notin Pruning /\ p \in Pruning'
           \/ Len(copies') <= MaxCopies
           \/ /\ Len(copies') <= Len(copies)
              /\ p \in Pruning' <=> p \in Pruning
    BY <1>1, TaskLists
  <2>2. Len(copies) \in Nat /\ Len(copies') \in Nat
    BY <2>1, LenProperties DEF Listed
  <2>3. IsFiniteSet(Pruning) /\ IsFiniteSet(Pruning')
    BY PruningFinite
  <2>4. \A q : q # p => (q \in Pruning' <=> q \in Pruning)
    BY <1>1, OthersKeep DEF Pruning
  <2>5. PICK P : P = Pruning
    OBVIOUS
  <2>6. PICK Q : Q = Pruning'
    OBVIOUS
  <2>7. PICK l \in Nat : l = Len(copies)
    BY <2>2
  <2>8. PICK k \in Nat : k = Len(copies')
    BY <2>2
  <2>9. k <= MaxCopies + Cardinality(Q)
    <3>1. l <= MaxCopies + Cardinality(P)
      BY <2>5, <2>7 DEF Fits
    <3>2. /\ IsFiniteSet(P) /\ IsFiniteSet(Q)
          /\ \A q : q # p => (q \in Q <=> q \in P)
      BY <2>3, <2>4, <2>5, <2>6
    <3>3. \/ k <= l + 1 /\ p \notin P /\ p \in Q
          \/ k <= MaxCopies
          \/ k <= l /\ (p \in Q <=> p \in P)
      BY <2>1, <2>5, <2>6, <2>7, <2>8
    <3> QED
      BY <3>1, <3>2, <3>3, FitsCounted
  <2>10. Fits'
    BY <2>6, <2>8, <2>9 DEF Fits
  <2> QED
    BY <2>1, <2>10
<1>2. CASE Shutdown \/ CopiesRestart
  <2>1. copies' = <<>>
    BY <1>2 DEF Shutdown, CopiesRestart
  <2>2. Listed' /\ Len(copies') = 0
    BY <2>1 DEF Listed, IsInjective
  <2>3. PICK c \in Nat : c = Cardinality(Pruning')
    BY PruningFinite
  <2>4. 0 <= MaxCopies + c
    BY MaxAssumption
  <2> QED
    BY <2>2, <2>3, <2>4 DEF Fits
<1>3. CASE \/ \E n, l \in BOOLEAN : Settings(n, l)
           \/ UNCHANGED streamCopies
  <2>1. copies' = copies /\ pc' = pc
    BY <1>3 DEF Settings, streamCopies, disk
  <2> QED
    BY <2>1 DEF Listed, Fits, Pruning
<1> QED
  BY <1>1, <1>2, <1>3, CopiesSteps DEF Around

\* The directory of a task that starts.
LEMMA DirectoryInit == CopiesInit => Sourced /\ Listed /\ Owned /\ Fits
<1> SUFFICES ASSUME CopiesInit PROVE Sourced /\ Listed /\ Owned /\ Fits
  OBVIOUS
<1>1. copies = <<>> /\ scratch = {} /\ written = {} /\ pc = [p \in Task |-> "idle"]
  BY DEF CopiesInit
<1>2. Listed /\ Len(copies) = 0
  BY <1>1 DEF Listed, IsInjective
<1>3. Cardinality(Pruning) \in Nat /\ MaxCopies \in Nat
  BY PruningFinite, MaxAssumption
<1>4. Fits
  BY <1>2, <1>3 DEF Fits
<1> QED
  BY <1>1, <1>2, <1>4 DEF Sourced, Owned

LEMMA MemoryParts == Owned /\ Fits => MemoryBounded
<1> SUFFICES ASSUME Owned, Fits PROVE MemoryBounded
  OBVIOUS
<1>1. ASSUME NEW s \in scratch
      PROVE  \/ pc[s[1]] \in {"build", "rename"} /\ s[2] = Target(s[1])
             \/ pc[s[1]] \in {"innerBuild", "innerRename"} /\ s[2] = Normalized(s[1])
  <2>1. PICK p \in Task, n \in Name : s = Scratch(p, n)
    BY DEF Owned, Scratch
  <2>2. s[1] = p /\ s[2] = n
    BY <2>1 DEF Scratch
  <2> QED
    BY <2>1, <2>2 DEF Owned
<1> QED
  BY <1>1 DEF MemoryBounded, Fits, Pruning

\* Every variable keeps its type, no copy is listed twice and only finished builds are marked
\* as written (ensure_stream_temp).
THEOREM CopiesTypes == CopiesSpec => []CopiesTypeOK
<1> DEFINE Sound ==
        TasksTyped /\ Whole /\ Purpose /\ PrewarmingMatches /\ Sourced /\ Listed /\ Owned /\ Fits
           /\ normalize \in BOOLEAN /\ lowData \in BOOLEAN
<1>1. CopiesInit => Sound
  BY TasksInit, DirectoryInit DEF CopiesInit, Whole, Purpose, PrewarmingMatches, Prewarms
<1>2. Sound /\ [CopiesNext]_streamCopies => (normalize' \in BOOLEAN /\ lowData' \in BOOLEAN)
  <2> SUFFICES ASSUME Sound, [CopiesNext]_streamCopies
               PROVE  normalize' \in BOOLEAN /\ lowData' \in BOOLEAN
    OBVIOUS
  <2>1. ASSUME NEW p \in Task, TaskStep(p) PROVE UNCHANGED config
    BY <2>1, TaskSteps DEF Looks, Starts, Renames, Prunes, Encoder, Prewarm, Play, Begin, Claim,
       ClaimTaken, WaitOver, WaitTimeout, EnsureFound, EnsureMissing, InnerFound, InnerNoFile,
       Release, Open, InnerStart, Start, InnerRenamed, Renamed, InnerPruned, Pruned, InnerBuilt,
       Built, InnerFails, Fails
  <2>2. CASE Around
    BY <2>2 DEF Around, Settings, Shutdown, CopiesRestart, config
  <2> QED
    BY <2>1, <2>2, CopiesSteps DEF streamCopies, config
<1>3. Sound /\ [CopiesNext]_streamCopies => Sound'
  BY <1>2, TasksNext, WholeNext, PurposeNext, PrewarmingNext, SourcedNext, ListedNext, OwnedNext
<1>4. Sound => CopiesTypeOK
  <2> SUFFICES ASSUME Sound PROVE CopiesTypeOK
    OBVIOUS
  <2>1. prewarming \subseteq File
    BY DEF Sourced, PrewarmingMatches, Prewarms
  <2> QED
    BY <2>1 DEF CopiesTypeOK, TasksTyped, Stage, Whole, Listed, Owned
<1> QED
  BY <1>1, <1>3, <1>4, PTL DEF CopiesSpec

\* The directory holds no more copies than prune_norm_cache keeps and one for each task that
\* has yet to call it, and scratch files of builds under way only, however builds fail.
THEOREM MemoryIsBounded == CopiesSpec => []MemoryBounded
<1> DEFINE Sound == TasksTyped /\ Sourced /\ Listed /\ Owned /\ Fits
<1>1. CopiesInit => Sound
  BY TasksInit, DirectoryInit
<1>2. Sound /\ [CopiesNext]_streamCopies => Sound'
  BY TasksNext, SourcedNext, ListedNext, OwnedNext
<1>3. Sound => MemoryBounded
  BY MemoryParts
<1> QED
  BY <1>1, <1>2, <1>3, PTL DEF CopiesSpec

-----------------------------------------------------------------------------
(* Ytdlp.                                                                  *)

\* The runs that a loop has had a reason to repeat: an update and a 403 at most once, and a
\* sign-in once more for each time that the cookies were taken away and put back.
Once(b) == IF b THEN 1 ELSE 0
SignIns ==
    IF asked # "now" THEN 0
    ELSE IF signedIn /\ cookies THEN removals + 1 ELSE removals
Reasons == Once(updated) + Once(retried) + SignIns

Looping == {"run", "judge", "update", "locked", "updating", "forbidden", "found", "store"}

\* Each run but the first of a loop has its reason; a run that is about to start has it already.
Excusable ==
    /\ fetchAt \in {"idle", "tools", "install", "match"} => attempts = 0
    /\ fetchAt = "look" => attempts <= Reasons
    /\ fetchAt \in Looping => attempts <= 1 + Reasons
    /\ fetchAt = "done" => AttemptsBounded
    /\ fetchAt \in {"update", "locked", "updating"} => ~updated
    /\ phase = "search" => ~retried

\* The types, those of the flags apart.
Flags ==
    {signedIn, updated, retried, cookies, present, checked, renewed, updatesOff} \subseteq BOOLEAN
Rest ==
    /\ fetchAt \in {"idle", "tools", "install", "match", "look", "run", "found", "store",
                    "judge", "update", "locked", "updating", "forbidden", "done"}
    /\ phase \in {"search", "download"} /\ complaints \subseteq Y!Complaint
    /\ attempts \in Nat /\ removals \in Nat /\ removals <= MaxRemovals
    /\ result \in {"none", "ok", "noMatch", "failed"}
    /\ asked \in {"no", "before", "now"}
    /\ holder \in {"nobody", "fetch", "periodic"}

LEMMA YtdlpParts == Y!TypeOK <=> Flags /\ Rest
<1>1. removals \in 0..MaxRemovals <=> removals \in Nat /\ removals <= MaxRemovals
  BY RemovalsAssumption
<1> QED
  BY <1>1 DEF Y!TypeOK, Flags, Rest

\* MCParts names the variables of Ytdlp as one too.
LEMMA SameYtdlp == UNCHANGED Y!vars <=> UNCHANGED ytdlp
BY DEF Y!vars, Y!loop, Y!login, Y!updates, ytdlp

LEMMA YtdlpTypeInit == Y!Init => Flags /\ Rest
<1>1. Y!Init => Flags
  BY DEF Y!Init, Flags
<1>2. Y!Init => Rest
  BY RemovalsAssumption DEF Y!Init, Rest
<1> QED
  BY <1>1, <1>2

LEMMA FlagsNext == Flags /\ [Y!Next]_ytdlp => Flags'
<1> SUFFICES ASSUME Flags, [Y!Next]_ytdlp PROVE Flags'
  OBVIOUS
<1> USE DEF Flags, Y!Goto, Y!loop, Y!login, Y!updates
<1>1. CASE Y!Begin \/ Y!End
  BY <1>1 DEF Y!Begin, Y!End
<1>2. CASE Y!ToolsThere \/ Y!LockTools \/ Y!Install \/ Y!InstallFails
  BY <1>2 DEF Y!ToolsThere, Y!LockTools, Y!Install, Y!InstallFails, Y!YtdlpThere, Y!Return
<1>3. CASE Y!Match \/ Y!NoMatch \/ Y!Best
  BY <1>3 DEF Y!Match, Y!NoMatch, Y!Best, Y!Enter, Y!Return
<1>4. CASE Y!Look \/ Y!SignIn
  <2>1. signedIn' \in BOOLEAN
    BY <1>4, Zenon DEF Y!Look, Y!LoggedIn, Y!SignIn
  <2>2. UNCHANGED <<updated, retried, cookies, present, checked, renewed, updatesOff>>
    BY <1>4 DEF Y!Look, Y!SignIn
  <2> QED
    BY <2>1, <2>2
<1>5. CASE Y!RunOk \/ Y!RunFails \/ Y!RunTimeout \/ Y!Store
  BY <1>5 DEF Y!RunOk, Y!RunFails, Y!RunTimeout, Y!Store, Y!Return
<1>6. CASE Y!TryUpdate \/ Y!NeitherOfThem \/ Y!Forbidden \/ Y!GiveUp
  BY <1>6 DEF Y!TryUpdate, Y!NeitherOfThem, Y!Forbidden, Y!GiveUp, Y!Return
<1>7. CASE Y!CannotUpdate \/ Y!LockUpdates \/ Y!RunUpdate
  BY <1>7 DEF Y!CannotUpdate, Y!LockUpdates, Y!RunUpdate
<1>8. CASE Y!CheckedLately \/ Y!UpdateRan
  BY <1>8 DEF Y!CheckedLately, Y!UpdateRan, Y!Updated, Y!Outcome
<1>9. CASE Y!Environment
  BY <1>9 DEF Y!Environment, Y!PeriodicStart, Y!PeriodicEnd, Y!Outcome, Y!CookiesAppear,
     Y!CookiesVanish, Y!Delete, Y!HourOver, Y!GapOver
<1>10. CASE UNCHANGED ytdlp
  BY <1>10 DEF ytdlp
<1> QED
  BY <1>1, <1>2, <1>3, <1>4, <1>5, <1>6, <1>7, <1>8, <1>9, <1>10 DEF Y!Next, Y!Fetch

LEMMA RestNext == Rest /\ [Y!Next]_ytdlp => Rest'
<1> SUFFICES ASSUME Rest, [Y!Next]_ytdlp PROVE Rest'
  OBVIOUS
<1> USE DEF Rest, Y!Goto, Y!loop, Y!login, Y!updates
<1>1. CASE Y!Begin
  BY <1>1 DEF Y!Begin
<1>2. CASE Y!End
  BY <1>2, RemovalsAssumption DEF Y!End
<1>3. CASE Y!ToolsThere \/ Y!LockTools \/ Y!Install \/ Y!InstallFails
  BY <1>3 DEF Y!ToolsThere, Y!LockTools, Y!Install, Y!InstallFails, Y!YtdlpThere, Y!Return
<1>4. CASE Y!Match \/ Y!Best
  BY <1>4, RemovalsAssumption DEF Y!Match, Y!Best, Y!Enter
<1>5. CASE Y!Look \/ Y!SignIn \/ Y!NoMatch
  BY <1>5 DEF Y!Look, Y!SignIn, Y!NoMatch, Y!Return
<1>6. CASE Y!RunOk \/ Y!RunFails \/ Y!RunTimeout \/ Y!Store
  BY <1>6 DEF Y!RunOk, Y!RunFails, Y!RunTimeout, Y!Store, Y!Return
<1>7. CASE Y!TryUpdate \/ Y!NeitherOfThem \/ Y!Forbidden \/ Y!GiveUp
  BY <1>7 DEF Y!TryUpdate, Y!NeitherOfThem, Y!Forbidden, Y!GiveUp, Y!Return
<1>8. CASE Y!CannotUpdate \/ Y!LockUpdates \/ Y!RunUpdate
  BY <1>8 DEF Y!CannotUpdate, Y!LockUpdates, Y!RunUpdate
<1>9. CASE Y!CheckedLately \/ Y!UpdateRan
  BY <1>9 DEF Y!CheckedLately, Y!UpdateRan, Y!Updated, Y!Outcome
<1>10. CASE Y!Environment
  <2>1. CASE Y!CookiesVanish
    BY <2>1, RemovalsAssumption DEF Y!CookiesVanish
  <2>2. CASE ~Y!CookiesVanish
    BY <1>10, <2>2 DEF Y!Environment, Y!PeriodicStart, Y!PeriodicEnd, Y!Outcome,
       Y!CookiesAppear, Y!Delete, Y!HourOver, Y!GapOver
  <2> QED
    BY <2>1, <2>2
<1>11. CASE UNCHANGED ytdlp
  BY <1>11 DEF ytdlp
<1> QED
  BY <1>1, <1>2, <1>3, <1>4, <1>5, <1>6, <1>7, <1>8, <1>9, <1>10, <1>11 DEF Y!Next, Y!Fetch

\* What the reasons are bounded by.
LEMMA ReasonsBounded ==
    ASSUME Rest, phase = "search" => ~retried, attempts <= 1 + Reasons
    PROVE  AttemptsBounded
<1>1. attempts \in Nat /\ removals \in Nat /\ phase \in {"search", "download"}
  BY DEF Rest
<1>2. Once(updated) \in 0..1 /\ Once(retried) \in 0..1 /\ SignIns \in 0..removals + 1
  BY <1>1 DEF Once, SignIns
<1>3. phase = "search" => Once(retried) = 0
  BY DEF Once
<1>4. CASE phase = "search"
  BY <1>1, <1>2, <1>3, <1>4 DEF AttemptsBounded, Y!AttemptsBounded, Reasons
<1>5. CASE phase = "download"
  BY <1>1, <1>2, <1>5 DEF AttemptsBounded, Y!AttemptsBounded, Reasons
<1> QED
  BY <1>1, <1>4, <1>5

\* Excusable, conjunct by conjunct, says the bound at every step.
LEMMA ExcusableBounded == ASSUME Rest, Excusable PROVE AttemptsBounded
<1>1. attempts \in Nat /\ removals \in Nat /\ Reasons \in Nat
  BY DEF Rest, Reasons, Once, SignIns
<1>2. CASE fetchAt \in {"idle", "tools", "install", "match"}
  BY <1>1, <1>2 DEF Excusable, AttemptsBounded, Y!AttemptsBounded
<1>3. CASE fetchAt = "look"
  BY <1>1, <1>3, ReasonsBounded DEF Excusable
<1>4. CASE fetchAt \in Looping
  BY <1>1, <1>4, ReasonsBounded DEF Excusable
<1>5. CASE fetchAt = "done"
  BY <1>5 DEF Excusable
<1> QED
  BY <1>2, <1>3, <1>4, <1>5 DEF Rest, Looping

LEMMA ExcusableInit == Y!Init => Excusable
BY DEF Y!Init, Excusable, Looping

LEMMA ExcusableNext == Flags /\ Rest /\ Excusable /\ [Y!Next]_ytdlp => Excusable'
<1> SUFFICES ASSUME Flags, Rest, Excusable, [Y!Next]_ytdlp PROVE Excusable'
  OBVIOUS
<1>n. attempts \in Nat /\ removals \in Nat
  BY DEF Rest
<1>0. /\ attempts \in Nat /\ removals \in Nat /\ AttemptsBounded
      /\ {updated, retried, signedIn, cookies} \subseteq BOOLEAN
      /\ phase \in {"search", "download"} /\ asked \in {"no", "before", "now"}
  BY ExcusableBounded DEF Flags, Rest
<1> USE DEF Y!Goto, Y!loop, Y!login, Y!updates, Looping
<1>1. ASSUME NEW r, Y!Return(r) PROVE Excusable'
  BY <1>0, <1>1 DEF Y!Return, Excusable, AttemptsBounded, Y!AttemptsBounded
<1>2. ASSUME NEW p, Y!Enter(p) PROVE Excusable'
  BY <1>0, <1>2 DEF Y!Enter, Excusable, Reasons, Once, SignIns
<1>3. CASE Y!Begin \/ Y!End \/ Y!ToolsThere \/ Y!LockTools \/ Y!Install
  BY <1>0, <1>3 DEF Y!Begin, Y!End, Y!ToolsThere, Y!LockTools, Y!Install, Y!YtdlpThere, Excusable
<1>4. CASE Y!Look
  <2>1. SignIns <= SignIns' /\ SignIns \in Nat /\ SignIns' \in Nat
    BY <1>0, <1>4 DEF Y!Look, Y!LoggedIn, SignIns
  <2>2. Once(updated)' = Once(updated) /\ Once(retried)' = Once(retried)
        /\ Once(updated) \in Nat /\ Once(retried) \in Nat
    BY <1>4 DEF Y!Look, Once
  <2>3. Reasons <= Reasons' /\ Reasons \in Nat /\ Reasons' \in Nat
    BY <2>1, <2>2 DEF Reasons
  <2>4. fetchAt' = "run" /\ attempts' = attempts + 1 /\ attempts <= Reasons
        /\ phase' = phase /\ retried' = retried
    BY <1>4 DEF Y!Look, Excusable
  <2>5. attempts' <= 1 + Reasons'
    <3>1. PICK s \in Nat : s = Reasons'
      BY <2>3
    <3>2. Reasons \in Nat /\ Reasons <= s
      BY <2>3, <3>1
    <3>3. attempts' <= 1 + s
      BY <1>n, <2>4, <3>2
    <3> QED
      BY <3>1, <3>3
  <2>6. phase' = "search" => ~retried'
    BY <2>4 DEF Excusable
  <2> QED
    BY <2>4, <2>5, <2>6 DEF Excusable
<1>5. CASE Y!SignIn
  <2>1. SignIns' = removals + 1 /\ SignIns <= removals /\ SignIns \in Nat
    BY <1>0, <1>5 DEF Y!SignIn, Y!WantsSignIn, SignIns
  <2>2. Once(updated)' = Once(updated) /\ Once(retried)' = Once(retried)
        /\ Once(updated) \in Nat /\ Once(retried) \in Nat
    BY <1>5 DEF Y!SignIn, Once
  <2>3. Reasons + 1 <= Reasons' /\ Reasons \in Nat /\ Reasons' \in Nat
    BY <1>0, <2>1, <2>2 DEF Reasons
  <2>4. fetchAt' = "run" /\ attempts' = attempts + 1 /\ attempts <= 1 + Reasons
        /\ phase' = phase /\ retried' = retried
    BY <1>5 DEF Y!SignIn, Excusable
  <2>5. attempts' <= 1 + Reasons'
    <3>1. PICK s \in Nat : s = Reasons'
      BY <2>3
    <3>2. Reasons \in Nat /\ Reasons + 1 <= s
      BY <2>3, <3>1
    <3>3. attempts' <= 1 + s
      BY <1>n, <2>4, <3>2
    <3> QED
      BY <3>1, <3>3
  <2>6. phase' = "search" => ~retried'
    BY <2>4 DEF Excusable
  <2> QED
    BY <2>4, <2>5, <2>6 DEF Excusable
<1>6. CASE Y!RunOk \/ Y!RunFails \/ Y!TryUpdate \/ Y!NeitherOfThem \/ Y!CannotUpdate
           \/ Y!LockUpdates \/ Y!RunUpdate
  <2>1. /\ UNCHANGED <<phase, signedIn, updated, retried, attempts, asked, cookies, removals>>
        /\ fetchAt \in Looping /\ fetchAt' \in Looping
        /\ fetchAt' \in {"update", "locked", "updating"} => ~updated
    BY <1>6 DEF Y!RunOk, Y!RunFails, Y!TryUpdate, Y!WantsUpdate, Y!NeitherOfThem,
       Y!CannotUpdate, Y!LockUpdates, Y!RunUpdate, Excusable
  <2>2. Reasons' = Reasons
    BY <2>1 DEF Reasons, Once, SignIns
  <2> QED
    BY <2>1, <2>2 DEF Excusable
<1>7. CASE Y!Forbidden
  <2>1. /\ UNCHANGED <<phase, signedIn, updated, attempts, asked, cookies, removals>>
        /\ fetchAt = "forbidden" /\ fetchAt' = "look" /\ ~retried /\ retried'
        /\ phase = "download"
    BY <1>7 DEF Y!Forbidden
  <2>2. Reasons' = Reasons + 1 /\ Reasons \in Nat
    BY <1>0, <2>1 DEF Reasons, Once, SignIns
  <2>3. attempts <= 1 + Reasons /\ attempts' = attempts /\ phase' # "search"
    BY <2>1 DEF Excusable
  <2>4. attempts' <= Reasons'
    <3>1. PICK s : s = Reasons'
      OBVIOUS
    <3>2. s = Reasons + 1 /\ Reasons \in Nat
      BY <2>2, <3>1
    <3>3. attempts' <= s
      BY <1>n, <2>3, <3>2
    <3> QED
      BY <3>1, <3>3
  <2> QED
    BY <2>1, <2>3, <2>4 DEF Excusable
<1>8. CASE Y!CheckedLately \/ Y!UpdateRan
  <2>1. PICK new \in BOOLEAN : Y!Updated(new)
    BY <1>0, <1>8 DEF Y!CheckedLately, Y!UpdateRan, Flags
  <2>2. /\ UNCHANGED <<phase, signedIn, retried, attempts, asked, cookies, removals>>
        /\ fetchAt \in {"locked", "updating"} /\ ~updated /\ updated' = new
        /\ fetchAt' = (IF new THEN "look" ELSE "forbidden")
    BY <1>8, <2>1 DEF Y!CheckedLately, Y!UpdateRan, Y!Updated, Excusable
  <2>3. Reasons' = Reasons + Once(new) /\ Reasons \in Nat
    BY <1>0, <2>2 DEF Reasons, Once, SignIns
  <2>4. attempts <= 1 + Reasons /\ (phase = "search" => ~retried)
    BY <2>2 DEF Excusable
  <2>5. CASE new
    <3>1. Reasons' = Reasons + 1 /\ fetchAt' = "look"
      BY <2>2, <2>3, <2>5 DEF Once
    <3> QED
      BY <1>0, <2>2, <2>4, <3>1, <2>3 DEF Excusable
  <2>6. CASE ~new
    <3>1. Reasons' = Reasons /\ fetchAt' = "forbidden"
      BY <2>2, <2>3, <2>6 DEF Once
    <3> QED
      BY <1>0, <2>2, <2>4, <3>1 DEF Excusable
  <2> QED
    BY <2>5, <2>6
<1>9. CASE Y!Environment
  <2>1. /\ UNCHANGED <<fetchAt, phase, signedIn, updated, retried, attempts>>
        /\ removals' \in Nat /\ removals <= removals'
        /\ SignIns <= SignIns' /\ SignIns \in Nat /\ SignIns' \in Nat
    <3>1. CASE Y!CookiesVanish
      BY <1>0, <3>1 DEF Y!CookiesVanish, SignIns
    <3>2. CASE Y!CookiesAppear
      BY <1>0, <3>2 DEF Y!CookiesAppear, SignIns
    <3>3. CASE Y!HourOver
      BY <1>0, <3>3 DEF Y!HourOver, SignIns
    <3>4. CASE Y!PeriodicStart \/ Y!PeriodicEnd \/ Y!Delete \/ Y!GapOver
      BY <1>0, <3>4 DEF Y!PeriodicStart, Y!PeriodicEnd, Y!Delete, Y!GapOver, SignIns
    <3> QED
      BY <1>9, <3>1, <3>2, <3>3, <3>4 DEF Y!Environment
  <2>2. Once(updated)' = Once(updated) /\ Once(retried)' = Once(retried)
        /\ Once(updated) \in Nat /\ Once(retried) \in Nat
    BY <2>1 DEF Once
  <2>3. Reasons <= Reasons' /\ Reasons \in Nat /\ Reasons' \in Nat
    BY <2>1, <2>2 DEF Reasons
  <2>4. AttemptsBounded'
    <3>1. phase' = phase /\ attempts' = attempts /\ removals <= removals' /\ removals' \in Nat
      BY <2>1
    <3>2. attempts <= removals + IF phase = "search" THEN 3 ELSE 4
      BY <1>0 DEF AttemptsBounded, Y!AttemptsBounded
    <3>3. PICK r \in Nat : r = removals'
      BY <3>1
    <3>4. removals <= r
      BY <3>1, <3>3
    <3>5. attempts <= r + IF phase = "search" THEN 3 ELSE 4
      <4>1. CASE phase = "search"
        BY <1>n, <3>2, <3>4, <4>1
      <4>2. CASE phase # "search"
        BY <1>n, <3>2, <3>4, <4>2
      <4> QED
        BY <4>1, <4>2
    <3>6. attempts' <= removals' + IF phase' = "search" THEN 3 ELSE 4
      BY <3>1, <3>3, <3>5
    <3> QED
      BY <3>6 DEF AttemptsBounded, Y!AttemptsBounded
  <2>5. attempts <= Reasons => attempts' <= Reasons'
    BY <1>n, <2>1, <2>3
  <2>6. attempts <= 1 + Reasons => attempts' <= 1 + Reasons'
    <3>1. PICK s \in Nat : s = Reasons'
      BY <2>3
    <3>2. Reasons \in Nat /\ Reasons <= s /\ attempts' = attempts
      BY <2>1, <2>3, <3>1
    <3>3. attempts <= 1 + Reasons => attempts <= 1 + s
      BY <1>n, <3>2
    <3> QED
      BY <3>1, <3>2, <3>3
  <2> QED
    BY <2>1, <2>4, <2>5, <2>6 DEF Excusable
<1>10. CASE UNCHANGED ytdlp
  <2>1. Reasons' = Reasons /\ AttemptsBounded' = AttemptsBounded
    BY <1>10 DEF ytdlp, Reasons, Once, SignIns, AttemptsBounded, Y!AttemptsBounded
  <2> QED
    BY <1>10, <2>1 DEF ytdlp, Excusable
<1>11. CASE Y!InstallFails \/ Y!NoMatch \/ Y!RunTimeout \/ Y!Store \/ Y!GiveUp
  BY <1>11, <1>1 DEF Y!InstallFails, Y!YtdlpThere, Y!NoMatch, Y!RunTimeout, Y!Store, Y!GiveUp
<1>12. CASE Y!Match \/ Y!Best
  BY <1>2, <1>12 DEF Y!Match, Y!Best
<1> QED
  BY <1>3, <1>4, <1>5, <1>6, <1>7, <1>8, <1>9, <1>10, <1>11, <1>12 DEF Y!Next, Y!Fetch

\* Every variable of the fetcher keeps its type.
THEOREM YtdlpTypes == Y!Spec => []Y!TypeOK
<1> DEFINE Typed == Flags /\ Rest
<1>1. Typed /\ [Y!Next]_Y!vars => Typed'
  BY FlagsNext, RestNext, SameYtdlp
<1> QED
  BY <1>1, YtdlpParts, YtdlpTypeInit, PTL DEF Y!Spec

\* The bound on the runs, for the fetcher alone.
LEMMA YtdlpAttempts == Y!Spec => []AttemptsBounded
<1> DEFINE Sound == Flags /\ Rest /\ Excusable
<1>1. Y!Init => Sound
  BY YtdlpTypeInit, ExcusableInit
<1>2. Sound /\ [Y!Next]_Y!vars => Sound'
  BY FlagsNext, RestNext, ExcusableNext, SameYtdlp
<1>3. Sound => AttemptsBounded
  BY ExcusableBounded
<1> QED
  BY <1>1, <1>2, <1>3, PTL DEF Y!Spec

-----------------------------------------------------------------------------
(* The parts together.                                                     *)

\* A step of one part leaves the others alone: a behaviour of the parts together is one of
\* each of them.
THEOREM PartsRefine == Spec => LibrespotSpec /\ Y!Spec /\ CopiesSpec /\ SetupSpec
<1>1. Init => LibrespotInit /\ Y!Init /\ CopiesInit /\ SetupInit
  BY DEF Init
<1>2. [Next]_all => /\ [LibrespotNext]_librespot /\ [Y!Next]_Y!vars
                    /\ [CopiesNext]_streamCopies /\ [SetupNext]_setup
  BY SameYtdlp DEF Next, all
<1> QED
  BY <1>1, <1>2, PTL DEF Spec, LibrespotSpec, Y!Spec, CopiesSpec, SetupSpec

\* Every variable of the four parts keeps its type.
THEOREM TypeCorrect == Spec => []TypeOK
BY PartsRefine, FetcherTypes, YtdlpTypes, CopiesTypes, FormsTypes, PTL DEF TypeOK

\* However often the user takes the cookies away and puts them back, a loop around yt-dlp runs
\* it once, once more for a new version, once more for a 403, and for sign-ins once more than
\* the cookies were taken away (flat_dump, download_to_cache).
THEOREM AttemptsAreBounded == Spec => []AttemptsBounded
BY PartsRefine, YtdlpAttempts, PTL
=============================================================================
