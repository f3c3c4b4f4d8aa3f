--------------------------------- MODULE Setup ---------------------------------
(***************************************************************************)
(* The admin login and the first-time set-up (src/server/auth.rs and       *)
(* handle_admin_login_post of src/server/mod.rs): requests that run at the *)
(* same time share the counters of attempts, the set-up token and the one  *)
(* pending hash, and bcrypt takes long enough for others to come between.  *)
(* A hash stands for the password it was made of.                          *)
(***************************************************************************)
EXTENDS Naturals, FiniteSets

CONSTANTS
    Request,        \* login forms under way at once
    Address,        \* client IPs
    Password, NoPassword,
    MaxAttempts     \* MAX_LOGIN_ATTEMPTS

ASSUME PasswordAssumption == NoPassword \notin Password
ASSUME AttemptsAssumption == MaxAttempts \in Nat \ {0}
ASSUME RequestAssumption == IsFiniteSet(Request)

VARIABLES
    hash,       \* admin_password_hash in memory
    saved,      \* admin_password_hash in config.json
    setupToken,      \* whether there is a set-up token
    pending,    \* PENDING_HASH
    tries,      \* ATTEMPTS; an address over the limit is not counted further
    at,         \* where each request is
    from,       \* its address
    typed,      \* the password it carries
    against,    \* the hash it is compared with
    counted,    \* its attempt counts: none has succeeded at its address since
    wrong,      \* attempts counted and answered with an error, by address
    repeated    \* passwords confirmed by a second entry, ever

form == <<from, typed, against>>
account == <<hash, saved, setupToken, pending>>
tallies == <<counted, wrong, repeated>>
setup == <<account, tries, at, form, tallies>>

SetupInit ==
    /\ hash \in Password \cup {NoPassword} /\ saved = hash
    /\ setupToken = (hash = NoPassword) /\ pending = NoPassword
    /\ tries = [a \in Address |-> 0]
    /\ at = [r \in Request |-> "idle"]
    /\ from \in [Request -> Address]
    /\ typed = [r \in Request |-> NoPassword]
    /\ against = [r \in Request |-> NoPassword]
    /\ counted = [r \in Request |-> FALSE]
    /\ wrong = [a \in Address |-> 0]
    /\ repeated = {hash} \cap Password

\* The request ends.
End(r) ==
    /\ at' = [at EXCEPT ![r] = "idle"]
    /\ typed' = [typed EXCEPT ![r] = NoPassword]
    /\ against' = [against EXCEPT ![r] = NoPassword]
    /\ UNCHANGED from

\* clear_failed_attempts: what is under way at the address counts no more.
Forgive(a) ==
    /\ tries' = [tries EXCEPT ![a] = 0]
    /\ wrong' = [wrong EXCEPT ![a] = 0]
    /\ counted' = [r \in Request |-> counted[r] /\ from[r] # a]

\* A wrong answer to r.
Refuse(r) ==
    /\ wrong' = [wrong EXCEPT ![from[r]] = IF counted[r] THEN @ + 1 ELSE @]
    /\ counted' = [counted EXCEPT ![r] = FALSE]
    /\ UNCHANGED repeated

\* Mutated Register: an attempt counts once it has failed.
RegisterFailed(r) ==
    /\ wrong[from[r]] < MaxAttempts
    /\ tries' = [tries EXCEPT ![from[r]] = wrong[from[r]]]
    /\ counted' = [counted EXCEPT ![r] = TRUE]

\* register_login_attempt, within the limit.
Register(r) ==
    /\ tries[from[r]] < MaxAttempts
    /\ tries' = [tries EXCEPT ![from[r]] = @ + 1]
    /\ counted' = [counted EXCEPT ![r] = TRUE]

-----------------------------------------------------------------------------
(* handle_admin_login_post, up to the first await.  A form over the limit  *)
(* changes nothing.                                                        *)

\* The request is admitted; r is as new.
Admitted(r) == at[r] = "idle" /\ Register(r) /\ UNCHANGED <<wrong, repeated>>

Enter(r, step, p, h) ==
    /\ at' = [at EXCEPT ![r] = step]
    /\ typed' = [typed EXCEPT ![r] = p]
    /\ against' = [against EXCEPT ![r] = h]
    /\ UNCHANGED from

\* A password is set: the form is compared with it.
Login(r, p) ==
    /\ hash # NoPassword
    /\ Admitted(r)
    /\ Enter(r, "login", p, hash)
    /\ UNCHANGED account

\* A wrong token, or one of an earlier run.
WrongToken(r) ==
    /\ hash = NoPassword
    /\ at[r] = "idle" /\ tries[from[r]] < MaxAttempts
    /\ tries' = [tries EXCEPT ![from[r]] = @ + 1]
    /\ wrong' = [wrong EXCEPT ![from[r]] = @ + 1]
    /\ UNCHANGED <<account, at, form, counted, repeated>>

\* A form with the token is registered, and forgives the attempts of its address.
WithToken(r) ==
    /\ hash = NoPassword /\ setupToken
    /\ at[r] = "idle" /\ tries[from[r]] < MaxAttempts
    /\ Forgive(from[r])
    /\ UNCHANGED repeated

\* The token alone, or a password that is too short or too long.
TokenStep(r) ==
    /\ WithToken(r)
    /\ UNCHANGED <<account, at, form>>

PasswordStep(r, p) ==
    /\ WithToken(r)
    /\ Enter(r, "hash", p, NoPassword)
    /\ UNCHANGED account

\* take_pending_hash, which may find what another browser has left.
ConfirmStep(r, p) ==
    /\ WithToken(r)
    /\ pending' = NoPassword
    /\ IF pending = NoPassword THEN UNCHANGED <<at, form>> ELSE Enter(r, "confirm", p, pending)
    /\ UNCHANGED <<hash, saved, setupToken>>

-----------------------------------------------------------------------------
(* After bcrypt.                                                           *)

Hashed(r) ==
    /\ at[r] = "hash"
    /\ \E p \in {typed[r], pending} : pending' = p      \* or hash_password has failed
    /\ End(r)
    /\ UNCHANGED <<hash, saved, setupToken, tries, tallies>>

Mismatch(r) ==
    /\ at[r] \in {"confirm", "login"}
    /\ typed[r] # against[r]
    /\ Refuse(r)
    /\ End(r)
    /\ UNCHANGED <<account, tries>>

\* Mutated Confirmed: what is stored is the hash that is pending by then.
ConfirmedPending(r) ==
    /\ at[r] = "confirm" /\ typed[r] = against[r]
    /\ hash' = IF pending = NoPassword THEN against[r] ELSE pending
    /\ repeated' = repeated \cup {typed[r]}
    /\ \/ saved' = hash' /\ at' = [at EXCEPT ![r] = "clear"] /\ UNCHANGED form
       \/ UNCHANGED saved /\ End(r)
    /\ UNCHANGED <<setupToken, pending, tries, counted, wrong>>

\* config::update: the hash is in force whether or not it could be saved.
Confirmed(r) ==
    /\ at[r] = "confirm" /\ typed[r] = against[r]
    /\ hash' = against[r]
    /\ repeated' = repeated \cup {typed[r]}
    /\ \/ saved' = hash' /\ at' = [at EXCEPT ![r] = "clear"] /\ UNCHANGED form
       \/ UNCHANGED saved /\ End(r)
    /\ UNCHANGED <<setupToken, pending, tries, counted, wrong>>

\* clear_setup_token.
Cleared(r) ==
    /\ at[r] = "clear"
    /\ setupToken' = FALSE /\ pending' = NoPassword
    /\ at' = [at EXCEPT ![r] = "done"]
    /\ UNCHANGED <<hash, saved, tries, form, tallies>>

\* clear_failed_attempts, and the session cookie.
Done(r) ==
    /\ at[r] = "done" \/ (at[r] = "login" /\ typed[r] = against[r])
    /\ Forgive(from[r])
    /\ End(r)
    /\ UNCHANGED <<account, repeated>>

\* RATE_LIMIT_WINDOW is over, or make_room has dropped the address from a full map.
WindowOver(a) ==
    /\ Forgive(a)
    /\ UNCHANGED <<account, at, form, repeated>>

\* Only what was saved is left; without a password there is a new token.
Restart ==
    /\ hash' = saved /\ setupToken' = (saved = NoPassword) /\ pending' = NoPassword
    /\ tries' = [a \in Address |-> 0] /\ wrong' = [a \in Address |-> 0]
    /\ at' = [r \in Request |-> "idle"]
    /\ typed' = [r \in Request |-> NoPassword]
    /\ against' = [r \in Request |-> NoPassword]
    /\ counted' = [r \in Request |-> FALSE]
    /\ UNCHANGED <<saved, from, repeated>>

SetupNext ==
    \/ \E r \in Request :
          \/ WrongToken(r) \/ TokenStep(r)
          \/ \E p \in Password : Login(r, p) \/ PasswordStep(r, p) \/ ConfirmStep(r, p)
          \/ Hashed(r) \/ Mismatch(r) \/ Confirmed(r) \/ Cleared(r) \/ Done(r)
    \/ \E a \in Address : WindowOver(a)
    \/ Restart

SetupSpec == SetupInit /\ [][SetupNext]_setup

-----------------------------------------------------------------------------
(* Properties.                                                             *)

\* Every variable has its type.
SetupTypeOK ==
    /\ {hash, saved, pending} \subseteq Password \cup {NoPassword}
    /\ setupToken \in BOOLEAN
    /\ tries \in [Address -> 0..MaxAttempts] /\ wrong \in [Address -> Nat]
    /\ at \in [Request -> {"idle", "hash", "confirm", "login", "clear", "done"}]
    /\ from \in [Request -> Address]
    /\ typed \in [Request -> Password \cup {NoPassword}]
    /\ against \in [Request -> Password \cup {NoPassword}]
    /\ counted \in [Request -> BOOLEAN]
    /\ repeated \subseteq Password

\* No address gets more than MaxAttempts wrong answers without a right one in a window, even
\* if its requests are all under way before the first is answered (register_login_attempt).
GuessesBounded ==
    \A a \in Address :
        wrong[a] + Cardinality({r \in Request : counted[r] /\ from[r] = a}) <= MaxAttempts

\* The password in force has been entered twice, although browsers that set up at the same
\* time share one pending hash and one may overwrite or take what another has left
\* (set_pending_hash, take_pending_hash).
EnteredTwice == hash # NoPassword => hash \in repeated
=============================================================================
