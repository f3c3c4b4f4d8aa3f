----------------------------- MODULE FetchPolicy ------------------------------
(***************************************************************************)
(* What TrackPreparer (src/audio/prepare.rs) promises its callers, without *)
(* roles, locks or channels: one download at a time, never of a track that *)
(* is cached, and never of one whose last attempt failed until a cooldown  *)
(* has run out.                                                            *)
(***************************************************************************)
CONSTANTS Track, NoTrack

VARIABLES
    cached,     \* tracks with a file in the cache
    owed,       \* tracks that owe a cooldown since their last attempt failed
    fetching    \* the track being downloaded

vars == <<cached, owed, fetching>>

Init ==
    /\ cached \subseteq Track
    /\ owed = {}
    /\ fetching = NoTrack

Start(t) ==
    /\ fetching = NoTrack
    /\ t \notin cached \cup owed
    /\ fetching' = t
    /\ UNCHANGED <<cached, owed>>

Succeed(t) ==
    /\ fetching = t
    /\ cached' = cached \cup {t}
    /\ fetching' = NoTrack
    /\ UNCHANGED owed

Fail(t) ==
    /\ fetching = t
    /\ owed' = owed \cup {t}
    /\ fetching' = NoTrack
    /\ UNCHANGED cached

\* The cache evicts, clears or loses the file.
Drop(t) ==
    /\ cached' = cached \ {t}
    /\ UNCHANGED <<owed, fetching>>

Expire(t) ==
    /\ owed' = owed \ {t}
    /\ UNCHANGED <<cached, fetching>>

Next == \E t \in Track : Start(t) \/ Succeed(t) \/ Fail(t) \/ Drop(t) \/ Expire(t)

Spec == Init /\ [][Next]_vars
=============================================================================
