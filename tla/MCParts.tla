-------------------------------- MODULE MCParts --------------------------------
(***************************************************************************)
(* Four parts, each on its own: the two fetchers that prepare_inner tries  *)
(* one after the other, the streaming copies, and the admin's login.  What *)
(* the first three share is modelled elsewhere (download_lock in Preparer, *)
(* the cache in TrackCache).  They run in separate casts: a behaviour      *)
(* starts with one of them, and the others stay as they are.               *)
(***************************************************************************)
EXTENDS Librespot, StreamCopies, Setup

CONSTANT MaxRemovals

ASSUME RemovalsAssumption == MaxRemovals \in Nat

VARIABLES
    cast,       \* the part that runs
    fetchAt, phase, signedIn, complaints, updated, retried, attempts, result, asked, cookies,
    removals, present, holder, checked, renewed, updatesOff     \* the variables of Ytdlp

ytdlp ==
    <<fetchAt, phase, signedIn, complaints, updated, retried, attempts, result, asked, cookies,
      removals, present, holder, checked, renewed, updatesOff>>
all == <<cast, librespot, ytdlp, streamCopies, setup>>

Y == INSTANCE Ytdlp WITH pc <- fetchAt

\* An address, for the requests of the other casts.
First == CHOOSE a \in Address : TRUE

Init ==
    /\ cast \in {"librespot", "ytdlp", "copies", "setup"}
    /\ LibrespotInit /\ (cast # "librespot" => paired = NoAccount /\ plan = {} /\ useLibrespot)
    /\ Y!Init /\ (cast # "ytdlp" => ~cookies)
    /\ CopiesInit
    /\ SetupInit /\ (cast # "setup" => hash = NoPassword /\ from = [r \in Request |-> First])

Next ==
    \/ cast = "librespot" /\ LibrespotNext /\ UNCHANGED <<cast, ytdlp, streamCopies, setup>>
    \/ cast = "ytdlp" /\ Y!Next /\ UNCHANGED <<cast, librespot, streamCopies, setup>>
    \/ cast = "copies" /\ CopiesNext /\ UNCHANGED <<cast, librespot, ytdlp, setup>>
    \/ cast = "setup" /\ SetupNext /\ UNCHANGED <<cast, librespot, ytdlp, streamCopies>>

Spec == Init /\ [][Next]_all

\* The accounts are alike, and so are the admins.
Symmetry == Permutations(Account) \cup Permutations(Admin)

\* Every variable has its type (the modules of the parts).
TypeOK == LibrespotTypeOK /\ Y!TypeOK /\ CopiesTypeOK /\ SetupTypeOK

\* No loop around yt-dlp feeds itself (module Ytdlp).
AttemptsBounded == Y!AttemptsBounded
=============================================================================
