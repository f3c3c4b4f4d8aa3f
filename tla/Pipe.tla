--------------------------------- MODULE Pipe ---------------------------------
(***************************************************************************)
(* The stream of src/server/stream.rs: the succession of pipes, the pump   *)
(* that feeds each of them, and the listeners of GET /stream.              *)
(*                                                                         *)
(* An item is what is sent on a pipe at once: item 0 is the headers, item  *)
(* k the k-th page.  A pump stores an item in the prefix and then sends it *)
(* on the broadcast channel, a listener copies the prefix and then         *)
(* subscribes to the channel; both do so under the prefix's mutex, whose   *)
(* critical sections are two steps each here.  A listener holds the mutex  *)
(* of the stream manager's state around its own.                           *)
(***************************************************************************)
EXTENDS Integers, Sequences, FiniteSets

CONSTANTS
    Listener,       \* clients of GET /stream
    MaxListeners,   \* MAX_TOTAL_STREAM_LISTENERS
    Backlog,        \* FILE_BACKLOG, LIVE_BACKLOG: items that a channel retains
    Nothing,        \* no pipe
    MaxPages,       \* bound: pages of a pipe
    MaxSwaps        \* bound: swaps of the pipe

Pipes == 0..MaxSwaps

ASSUME BacklogAssumption == Backlog \in Nat \ {0}
ASSUME ListenerAssumption == MaxListeners \in Nat /\ IsFiniteSet(Listener)
ASSUME BoundAssumption == MaxPages \in Nat /\ MaxSwaps \in Nat
ASSUME NothingAssumption == Nothing \notin Pipes

VARIABLES
    current,    \* State.generation: the pipe in State.pipe
    kind,       \* what feeds each pipe
    stage,      \* where the pump of each pipe is
    stored,     \* items stored in the prefix of each pipe
    burst,      \* the first page in Prefix.burst, which reaches up to the last stored
    sent,       \* items sent on the channel of each pipe
    lpc,        \* where each listener is
    at,         \* the pipe each listener is attached to
    prefix,     \* items of its prefix that a listener has yet to read
    next,       \* the item its receiver reads next
    listeners   \* State.listeners

pipes == <<current, kind, stage, stored, burst, sent>>
clients == <<lpc, at, prefix, next, listeners>>
vars == <<pipes, clients>>

Init ==
    /\ current = 0
    /\ kind = [g \in Pipes |-> "quiet"]
    /\ stage = [g \in Pipes |-> "done"]
    /\ stored = [g \in Pipes |-> 0]
    /\ burst = [g \in Pipes |-> 1]
    /\ sent = [g \in Pipes |-> 0]
    /\ lpc = [l \in Listener |-> "away"]
    /\ at = [l \in Listener |-> Nothing]
    /\ prefix = [l \in Listener |-> <<>>]
    /\ next = [l \in Listener |-> 0]
    /\ listeners = 0

\* The mutex of the prefix of g, and the one of the manager's state.
PrefixFree(g) ==
    /\ stage[g] \notin {"headersStored", "pageStored"}
    /\ \A l \in Listener : lpc[l] = "copied" => at[l] # g
StateFree == \A l \in Listener : lpc[l] # "copied"

-----------------------------------------------------------------------------
(* swap_pipe for play_track, play_live and stop.                           *)

Swap(k) ==
    /\ StateFree /\ current < MaxSwaps
    /\ current' = current + 1
    /\ kind' = [kind EXCEPT ![current + 1] = k]
    /\ stage' = [stage EXCEPT ![current + 1] = IF k = "quiet" THEN "done" ELSE "headers"]
    /\ UNCHANGED <<stored, burst, sent, clients>>

-----------------------------------------------------------------------------
(* pump_ogg, with the Pipe::set_headers and Pipe::send it calls.           *)

Goto(g, from, to) == stage[g] = from /\ stage' = [stage EXCEPT ![g] = to]

\* The source ends or fails among its headers or before seek_ms.
NoHeaders(g) ==
    /\ Goto(g, "headers", "done")
    /\ UNCHANGED <<current, kind, stored, burst, sent, clients>>

StoreHeaders(g) ==
    /\ PrefixFree(g)
    /\ Goto(g, "headers", "headersStored")
    /\ stored' = [stored EXCEPT ![g] = 1]
    /\ UNCHANGED <<current, kind, burst, sent, clients>>

SendHeaders(g) ==
    /\ Goto(g, "headersStored", "next")
    /\ sent' = [sent EXCEPT ![g] = 1]
    /\ UNCHANGED <<current, kind, stored, burst, clients>>

\* A page has been read, the time for it has come, and the pipe is not retired.
NextPage(g) ==
    /\ stored[g] <= MaxPages
    /\ g = current
    /\ Goto(g, "next", "page")
    /\ UNCHANGED <<current, kind, stored, burst, sent, clients>>

\* The source ends or fails behind its first page.
SourceEnds(g) ==
    /\ stored[g] > 1
    /\ Goto(g, "next", "done")
    /\ UNCHANGED <<current, kind, stored, burst, sent, clients>>

\* Mutated Retired: a pump that waits for live input does not see it.
RetiredFile(g) ==
    /\ g # current /\ kind[g] = "file"
    /\ Goto(g, "next", "done")
    /\ UNCHANGED <<current, kind, stored, burst, sent, clients>>

Retired(g) ==
    /\ g # current
    /\ Goto(g, "next", "done")
    /\ UNCHANGED <<current, kind, stored, burst, sent, clients>>

\* Mutated StorePage: without the mutex.
StoreUnlocked(g) ==
    /\ Goto(g, "page", "pageStored")
    /\ stored' = [stored EXCEPT ![g] = @ + 1]
    /\ UNCHANGED <<current, kind, burst, sent, clients>>

\* The page joins the burst, which drops old pages until its bytes fit.
StorePage(g) ==
    /\ PrefixFree(g)
    /\ Goto(g, "page", "pageStored")
    /\ stored' = [stored EXCEPT ![g] = @ + 1]
    /\ \E k \in burst[g]..stored[g] : burst' = [burst EXCEPT ![g] = k]
    /\ UNCHANGED <<current, kind, sent, clients>>

SendPage(g) ==
    /\ Goto(g, "pageStored", "next")
    /\ sent' = [sent EXCEPT ![g] = @ + 1]
    /\ UNCHANGED <<current, kind, stored, burst, clients>>

-----------------------------------------------------------------------------
(* handle_stream: add_client, then the body, which reads the prefix and    *)
(* then the channel.                                                       *)

\* The headers and the burst.
PrefixOf(g) ==
    IF stored[g] = 0 THEN <<>>
    ELSE <<0>> \o [i \in 1..stored[g] - burst[g] |-> burst[g] + i - 1]

AddClient(l) ==
    /\ StateFree /\ PrefixFree(current)
    /\ lpc[l] = "away" /\ listeners < MaxListeners
    /\ lpc' = [lpc EXCEPT ![l] = "copied"]
    /\ at' = [at EXCEPT ![l] = current]
    /\ prefix' = [prefix EXCEPT ![l] = PrefixOf(current)]
    /\ listeners' = listeners + 1
    /\ UNCHANGED <<pipes, next>>

Subscribe(l) ==
    /\ lpc[l] = "copied"
    /\ lpc' = [lpc EXCEPT ![l] = "on"]
    /\ next' = [next EXCEPT ![l] = sent[at[l]]]
    /\ UNCHANGED <<pipes, at, prefix, listeners>>

ReadPrefix(l) ==
    /\ lpc[l] = "on" /\ prefix[l] # <<>>
    /\ prefix' = [prefix EXCEPT ![l] = Tail(@)]
    /\ UNCHANGED <<pipes, lpc, at, next, listeners>>

Behind(l) == sent[at[l]] - next[l]

ReadChannel(l) ==
    /\ lpc[l] = "on" /\ prefix[l] = <<>>
    /\ Behind(l) \in 1..Backlog
    /\ next' = [next EXCEPT ![l] = @ + 1]
    /\ UNCHANGED <<pipes, lpc, at, prefix, listeners>>

\* The receiver reports that it lagged, which the body filters out, and goes on with
\* the oldest item retained.
Lagged(l) ==
    /\ lpc[l] = "on" /\ prefix[l] = <<>>
    /\ Behind(l) > Backlog
    /\ next' = [next EXCEPT ![l] = sent[at[l]] - Backlog]
    /\ UNCHANGED <<pipes, lpc, at, prefix, listeners>>

\* ListenerStream::drop.
Drop(l) ==
    /\ StateFree
    /\ lpc' = [lpc EXCEPT ![l] = "away"]
    /\ at' = [at EXCEPT ![l] = Nothing]
    /\ prefix' = [prefix EXCEPT ![l] = <<>>]
    /\ next' = [next EXCEPT ![l] = 0]
    /\ listeners' = IF listeners = 0 THEN 0 ELSE listeners - 1
    /\ UNCHANGED pipes

\* A retired pipe whose pump has returned has no sender any more.
Closed(g) == g # current /\ stage[g] = "done"

\* Mutated BodyEnds: only a client that leaves gives its place back.
BodyEndsUncounted(l) ==
    /\ lpc[l] = "on" /\ Closed(at[l])
    /\ prefix[l] = <<>> /\ Behind(l) = 0
    /\ lpc' = [lpc EXCEPT ![l] = "away"]
    /\ at' = [at EXCEPT ![l] = Nothing]
    /\ next' = [next EXCEPT ![l] = 0]
    /\ UNCHANGED <<pipes, prefix, listeners>>

BodyEnds(l) ==
    /\ lpc[l] = "on" /\ Closed(at[l])
    /\ prefix[l] = <<>> /\ Behind(l) = 0
    /\ Drop(l)

\* The client goes away, or MAX_STREAM_CONNECTION_DURATION is over.
Leaves(l) == lpc[l] = "on" /\ Drop(l)

-----------------------------------------------------------------------------
Pump(g) ==
    \/ NoHeaders(g) \/ StoreHeaders(g) \/ SendHeaders(g) \/ NextPage(g)
    \/ SourceEnds(g) \/ Retired(g) \/ StorePage(g) \/ SendPage(g)

Body(l) ==
    \/ Subscribe(l) \/ ReadPrefix(l) \/ ReadChannel(l) \/ Lagged(l) \/ BodyEnds(l)

Next ==
    \/ \E k \in {"file", "live", "quiet"} : Swap(k)
    \/ \E g \in Pipes : Pump(g)
    \/ \E l \in Listener : AddClient(l) \/ Body(l) \/ Leaves(l)

Spec == Init /\ [][Next]_vars

\* Listeners read.  A pump does by itself what needs no input, and a file never keeps
\* it waiting for its headers; the input of a togedemon may.
FairSpec ==
    /\ Spec
    /\ \A l \in Listener : WF_vars(Body(l))
    /\ \A g \in Pipes :
          /\ WF_vars(SendHeaders(g) \/ Retired(g) \/ StorePage(g) \/ SendPage(g))
          /\ WF_vars(kind[g] = "file" /\ (NoHeaders(g) \/ StoreHeaders(g)))

-----------------------------------------------------------------------------
(* Properties.                                                             *)

\* Every variable has its type, and the cap on listeners holds.
TypeOK ==
    /\ current \in Pipes
    /\ kind \in [Pipes -> {"file", "live", "quiet"}]
    /\ stage \in [Pipes -> {"done", "headers", "headersStored", "next", "page", "pageStored"}]
    /\ stored \in [Pipes -> Nat] /\ sent \in [Pipes -> Nat] /\ burst \in [Pipes -> Nat \ {0}]
    /\ lpc \in [Listener -> {"away", "copied", "on"}]
    /\ at \in [Listener -> Pipes \cup {Nothing}]
    /\ prefix \in [Listener -> Seq(Nat)] /\ next \in [Listener -> Nat]
    /\ listeners \in 0..MaxListeners

\* State.listeners counts the bodies that live: a place that is not given back is lost
\* until the restart, one given back twice lets one listener too many in.
ListenersCounted == listeners = Cardinality({l \in Listener : lpc[l] # "away"})

\* stream.rs:32, replacing the pipe "ends every body on it": once the pump of a retired
\* pipe is past its headers, or when it reads a file, every body that is read comes to
\* its end, as does the togedemon whose pipe it was.
RetiredBodiesEnd ==
    \A l \in Listener : \A g \in Pipes :
        (at[l] = g /\ g # current /\ ~(kind[g] = "live" /\ stage[g] = "headers")) ~> at[l] # g

\* The first page to come to l, and whether the headers are still to come.
HeadersDue(l) ==
    \/ prefix[l] # <<>> /\ Head(prefix[l]) = 0
    \/ prefix[l] = <<>> /\ next[l] = 0
PagesLeft(l) == IF HeadersDue(l) /\ prefix[l] # <<>> THEN Tail(prefix[l]) ELSE prefix[l]
DuePage(l) ==
    IF PagesLeft(l) # <<>> THEN Head(PagesLeft(l)) ELSE IF next[l] = 0 THEN 1 ELSE next[l]

Promise == INSTANCE Delivery WITH
    published <- sent,
    on <- [l \in Listener |-> IF lpc[l] = "on" THEN at[l] ELSE Nothing],
    owed <- {l \in Listener : lpc[l] = "on" /\ HeadersDue(l)},
    due <- [l \in Listener |-> IF lpc[l] = "on" THEN DuePage(l) ELSE 0]

\* stream.rs:56, "each page reaches a listener exactly once: in its prefix or off the
\* broadcast": the headers first, then every page in order from where it joined.
ImplementsDelivery == Promise!Spec
=============================================================================
