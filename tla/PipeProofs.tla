------------------------------ MODULE PipeProofs ------------------------------
(***************************************************************************)
(* Theorems about the module Pipe: its type invariant, the count of the    *)
(* listeners, and that it implements Delivery.                             *)
(***************************************************************************)
EXTENDS Pipe, FiniteSetTheorems, TLAPS

\* A pump has stored what it has sent, and one item more between its two steps.
PumpInStep ==
    \A g \in Pipes :
        /\ stage[g] \in {"headersStored", "pageStored"} => stored[g] = sent[g] + 1
        /\ stage[g] \notin {"headersStored", "pageStored"} => stored[g] = sent[g]
        /\ stage[g] = "headers" => stored[g] = 0
        /\ stage[g] = "headersStored" => stored[g] = 1
        /\ stage[g] \in {"next", "page"} => stored[g] > 0

\* Pipes to come are untouched, and the burst reaches up to the last page stored.
BurstInStep ==
    \A g \in Pipes :
        /\ g > current => stage[g] = "done" /\ stored[g] = 0
        /\ stored[g] < 2 => burst[g] = 1
        /\ stored[g] >= 2 => burst[g] < stored[g]

\* What l has yet to read of its prefix is a run of pages up to the item before n,
\* with the headers in front or not.
RunUpTo(s, n) ==
    /\ Len(s) <= n
    /\ \A i \in 1..Len(s) :
          \/ s[i] = n - Len(s) + i - 1
          \/ i = 1 /\ s[i] = 0

\* A listener holds both mutexes between its two steps, and then carries on where its
\* prefix ends.
ClientInStep ==
    \A l \in Listener :
        /\ lpc[l] = "away" => at[l] = Nothing /\ prefix[l] = <<>>
        /\ lpc[l] = "copied" => /\ at[l] = current
                                /\ prefix[l] = PrefixOf(current)
                                /\ stage[current] \notin {"headersStored", "pageStored"}
        /\ lpc[l] = "on" => /\ at[l] \in Pipes
                            /\ next[l] <= sent[at[l]]
                            /\ RunUpTo(prefix[l], next[l])

IInv == TypeOK /\ ListenersCounted /\ PumpInStep /\ BurstInStep /\ ClientInStep

-----------------------------------------------------------------------------
(* The prefix.                                                             *)

\* A copy of the prefix taken while nothing is between store and send.
LEMMA PrefixRun ==
    ASSUME IInv, NEW g \in Pipes, stored[g] = sent[g]
    PROVE  /\ PrefixOf(g) \in Seq(Nat)
           /\ RunUpTo(PrefixOf(g), sent[g])
           /\ stored[g] = 0 => PrefixOf(g) = <<>>
           /\ stored[g] > 0 => /\ PrefixOf(g) # <<>> /\ Head(PrefixOf(g)) = 0
                               /\ Len(PrefixOf(g)) = stored[g] - burst[g] + 1
<1> DEFINE pages == [i \in 1..stored[g] - burst[g] |-> burst[g] + i - 1]
<1>1. stored[g] \in Nat /\ sent[g] \in Nat /\ burst[g] \in Nat \ {0}
  BY DEF IInv, TypeOK
<1>2. CASE stored[g] = 0
  BY <1>1, <1>2 DEF PrefixOf, RunUpTo
<1>3. CASE stored[g] > 0
  <2>1. stored[g] - burst[g] \in Nat /\ burst[g] <= stored[g]
    BY <1>1, <1>3 DEF IInv, BurstInStep
  <2>2. pages \in Seq(Nat) /\ Len(pages) = stored[g] - burst[g]
    BY <1>1, <2>1
  <2>3. \A i \in 1..Len(pages) : pages[i] = burst[g] + i - 1
    BY <1>1, <2>1, <2>2
  <2> HIDE DEF pages
  <2>4. PrefixOf(g) = <<0>> \o pages
    <3>1. stored[g] # 0
      BY <1>3
    <3> QED
      BY <3>1, Zenon DEF PrefixOf, pages
  <2>5. /\ PrefixOf(g) \in Seq(Nat) /\ Len(PrefixOf(g)) = Len(pages) + 1
        /\ PrefixOf(g)[1] = 0
        /\ \A i \in 2..Len(pages) + 1 : PrefixOf(g)[i] = pages[i - 1]
    BY <2>2, <2>4
  <2>6. Len(PrefixOf(g)) = stored[g] - burst[g] + 1
    BY <1>1, <2>1, <2>2, <2>5
  <2>7. ASSUME NEW i \in 2..Len(PrefixOf(g)) PROVE PrefixOf(g)[i] = burst[g] + i - 2
    <3>1. i - 1 \in 1..Len(pages) /\ i \in 2..Len(pages) + 1
      BY <2>1, <2>2, <2>6
    <3> QED
      BY <1>1, <2>3, <2>5, <3>1
  <2>8. RunUpTo(PrefixOf(g), sent[g])
    <3>1. Len(PrefixOf(g)) \in Nat /\ Len(PrefixOf(g)) <= sent[g]
      BY <1>1, <2>1, <2>6
    <3>2. ASSUME NEW i \in 2..Len(PrefixOf(g))
          PROVE  PrefixOf(g)[i] = sent[g] - Len(PrefixOf(g)) + i - 1
      BY <1>1, <2>6, <2>7
    <3>3. \A i \in 1..Len(PrefixOf(g)) : i = 1 \/ i \in 2..Len(PrefixOf(g))
      BY <3>1
    <3>4. ASSUME NEW i \in 1..Len(PrefixOf(g))
          PROVE  \/ PrefixOf(g)[i] = sent[g] - Len(PrefixOf(g)) + i - 1
                 \/ i = 1 /\ PrefixOf(g)[i] = 0
      <4>1. CASE i = 1
        BY <2>5, <4>1, Zenon
      <4>2. CASE i \in 2..Len(PrefixOf(g))
        BY <3>2, <4>2, Zenon
      <4> QED
        BY <3>3, <4>1, <4>2, Zenon
    <3> QED
      BY <3>1, <3>4 DEF RunUpTo
  <2>9. PrefixOf(g) # <<>> /\ Head(PrefixOf(g)) = 0
    BY <1>1, <2>1, <2>5, <2>6
  <2> QED
    BY <1>1, <1>3, <2>5, <2>6, <2>8, <2>9
<1> QED
  BY <1>1, <1>2, <1>3

\* A run without its first item is still a run up to the same item.
LEMMA RunTail ==
    ASSUME NEW s \in Seq(Nat), NEW n \in Nat, s # <<>>, RunUpTo(s, n)
    PROVE  /\ Tail(s) \in Seq(Nat) /\ Len(Tail(s)) = Len(s) - 1
           /\ RunUpTo(Tail(s), n)
           /\ Head(s) = n - Len(s) \/ Head(s) = 0
           /\ Tail(s) # <<>> => Head(Tail(s)) = n - Len(s) + 1 /\ Head(Tail(s)) > 0
<1>1. /\ Tail(s) \in Seq(Nat) /\ Len(Tail(s)) = Len(s) - 1 /\ Len(s) \in Nat \ {0}
      /\ \A i \in 1..Len(s) - 1 : Tail(s)[i] = s[i + 1]
      /\ Head(s) = s[1]
      /\ Tail(s) # <<>> => Head(Tail(s)) = s[2] /\ Len(s) > 1
  OBVIOUS
<1>2. \A i \in 2..Len(s) : s[i] = n - Len(s) + i - 1
  BY DEF RunUpTo
<1> QED
  BY <1>1, <1>2 DEF RunUpTo

-----------------------------------------------------------------------------
(* The invariant is inductive.                                             *)

\* The invariant holds at the start.
LEMMA InductiveInit == Init => IInv
<1> SUFFICES ASSUME Init PROVE IInv
  OBVIOUS
<1>1. 0 \in Pipes
  BY BoundAssumption DEF Pipes
<1>2. TypeOK
  BY <1>1, ListenerAssumption DEF Init, TypeOK
<1>3. {l \in Listener : lpc[l] # "away"} = {}
  BY DEF Init
<1>4. ListenersCounted
  BY <1>3, FS_EmptySet DEF Init, ListenersCounted
<1> QED
  BY <1>2, <1>4 DEF Init, IInv, PumpInStep, BurstInStep, ClientInStep, Pipes

\* The parts of the invariant that the steps of the pumps leave alone.
LEMMA CountKept ==
    ASSUME ListenersCounted, UNCHANGED <<listeners, lpc>>
    PROVE  ListenersCounted'
BY DEF ListenersCounted

\* swap_pipe keeps the invariant: no listener is between its two steps.
LEMMA SwapKeeps ==
    ASSUME IInv, NEW k \in {"file", "live", "quiet"}, Swap(k)
    PROVE  IInv'
<1>1. current \in Pipes /\ current + 1 \in Pipes /\ current' = current + 1
  BY BoundAssumption DEF Swap, IInv, TypeOK, Pipes
<1>2. TypeOK'
  BY <1>1 DEF Swap, IInv, TypeOK, clients
<1>3. ListenersCounted'
  BY CountKept DEF Swap, IInv, clients
<1>4. PumpInStep' /\ BurstInStep'
  BY <1>1 DEF Swap, IInv, TypeOK, PumpInStep, BurstInStep, Pipes
<1>5. ClientInStep'
  BY <1>1 DEF Swap, StateFree, IInv, TypeOK, ClientInStep, clients, RunUpTo
<1> QED
  BY <1>2, <1>3, <1>4, <1>5 DEF IInv

\* No listener is between its two steps on a pipe whose pump gets the mutex.
LEMMA PumpKeeps ==
    ASSUME IInv, NEW g \in Pipes, Pump(g)
    PROVE  IInv'
<1> USE DEF Goto
<1>1. UNCHANGED <<current, kind, lpc, at, prefix, next, listeners>>
  BY DEF Pump, NoHeaders, StoreHeaders, SendHeaders, NextPage, SourceEnds, Retired, StorePage,
         SendPage, clients
<1>2. ListenersCounted'
  BY <1>1, CountKept DEF IInv
<1>3. CASE NoHeaders(g) \/ NextPage(g) \/ SourceEnds(g) \/ Retired(g)
  <2>1. /\ UNCHANGED <<stored, burst, sent>>
        /\ \E s \in {"done", "page"} : stage' = [stage EXCEPT ![g] = s]
        /\ stage[g] \in {"headers", "next"}
    BY <1>3 DEF NoHeaders, NextPage, SourceEnds, Retired
  <2>2. TypeOK'
    BY <1>1, <2>1 DEF IInv, TypeOK
  <2>3. PumpInStep' /\ BurstInStep'
    BY <1>1, <1>3, <2>1 DEF NoHeaders, NextPage, SourceEnds, Retired, IInv, TypeOK, PumpInStep, BurstInStep
  <2>4. PrefixOf(current)' = PrefixOf(current)
    BY <1>1, <2>1 DEF PrefixOf
  <2>5. stage[current] \notin {"headersStored", "pageStored"}
            => stage'[current] \notin {"headersStored", "pageStored"}
    BY <2>1 DEF IInv, TypeOK
  <2>6. ClientInStep'
    BY <1>1, <2>1, <2>4, <2>5 DEF IInv, ClientInStep
  <2> QED
    BY <1>2, <2>2, <2>3, <2>6 DEF IInv
<1>4. CASE StoreHeaders(g)
  <2>1. TypeOK'
    BY <1>1, <1>4 DEF StoreHeaders, IInv, TypeOK
  <2>2. PumpInStep' /\ BurstInStep'
    BY <1>1, <1>4 DEF StoreHeaders, IInv, TypeOK, PumpInStep, BurstInStep, Pipes
  <2>3. ASSUME NEW l \in Listener, lpc[l] = "copied" PROVE g # current
    BY <1>4, <2>3 DEF StoreHeaders, PrefixFree, IInv, ClientInStep
  <2>4. ClientInStep'
    BY <1>1, <1>4, <2>3 DEF StoreHeaders, IInv, TypeOK, ClientInStep, PrefixOf, RunUpTo
  <2> QED
    BY <1>2, <2>1, <2>2, <2>4 DEF IInv
<1>5. CASE SendHeaders(g) \/ SendPage(g)
  <2>1. /\ stage' = [stage EXCEPT ![g] = "next"]
        /\ stage[g] \in {"headersStored", "pageStored"}
        /\ sent' = [sent EXCEPT ![g] = @ + 1]
        /\ UNCHANGED <<stored, burst>>
    BY <1>5 DEF SendHeaders, SendPage, IInv, TypeOK, PumpInStep
  <2>2. TypeOK'
    BY <1>1, <2>1 DEF IInv, TypeOK
  <2>3. PumpInStep' /\ BurstInStep'
    BY <1>1, <2>1 DEF IInv, TypeOK, PumpInStep, BurstInStep
  <2>4. PrefixOf(current)' = PrefixOf(current)
    BY <1>1, <2>1 DEF PrefixOf
  <2>5. \A h \in Pipes : sent[h] \in Nat /\ sent'[h] \in Nat /\ sent[h] <= sent'[h]
    BY <2>1 DEF IInv, TypeOK
  <2>6. current \in Pipes /\ stage'[current] \in {"headersStored", "pageStored"}
            => stage[current] \in {"headersStored", "pageStored"}
    BY <2>1 DEF IInv, TypeOK
  <2>7. ASSUME NEW l \in Listener, lpc[l] = "on"
        PROVE  next[l] <= sent'[at[l]]
    BY <2>5, <2>7 DEF IInv, TypeOK, ClientInStep
  <2>8. ClientInStep'
    BY <1>1, <2>4, <2>6, <2>7 DEF IInv, TypeOK, ClientInStep, RunUpTo
  <2> QED
    BY <1>2, <2>2, <2>3, <2>8 DEF IInv
<1>6. CASE StorePage(g)
  <2>1. PICK k \in burst[g]..stored[g] : burst' = [burst EXCEPT ![g] = k]
    BY <1>6 DEF StorePage
  <2>2. k \in Nat \ {0}
    BY <2>1 DEF IInv, TypeOK
  <2>3. TypeOK'
    BY <1>1, <1>6, <2>1, <2>2 DEF StorePage, IInv, TypeOK
  <2>4. PumpInStep' /\ BurstInStep'
    <3>1. /\ stage[g] = "page" /\ stored[g] \in Nat \ {0} /\ k \in 1..stored[g]
          /\ g <= current /\ stored'[g] = stored[g] + 1 /\ burst'[g] = k
          /\ stage'[g] = "pageStored" /\ sent'[g] = sent[g] /\ stored[g] = sent[g]
      <4>1. stage[g] = "page" /\ stored[g] \in Nat \ {0} /\ sent[g] = stored[g]
        BY <1>6 DEF StorePage, IInv, TypeOK, PumpInStep
      <4>2. g <= current
        BY <4>1 DEF IInv, TypeOK, BurstInStep, Pipes
      <4>3. k \in 1..stored[g]
        BY <2>1, <2>2, <4>1 DEF IInv, TypeOK
      <4>4. /\ stored'[g] = stored[g] + 1 /\ burst'[g] = k
            /\ stage'[g] = "pageStored" /\ sent'[g] = sent[g]
        BY <1>6, <2>1 DEF StorePage, IInv, TypeOK
      <4> QED
        BY <4>1, <4>2, <4>3, <4>4
    <3>2. \A h \in Pipes \ {g} : /\ stage'[h] = stage[h] /\ stored'[h] = stored[h]
                                 /\ burst'[h] = burst[h] /\ sent'[h] = sent[h]
      BY <1>6, <2>1 DEF StorePage, IInv, TypeOK
    <3>3. PumpInStep'
      BY <3>1, <3>2 DEF IInv, TypeOK, PumpInStep
    <3>4. BurstInStep'
      BY <1>1, <3>1, <3>2 DEF IInv, TypeOK, BurstInStep
    <3> QED
      BY <3>3, <3>4
  <2>5. ASSUME NEW l \in Listener, lpc[l] = "copied" PROVE g # current
    BY <1>6, <2>5 DEF StorePage, PrefixFree, IInv, ClientInStep
  <2>6. ASSUME NEW l \in Listener, lpc[l] = "copied"
        PROVE  PrefixOf(current)' = PrefixOf(current) /\ stage'[current] = stage[current]
    BY <1>1, <1>6, <2>1, <2>5, <2>6 DEF StorePage, IInv, TypeOK, PrefixOf
  <2>7. ClientInStep'
    BY <1>1, <1>6, <2>6 DEF StorePage, IInv, TypeOK, ClientInStep, RunUpTo
  <2> QED
    BY <1>2, <2>3, <2>4, <2>7 DEF IInv
<1> QED
  BY <1>3, <1>4, <1>5, <1>6 DEF Pump

\* add_client keeps it: the prefix is copied under the mutex, and the count goes up.
LEMMA AddClientKeeps ==
    ASSUME IInv, NEW l \in Listener, AddClient(l)
    PROVE  IInv'
<1>1. /\ current \in Pipes /\ stored[current] = sent[current] /\ lpc[l] = "away"
      /\ stage[current] \notin {"headersStored", "pageStored"}
      /\ UNCHANGED <<current, kind, stage, stored, burst, sent, next>>
  BY DEF AddClient, PrefixFree, pipes, IInv, TypeOK, PumpInStep
<1>2. PrefixOf(current) \in Seq(Nat)
  BY <1>1, PrefixRun
<1>3. TypeOK'
  BY <1>1, <1>2, ListenerAssumption DEF AddClient, IInv, TypeOK
<1>4. ListenersCounted'
  <2> DEFINE here == {c \in Listener : lpc[c] # "away"}
  <2>1. IsFiniteSet(here) /\ l \notin here
    BY <1>1, ListenerAssumption, FS_Subset
  <2>2. {c \in Listener : lpc'[c] # "away"} = here \cup {l}
    BY DEF AddClient, IInv, TypeOK
  <2>3. Cardinality(here \cup {l}) = Cardinality(here) + 1
    BY <2>1, FS_AddElement
  <2> QED
    BY <2>2, <2>3 DEF AddClient, IInv, ListenersCounted
<1>5. PumpInStep' /\ BurstInStep'
  BY <1>1 DEF IInv, PumpInStep, BurstInStep
<1>6. PrefixOf(current)' = PrefixOf(current)
  BY <1>1 DEF PrefixOf
<1>7. ClientInStep'
  BY <1>1, <1>6 DEF AddClient, IInv, TypeOK, ClientInStep, RunUpTo
<1> QED
  BY <1>3, <1>4, <1>5, <1>7 DEF IInv

\* The receiver starts where the prefix ends.
LEMMA SubscribeKeeps ==
    ASSUME IInv, NEW l \in Listener, Subscribe(l)
    PROVE  IInv'
<1>1. /\ lpc[l] = "copied" /\ at[l] = current /\ current \in Pipes
      /\ prefix[l] = PrefixOf(current) /\ stored[current] = sent[current]
      /\ UNCHANGED <<current, kind, stage, stored, burst, sent, at, prefix, listeners>>
      /\ lpc' = [lpc EXCEPT ![l] = "on"] /\ next' = [next EXCEPT ![l] = sent[current]]
  BY DEF Subscribe, pipes, IInv, TypeOK, PumpInStep, ClientInStep
<1>2. sent[current] \in Nat /\ RunUpTo(prefix[l], sent[current])
  BY <1>1, PrefixRun DEF IInv, TypeOK
<1>3. TypeOK'
  BY <1>1, <1>2 DEF IInv, TypeOK
<1>4. ListenersCounted'
  <2>1. {c \in Listener : lpc'[c] # "away"} = {c \in Listener : lpc[c] # "away"}
    BY <1>1 DEF IInv, TypeOK
  <2> QED
    BY <1>1, <2>1 DEF IInv, ListenersCounted
<1>5. PumpInStep' /\ BurstInStep'
  BY <1>1 DEF IInv, PumpInStep, BurstInStep
<1>6. PrefixOf(current)' = PrefixOf(current)
  BY <1>1 DEF PrefixOf
<1>7. ASSUME NEW c \in Listener, lpc'[c] = "on"
      PROVE  at'[c] \in Pipes /\ next'[c] <= sent'[at'[c]] /\ RunUpTo(prefix'[c], next'[c])
  <2>1. CASE c = l
    BY <1>1, <1>2, <2>1 DEF IInv, TypeOK
  <2>2. CASE c # l
    BY <1>1, <1>7, <2>2 DEF IInv, TypeOK, ClientInStep
  <2> QED
    BY <2>1, <2>2
<1>8. ClientInStep'
  BY <1>1, <1>6, <1>7 DEF IInv, TypeOK, ClientInStep
<1> QED
  BY <1>3, <1>4, <1>5, <1>8 DEF IInv

\* The three ways to read on.
LEMMA ReadKeeps ==
    ASSUME IInv, NEW l \in Listener, ReadPrefix(l) \/ ReadChannel(l) \/ Lagged(l)
    PROVE  IInv'
<1>1. /\ lpc[l] = "on" /\ at[l] \in Pipes /\ next[l] <= sent[at[l]]
      /\ RunUpTo(prefix[l], next[l])
      /\ next[l] \in Nat /\ prefix[l] \in Seq(Nat) /\ sent[at[l]] \in Nat
      /\ UNCHANGED <<current, kind, stage, stored, burst, sent, lpc, at, listeners>>
  BY DEF ReadPrefix, ReadChannel, Lagged, pipes, IInv, TypeOK, ClientInStep
<1>2. /\ prefix'[l] \in Seq(Nat) /\ next'[l] \in Nat /\ next'[l] <= sent[at[l]]
      /\ RunUpTo(prefix'[l], next'[l])
      /\ prefix' = [prefix EXCEPT ![l] = prefix'[l]] /\ next' = [next EXCEPT ![l] = next'[l]]
  <2>1. CASE ReadPrefix(l)
    <3>1. prefix[l] # <<>> /\ prefix' = [prefix EXCEPT ![l] = Tail(prefix[l])] /\ next' = next
      BY <2>1 DEF ReadPrefix, IInv, TypeOK
    <3>2. Tail(prefix[l]) \in Seq(Nat) /\ RunUpTo(Tail(prefix[l]), next[l])
      BY <1>1, <3>1, RunTail
    <3> QED
      BY <1>1, <3>1, <3>2 DEF IInv, TypeOK
  <2>2. CASE ReadChannel(l)
    <3>1. prefix[l] = <<>> /\ prefix' = prefix /\ next' = [next EXCEPT ![l] = next[l] + 1]
          /\ next[l] < sent[at[l]]
      BY <1>1, <2>2, BacklogAssumption DEF ReadChannel, Behind, IInv, TypeOK
    <3> QED
      BY <1>1, <3>1 DEF IInv, TypeOK, RunUpTo
  <2>3. CASE Lagged(l)
    <3>1. prefix[l] = <<>> /\ prefix' = prefix
          /\ next' = [next EXCEPT ![l] = sent[at[l]] - Backlog]
          /\ sent[at[l]] - Backlog \in Nat
      BY <1>1, <2>3, BacklogAssumption DEF Lagged, Behind, IInv, TypeOK
    <3> QED
      BY <1>1, <3>1, BacklogAssumption DEF IInv, TypeOK, RunUpTo
  <2> QED
    BY <2>1, <2>2, <2>3
<1>3. TypeOK'
  BY <1>1, <1>2 DEF IInv, TypeOK
<1>4. ListenersCounted'
  BY <1>1, CountKept DEF IInv
<1>5. PumpInStep' /\ BurstInStep'
  BY <1>1 DEF IInv, PumpInStep, BurstInStep
<1>6. PrefixOf(current)' = PrefixOf(current)
  BY <1>1 DEF PrefixOf
<1>7. ASSUME NEW c \in Listener, c # l
      PROVE  prefix'[c] = prefix[c] /\ next'[c] = next[c]
  BY <1>2, <1>7 DEF IInv, TypeOK
<1>8. ClientInStep'
  BY <1>1, <1>2, <1>6, <1>7 DEF IInv, ClientInStep
<1> QED
  BY <1>3, <1>4, <1>5, <1>8 DEF IInv

\* The end of a body keeps it: the count goes down, and never below zero.
LEMMA DropKeeps ==
    ASSUME IInv, NEW l \in Listener, lpc[l] = "on", Drop(l)
    PROVE  IInv'
<1>1. UNCHANGED <<current, kind, stage, stored, burst, sent>>
  BY DEF Drop, pipes
<1> DEFINE here == {c \in Listener : lpc[c] # "away"}
<1>2. IsFiniteSet(here) /\ l \in here
  BY ListenerAssumption, FS_Subset
<1>3. {c \in Listener : lpc'[c] # "away"} = here \ {l}
  BY DEF Drop, IInv, TypeOK
<1>4. Cardinality(here \ {l}) = Cardinality(here) - 1 /\ Cardinality(here) \in Nat \ {0}
  <2>1. Cardinality(here \ {l}) = Cardinality(here) - 1 /\ Cardinality(here) \in Nat
    BY <1>2, FS_RemoveElement, FS_CardinalityType
  <2>2. Cardinality(here \ {l}) \in Nat
    BY <1>2, FS_Subset, FS_CardinalityType
  <2> QED
    BY <2>1, <2>2
<1>5. listeners = Cardinality(here) /\ listeners' = listeners - 1 /\ listeners' \in 0..MaxListeners
  BY <1>4, ListenerAssumption DEF Drop, IInv, TypeOK, ListenersCounted
<1>6. TypeOK'
  BY <1>1, <1>5 DEF Drop, IInv, TypeOK
<1>7. ListenersCounted'
  BY <1>3, <1>4, <1>5 DEF ListenersCounted
<1>8. PumpInStep' /\ BurstInStep'
  BY <1>1 DEF IInv, PumpInStep, BurstInStep
<1>9. PrefixOf(current)' = PrefixOf(current)
  BY <1>1 DEF PrefixOf
<1>10. ClientInStep'
  BY <1>1, <1>9 DEF Drop, IInv, TypeOK, ClientInStep, RunUpTo
<1> QED
  BY <1>6, <1>7, <1>8, <1>10 DEF IInv

\* The invariant holds in every state that the stream can reach.
THEOREM InductiveInvariant == Spec => []IInv
<1>1. IInv /\ [Next]_vars => IInv'
  <2> SUFFICES ASSUME IInv, [Next]_vars PROVE IInv'
    OBVIOUS
  <2>1. CASE UNCHANGED vars
    <3>1. UNCHANGED <<current, kind, stage, stored, burst, sent, lpc, at, prefix, next, listeners>>
      BY <2>1 DEF vars, pipes, clients
    <3>2. TypeOK' /\ ListenersCounted'
      BY <3>1 DEF IInv, TypeOK, ListenersCounted
    <3>3. PumpInStep' /\ BurstInStep'
      BY <3>1 DEF IInv, PumpInStep, BurstInStep
    <3>4. PrefixOf(current)' = PrefixOf(current)
      BY <3>1 DEF PrefixOf
    <3>5. ClientInStep'
      BY <3>1, <3>4 DEF IInv, ClientInStep
    <3> QED
      BY <3>2, <3>3, <3>5 DEF IInv
  <2>2. ASSUME NEW l \in Listener, BodyEnds(l) \/ Leaves(l) PROVE IInv'
    BY <2>2, DropKeeps DEF BodyEnds, Leaves
  <2> QED
    BY <2>1, <2>2, SwapKeeps, PumpKeeps, AddClientKeeps, SubscribeKeeps, ReadKeeps
       DEF Next, Body
<1> QED
  BY InductiveInit, <1>1, PTL DEF Spec

\* Every variable keeps its type, and no listener gets in beyond the cap.
THEOREM TypeCorrect == Spec => []TypeOK
BY InductiveInvariant, PTL DEF IInv

\* State.listeners counts the bodies that live, for any number of listeners.
THEOREM CountIsRight == Spec => []ListenersCounted
BY InductiveInvariant, PTL DEF IInv

-----------------------------------------------------------------------------
(* Pipe implements Delivery.                                               *)

On == [l \in Listener |-> IF lpc[l] = "on" THEN at[l] ELSE Nothing]
Owed == {l \in Listener : lpc[l] = "on" /\ HeadersDue(l)}
Due == [l \in Listener |-> IF lpc[l] = "on" THEN DuePage(l) ELSE 0]

\* What is due to a listener, in terms of its receiver and the length of its prefix.
LEMMA DueIs ==
    ASSUME NEW l, prefix[l] \in Seq(Nat), next[l] \in Nat, RunUpTo(prefix[l], next[l])
    PROVE  DuePage(l) = next[l] - Len(prefix[l]) + (IF HeadersDue(l) THEN 1 ELSE 0)
<1>1. CASE prefix[l] = <<>>
  BY <1>1 DEF DuePage, PagesLeft, HeadersDue
<1>2. CASE prefix[l] # <<>>
  <2>1. /\ Tail(prefix[l]) \in Seq(Nat) /\ Len(Tail(prefix[l])) = Len(prefix[l]) - 1
        /\ Head(prefix[l]) = next[l] - Len(prefix[l]) \/ Head(prefix[l]) = 0
        /\ Tail(prefix[l]) # <<>> => Head(Tail(prefix[l])) = next[l] - Len(prefix[l]) + 1
    BY <1>2, RunTail
  <2>2. Len(prefix[l]) \in Nat \ {0} /\ Len(prefix[l]) <= next[l]
    BY <1>2 DEF RunUpTo
  <2>3. CASE Head(prefix[l]) # 0
    BY <1>2, <2>1, <2>2, <2>3 DEF DuePage, PagesLeft, HeadersDue
  <2>4. CASE Head(prefix[l]) = 0 /\ Tail(prefix[l]) # <<>>
    BY <1>2, <2>1, <2>2, <2>4 DEF DuePage, PagesLeft, HeadersDue
  <2>5. CASE Head(prefix[l]) = 0 /\ Tail(prefix[l]) = <<>>
    <3>1. Len(Tail(prefix[l])) = 0
      BY <2>5
    <3>2. Len(prefix[l]) = 1
      BY <2>1, <2>2, <3>1
    <3> QED
      BY <1>2, <2>2, <2>5, <3>2 DEF DuePage, PagesLeft, HeadersDue
  <2> QED
    BY <2>3, <2>4, <2>5
<1> QED
  BY <1>1, <1>2

\* The same for the state after a step.
LEMMA DueIsNext ==
    ASSUME NEW l, prefix'[l] \in Seq(Nat), next'[l] \in Nat, RunUpTo(prefix'[l], next'[l])
    PROVE  DuePage(l)' = next'[l] - Len(prefix'[l]) + (IF HeadersDue(l)' THEN 1 ELSE 0)
<1>1. CASE prefix'[l] = <<>>
  BY <1>1 DEF DuePage, PagesLeft, HeadersDue
<1>2. CASE prefix'[l] # <<>>
  <2>1. /\ Tail(prefix'[l]) \in Seq(Nat) /\ Len(Tail(prefix'[l])) = Len(prefix'[l]) - 1
        /\ Head(prefix'[l]) = next'[l] - Len(prefix'[l]) \/ Head(prefix'[l]) = 0
        /\ Tail(prefix'[l]) # <<>> => Head(Tail(prefix'[l])) = next'[l] - Len(prefix'[l]) + 1
    BY <1>2, RunTail
  <2>2. Len(prefix'[l]) \in Nat \ {0} /\ Len(prefix'[l]) <= next'[l]
    BY <1>2 DEF RunUpTo
  <2>3. CASE Head(prefix'[l]) # 0
    BY <1>2, <2>1, <2>2, <2>3 DEF DuePage, PagesLeft, HeadersDue
  <2>4. CASE Head(prefix'[l]) = 0 /\ Tail(prefix'[l]) # <<>>
    BY <1>2, <2>1, <2>2, <2>4 DEF DuePage, PagesLeft, HeadersDue
  <2>5. CASE Head(prefix'[l]) = 0 /\ Tail(prefix'[l]) = <<>>
    <3>1. Len(Tail(prefix'[l])) = 0
      BY <2>5
    <3>2. Len(prefix'[l]) = 1
      BY <2>1, <2>2, <3>1
    <3> QED
      BY <1>2, <2>2, <2>5, <3>2 DEF DuePage, PagesLeft, HeadersDue
  <2> QED
    BY <2>3, <2>4, <2>5
<1> QED
  BY <1>1, <1>2

\* At the start nothing is published and nobody listens.
LEMMA RefineInit == Init => Promise!Init
BY BoundAssumption DEF Init, Promise!Init

\* Steps that change nothing of what has been sent, or of who reads what.
LEMMA RefineUnseen ==
    ASSUME UNCHANGED <<current, sent, at, prefix, next>>,
           \A l \in Listener : lpc'[l] = "on" <=> lpc[l] = "on"
    PROVE  UNCHANGED Promise!vars
<1>1. \A l \in Listener : HeadersDue(l)' = HeadersDue(l) /\ DuePage(l)' = DuePage(l)
  BY DEF HeadersDue, DuePage, PagesLeft
<1>2. On' = On /\ Owed' = Owed /\ Due' = Due
  BY <1>1 DEF On, Owed, Due
<1> QED
  BY <1>2 DEF Promise!vars, On, Owed, Due

\* swap_pipe replaces the pipe and touches no listener.
LEMMA RefineSwap ==
    ASSUME NEW k \in {"file", "live", "quiet"}, Swap(k)
    PROVE  Promise!Replace
<1>1. On' = On /\ Owed' = Owed /\ Due' = Due
  BY DEF Swap, clients, On, Owed, Due, HeadersDue, DuePage, PagesLeft
<1> QED
  BY <1>1 DEF Swap, clients, Promise!Replace, On, Owed, Due

\* An item is published when it is sent, not when it is stored.
LEMMA RefineSend ==
    ASSUME IInv, NEW g \in Pipes, SendHeaders(g) \/ SendPage(g)
    PROVE  Promise!Publish(g)
<1>1. On' = On /\ Owed' = Owed /\ Due' = Due
  BY DEF SendHeaders, SendPage, clients, On, Owed, Due, HeadersDue, DuePage, PagesLeft
<1>2. sent' = [sent EXCEPT ![g] = @ + 1] /\ current' = current
  BY DEF SendHeaders, SendPage, Goto, IInv, TypeOK, PumpInStep
<1> QED
  BY <1>1, <1>2 DEF Promise!Publish, On, Owed, Due

\* How On, Owed and Due change when only l moves.
LEMMA OnlyMoves ==
    ASSUME NEW l \in Listener,
           \A c \in Listener \ {l} : /\ lpc'[c] = lpc[c] /\ at'[c] = at[c]
                                     /\ prefix'[c] = prefix[c] /\ next'[c] = next[c]
    PROVE  /\ On' = [On EXCEPT ![l] = IF lpc'[l] = "on" THEN at'[l] ELSE Nothing]
           /\ Due' = [Due EXCEPT ![l] = IF lpc'[l] = "on" THEN DuePage(l)' ELSE 0]
           /\ Owed' = IF lpc'[l] = "on" /\ HeadersDue(l)' THEN Owed \cup {l} ELSE Owed \ {l}
<1>1. \A c \in Listener \ {l} : HeadersDue(c)' = HeadersDue(c) /\ DuePage(c)' = DuePage(c)
  BY DEF HeadersDue, DuePage, PagesLeft
<1>2. On' = [On EXCEPT ![l] = IF lpc'[l] = "on" THEN at'[l] ELSE Nothing]
  BY DEF On
<1>3. Due' = [Due EXCEPT ![l] = IF lpc'[l] = "on" THEN DuePage(l)' ELSE 0]
  BY <1>1 DEF Due
<1>4. Owed' = IF lpc'[l] = "on" /\ HeadersDue(l)' THEN Owed \cup {l} ELSE Owed \ {l}
  BY <1>1 DEF Owed
<1> QED
  BY <1>2, <1>3, <1>4

\* A listener joins when its receiver is created: at a page of the burst or the next.
LEMMA RefineSubscribe ==
    ASSUME IInv, IInv', NEW l \in Listener, Subscribe(l)
    PROVE  Promise!Join(l)
<1>1. /\ lpc[l] = "copied" /\ at[l] = current /\ current \in Pipes
      /\ prefix[l] = PrefixOf(current) /\ stored[current] = sent[current]
      /\ UNCHANGED <<current, sent, at, prefix>>
      /\ lpc' = [lpc EXCEPT ![l] = "on"] /\ next' = [next EXCEPT ![l] = sent[current]]
  BY DEF Subscribe, pipes, IInv, TypeOK, PumpInStep, ClientInStep
<1>2. /\ lpc'[l] = "on" /\ at'[l] = current
      /\ next'[l] = sent[current] /\ prefix'[l] = PrefixOf(current)
  BY <1>1 DEF IInv, TypeOK
<1>3. /\ On' = [On EXCEPT ![l] = current]
      /\ Due' = [Due EXCEPT ![l] = DuePage(l)']
      /\ Owed' = IF HeadersDue(l)' THEN Owed \cup {l} ELSE Owed \ {l}
  BY <1>1, <1>2, OnlyMoves DEF IInv, TypeOK
<1>4. /\ sent[current] \in Nat /\ burst[current] \in Nat \ {0}
      /\ RunUpTo(prefix'[l], next'[l]) /\ prefix'[l] \in Seq(Nat)
      /\ sent[current] = 0 => prefix'[l] = <<>>
      /\ sent[current] > 0 => /\ prefix'[l] # <<>> /\ Head(prefix'[l]) = 0
                              /\ Len(prefix'[l]) = sent[current] - burst[current] + 1
  BY <1>1, <1>2, PrefixRun DEF IInv, TypeOK
<1>5. HeadersDue(l)'
  BY <1>2, <1>4 DEF HeadersDue
<1>6. DuePage(l)' = sent[current] - Len(prefix'[l]) + 1
  BY <1>2, <1>4, <1>5, DueIsNext
<1>7. DuePage(l)' \in {1} \cup 1..sent[current]
  <2>1. CASE sent[current] = 0
    BY <1>4, <1>6, <2>1
  <2>2. CASE sent[current] > 0
    <3>1. burst[current] <= sent[current]
      BY <1>1, <1>4, <2>2 DEF IInv, BurstInStep
    <3> QED
      BY <1>4, <1>6, <2>2, <3>1
  <2> QED
    BY <1>4, <2>1, <2>2
<1>8. On[l] = Nothing
  BY <1>1 DEF On
<1> QED
  BY <1>1, <1>3, <1>5, <1>7, <1>8 DEF Promise!Join, On, Owed, Due

\* A listener that is on, before and after it reads.
LEMMA RefineRead ==
    ASSUME IInv, IInv', NEW l \in Listener, ReadPrefix(l) \/ ReadChannel(l) \/ Lagged(l)
    PROVE  Promise!Headers(l) \/ Promise!Hear(l) \/ Promise!Lag(l)
<1>1. /\ lpc[l] = "on" /\ at[l] \in Pipes /\ next[l] <= sent[at[l]]
      /\ RunUpTo(prefix[l], next[l])
      /\ next[l] \in Nat /\ prefix[l] \in Seq(Nat) /\ sent[at[l]] \in Nat
      /\ UNCHANGED <<current, sent, lpc, at>>
  BY DEF ReadPrefix, ReadChannel, Lagged, pipes, IInv, TypeOK, ClientInStep
<1>2. RunUpTo(prefix'[l], next'[l]) /\ next'[l] \in Nat /\ prefix'[l] \in Seq(Nat)
  BY <1>1 DEF IInv, TypeOK, ClientInStep
<1>3. \A c \in Listener \ {l} : prefix'[c] = prefix[c] /\ next'[c] = next[c]
  BY DEF ReadPrefix, ReadChannel, Lagged, IInv, TypeOK
<1>4. /\ On' = [On EXCEPT ![l] = at[l]] /\ On[l] = at[l] /\ On \in [Listener -> Pipes \cup {Nothing}]
      /\ Due' = [Due EXCEPT ![l] = DuePage(l)'] /\ Due[l] = DuePage(l)
      /\ Owed' = IF HeadersDue(l)' THEN Owed \cup {l} ELSE Owed \ {l}
      /\ l \in Owed <=> HeadersDue(l)
  BY <1>1, <1>3, OnlyMoves DEF On, Owed, Due, IInv, TypeOK
<1>5. On' = On /\ at[l] # Nothing
  BY <1>1, <1>4, NothingAssumption
<1>6. /\ DuePage(l) = next[l] - Len(prefix[l]) + (IF HeadersDue(l) THEN 1 ELSE 0)
      /\ DuePage(l)' = next'[l] - Len(prefix'[l]) + (IF HeadersDue(l)' THEN 1 ELSE 0)
  BY <1>1, <1>2, DueIs, DueIsNext
<1>7. CASE ReadPrefix(l)
  <2>1. prefix[l] # <<>> /\ prefix'[l] = Tail(prefix[l]) /\ next'[l] = next[l]
    BY <1>7 DEF ReadPrefix, IInv, TypeOK
  <2>2. /\ Len(prefix'[l]) = Len(prefix[l]) - 1
        /\ prefix'[l] # <<>> => Head(prefix'[l]) > 0
    BY <1>1, <2>1, RunTail
  <2>3. Len(prefix[l]) \in Nat \ {0} /\ Len(prefix[l]) <= next[l]
    BY <1>1, <2>1 DEF RunUpTo
  <2>4. ~HeadersDue(l)'
    BY <2>1, <2>2, <2>3 DEF HeadersDue
  <2>5. CASE HeadersDue(l)
    <3>1. DuePage(l)' = DuePage(l)
      BY <1>1, <1>6, <2>1, <2>2, <2>3, <2>4, <2>5
    <3>2. Due' = Due
      BY <1>4, <3>1 DEF Due
    <3>3. sent[at[l]] > 0
      BY <1>1, <2>3
    <3> QED
      BY <1>1, <1>4, <1>5, <2>4, <2>5, <3>2, <3>3 DEF Promise!Headers, On, Owed, Due
  <2>6. CASE ~HeadersDue(l)
    <3>1. DuePage(l)' = DuePage(l) + 1 /\ DuePage(l) < sent[at[l]]
      BY <1>1, <1>6, <2>1, <2>2, <2>3, <2>4, <2>6
    <3>2. Owed' = Owed
      BY <1>4, <2>4, <2>6
    <3> QED
      BY <1>1, <1>4, <1>5, <2>6, <3>1, <3>2 DEF Promise!Hear, On, Owed, Due
  <2> QED
    BY <2>5, <2>6
<1>8. CASE ReadChannel(l)
  <2>1. /\ prefix[l] = <<>> /\ prefix'[l] = <<>> /\ next'[l] = next[l] + 1
        /\ next[l] < sent[at[l]]
    BY <1>1, <1>8, BacklogAssumption DEF ReadChannel, Behind, IInv, TypeOK
  <2>2. ~HeadersDue(l)' /\ (HeadersDue(l) <=> next[l] = 0)
    BY <1>1, <2>1 DEF HeadersDue
  <2>3. CASE HeadersDue(l)
    <3>1. DuePage(l)' = DuePage(l) /\ sent[at[l]] > 0
      BY <1>1, <1>6, <2>1, <2>2, <2>3
    <3>2. Due' = Due
      BY <1>4, <3>1 DEF Due
    <3> QED
      BY <1>1, <1>4, <1>5, <2>2, <2>3, <3>1, <3>2 DEF Promise!Headers, On, Owed, Due
  <2>4. CASE ~HeadersDue(l)
    <3>1. DuePage(l)' = DuePage(l) + 1 /\ DuePage(l) < sent[at[l]]
      BY <1>1, <1>6, <2>1, <2>2, <2>4
    <3>2. Owed' = Owed
      BY <1>4, <2>2, <2>4
    <3> QED
      BY <1>1, <1>4, <1>5, <2>4, <3>1, <3>2 DEF Promise!Hear, On, Owed, Due
  <2> QED
    BY <2>3, <2>4
<1>9. CASE Lagged(l)
  <2>1. /\ prefix[l] = <<>> /\ prefix'[l] = <<>> /\ next'[l] = sent[at[l]] - Backlog
        /\ sent[at[l]] - next[l] > Backlog
    BY <1>9 DEF Lagged, Behind, IInv, TypeOK
  <2>2. ~HeadersDue(l)' /\ (HeadersDue(l) <=> next[l] = 0)
    BY <1>1, <2>1, BacklogAssumption DEF HeadersDue
  <2>3. DuePage(l)' = sent[at[l]] - Backlog
    BY <1>1, <1>6, <2>1, <2>2, BacklogAssumption
  <2>4. sent[at[l]] - (IF HeadersDue(l) THEN 0 ELSE DuePage(l)) > Backlog
    BY <1>1, <1>6, <2>1, <2>2
  <2>5. HeadersDue(l) => DuePage(l) = 1
    BY <1>1, <1>6, <2>1, <2>2
  <2>6. Owed' = Owed \ {l}
    BY <1>4, <2>2
  <2> QED
    BY <1>1, <1>4, <1>5, <2>3, <2>4, <2>5, <2>6 DEF Promise!Lag, On, Owed, Due
<1> QED
  BY <1>7, <1>8, <1>9

\* A body that ends or is dropped leaves.
LEMMA RefineDrop ==
    ASSUME IInv, NEW l \in Listener, Drop(l)
    PROVE  Promise!Leave(l)
<1>1. /\ lpc'[l] = "away" /\ current' = current /\ sent' = sent
      /\ \A c \in Listener \ {l} : /\ lpc'[c] = lpc[c] /\ at'[c] = at[c]
                                    /\ prefix'[c] = prefix[c] /\ next'[c] = next[c]
  BY DEF Drop, pipes, IInv, TypeOK
<1>2. /\ On' = [On EXCEPT ![l] = Nothing] /\ Due' = [Due EXCEPT ![l] = 0]
      /\ Owed' = Owed \ {l}
  BY <1>1, OnlyMoves
<1> QED
  BY <1>1, <1>2 DEF Promise!Leave, On, Owed, Due

\* Each page reaches a listener exactly once, and in order: for any number of pipes,
\* pages and listeners, Pipe does what Delivery promises.
THEOREM Implements == Spec => ImplementsDelivery
<1>1. IInv /\ IInv' /\ [Next]_vars => [Promise!Next]_Promise!vars
  <2> SUFFICES ASSUME IInv, IInv', [Next]_vars PROVE [Promise!Next]_Promise!vars
    OBVIOUS
  <2>1. CASE UNCHANGED vars
    BY <2>1, RefineUnseen DEF vars, pipes, clients
  <2>2. ASSUME NEW k \in {"file", "live", "quiet"}, Swap(k) PROVE Promise!Next
    BY <2>2, RefineSwap DEF Promise!Next
  <2>3. ASSUME NEW g \in Pipes, Pump(g) PROVE [Promise!Next]_Promise!vars
    <3>1. CASE SendHeaders(g) \/ SendPage(g)
      BY <3>1, RefineSend DEF Promise!Next
    <3>2. CASE \/ NoHeaders(g) \/ StoreHeaders(g) \/ NextPage(g) \/ SourceEnds(g)
               \/ Retired(g) \/ StorePage(g)
      <4>1. UNCHANGED <<current, sent, lpc, at, prefix, next>>
        BY <3>2 DEF NoHeaders, StoreHeaders, NextPage, SourceEnds, Retired, StorePage, clients
      <4> QED
        BY <4>1, RefineUnseen
    <3> QED
      BY <2>3, <3>1, <3>2 DEF Pump
  <2>4. ASSUME NEW l \in Listener, AddClient(l) PROVE UNCHANGED Promise!vars
    <3>1. /\ lpc[l] = "away" /\ lpc'[l] = "copied" /\ current' = current /\ sent' = sent
          /\ \A c \in Listener \ {l} : /\ lpc'[c] = lpc[c] /\ at'[c] = at[c]
                                        /\ prefix'[c] = prefix[c] /\ next'[c] = next[c]
      BY <2>4 DEF AddClient, pipes, IInv, TypeOK
    <3>2. /\ On' = [On EXCEPT ![l] = Nothing] /\ Due' = [Due EXCEPT ![l] = 0]
          /\ Owed' = Owed \ {l}
      BY <3>1, OnlyMoves
    <3>3. On[l] = Nothing /\ Due[l] = 0 /\ l \notin Owed
      BY <3>1 DEF On, Due, Owed
    <3>4. On' = On /\ Due' = Due /\ Owed' = Owed
      BY <3>2, <3>3 DEF On, Due
    <3> QED
      BY <3>1, <3>4 DEF Promise!vars, On, Owed, Due
  <2>5. ASSUME NEW l \in Listener, Subscribe(l) PROVE Promise!Next
    BY <2>5, RefineSubscribe DEF Promise!Next
  <2>6. ASSUME NEW l \in Listener, ReadPrefix(l) \/ ReadChannel(l) \/ Lagged(l)
        PROVE  Promise!Next
    BY <2>6, RefineRead DEF Promise!Next
  <2>7. ASSUME NEW l \in Listener, BodyEnds(l) \/ Leaves(l) PROVE Promise!Next
    BY <2>7, RefineDrop DEF BodyEnds, Leaves, Promise!Next
  <2> QED
    BY <2>1, <2>2, <2>3, <2>4, <2>5, <2>6, <2>7 DEF Next, Body
<1> QED
  BY RefineInit, InductiveInvariant, <1>1, PTL DEF Spec, ImplementsDelivery, Promise!Spec
=============================================================================
