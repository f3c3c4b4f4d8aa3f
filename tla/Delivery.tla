------------------------------- MODULE Delivery -------------------------------
(***************************************************************************)
(* What src/server/stream.rs promises a listener, without prefixes, bursts,*)
(* channels or locks: it joins the pipe of the stream, gets the headers    *)
(* once and before any page, and from where it joined every page once and  *)
(* in order, unless it falls behind by more than the backlog.              *)
(***************************************************************************)
EXTENDS Naturals

CONSTANTS Listener, Pipes, Backlog, Nothing

VARIABLES
    current,    \* the pipe of the stream
    published,  \* items published on each pipe: item 0 is the headers, k the page k
    on,         \* the pipe each listener is on
    owed,       \* listeners whose headers are still to come
    due         \* the next page to come to each listener

vars == <<current, published, on, owed, due>>

Init ==
    /\ current = 0
    /\ published = [g \in Pipes |-> 0]
    /\ on = [l \in Listener |-> Nothing]
    /\ owed = {}
    /\ due = [l \in Listener |-> 0]

Replace ==
    /\ current' = current + 1
    /\ UNCHANGED <<published, on, owed, due>>

Publish(g) ==
    /\ published' = [published EXCEPT ![g] = @ + 1]
    /\ UNCHANGED <<current, on, owed, due>>

\* A listener joins at a recent page, or at the next one.
Join(l) ==
    /\ on[l] = Nothing
    /\ on' = [on EXCEPT ![l] = current]
    /\ owed' = owed \cup {l}
    /\ \E k \in {1} \cup 1..published[current] : due' = [due EXCEPT ![l] = k]
    /\ UNCHANGED <<current, published>>

Headers(l) ==
    /\ on[l] # Nothing /\ l \in owed
    /\ published[on[l]] > 0
    /\ owed' = owed \ {l}
    /\ UNCHANGED <<current, published, on, due>>

Hear(l) ==
    /\ on[l] # Nothing /\ l \notin owed
    /\ due[l] < published[on[l]]
    /\ due' = [due EXCEPT ![l] = @ + 1]
    /\ UNCHANGED <<current, published, on, owed>>

\* Too slow: on to the oldest page of the backlog.  The headers can be lost that way
\* by a listener that joined before them.
Lag(l) ==
    /\ on[l] # Nothing
    /\ published[on[l]] - (IF l \in owed THEN 0 ELSE due[l]) > Backlog
    /\ l \in owed => due[l] = 1
    /\ owed' = owed \ {l}
    /\ due' = [due EXCEPT ![l] = published[on[l]] - Backlog]
    /\ UNCHANGED <<current, published, on>>

Leave(l) ==
    /\ on' = [on EXCEPT ![l] = Nothing]
    /\ owed' = owed \ {l}
    /\ due' = [due EXCEPT ![l] = 0]
    /\ UNCHANGED <<current, published>>

Next ==
    \/ Replace \/ \E g \in Pipes : Publish(g)
    \/ \E l \in Listener : Join(l) \/ Headers(l) \/ Hear(l) \/ Lag(l) \/ Leave(l)

Spec == Init /\ [][Next]_vars
=============================================================================
