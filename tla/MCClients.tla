------------------------------- MODULE MCClients -------------------------------
(***************************************************************************)
(* The server's announcements with a player page, while live streams come  *)
(* and go, and with a togedemon and its feed, while no page is there.  The *)
(* two casts meet in Updates only; in one run of all of it, what happens   *)
(* outside would be too little for what either is about.                   *)
(***************************************************************************)
EXTENDS PlayerPage, Togedemon

VARIABLE cast       \* page or feed

all == <<cast, vars, page, demon>>

MCInit ==
    /\ cast \in {"page", "feed"}
    /\ Init /\ PageInit /\ DemonInit
    /\ cast = "page" => sink = "none"

Restart ==
    /\ Outside("fault")
    /\ ServerRestart
    /\ PageCutOff
    /\ DemonCutOff

\* For the page, a push is known by what it does to the stream: it goes live, if need be in
\* the place of another one, or goes off.
Pushes ==
    /\ Outside("music")
    /\ \/ GoLive
       \/ \E cached \in BOOLEAN : live /\ GoOff(cached)
    /\ UNCHANGED <<link, snapshot, feed, initial>>

PageNext ==
    \/ (MonitorSees \/ ServerStep \/ Pushes) /\ UNCHANGED page
    \/ PageStep

FeedNext ==
    \/ (MonitorSees \/ ServerStep) /\ UNCHANGED demon
    \/ DemonStep

Next ==
    /\ UNCHANGED cast
    /\ \/ cast = "page" /\ PageNext /\ UNCHANGED demon /\ feed' = "down"
       \/ cast = "feed" /\ FeedNext /\ UNCHANGED page /\ link' = "down"
       \/ Restart

\* The tasks of the server, the handlers of the page and the threads of the togedemon go on;
\* nothing is promised about what happens outside.
Fairness ==
    /\ WF_all(cast = "page" /\ Progress /\ UNCHANGED <<cast, page, demon>>)
    /\ WF_all(cast = "page" /\ (Connect \/ BuildSnapshot \/ SendSnapshot)
                /\ UNCHANGED <<cast, page, demon>>)
    /\ WF_all(cast = "page" /\ (Opened \/ Receive) /\ UNCHANGED <<cast, demon>>)
    /\ WF_all(cast = "page" /\ Arrive /\ UNCHANGED <<cast, demon>>)
    /\ WF_all(cast = "feed" /\ FeedReads /\ UNCHANGED <<cast, page>>)
    /\ WF_all(cast = "feed" /\ (Detect \/ PushArrives \/ WaitEnds \/ RestEnds)
                /\ UNCHANGED <<cast, page>>)

Spec == MCInit /\ [][Next]_all /\ Fairness

TypeOK ==
    /\ current \in {"none", "paused", "playing"} /\ gen \in Nat
    /\ hasTrack \in BOOLEAN /\ live \in BOOLEAN
    /\ link \in {"down", "inserted", "snapshot", "up"} /\ snapshot \in Frame
    /\ mailbox \in Seq(Frame) /\ Len(mailbox) <= Mailbox
    /\ feed \in {"down", "computed", "up"} /\ initial \in Seq(BOOLEAN)
    /\ events \in Seq(BOOLEAN) /\ Len(events) <= Channel
    /\ changes \in [{"music", "click", "fault"} -> Nat]
    /\ PageTypeOK /\ DemonTypeOK
=============================================================================
