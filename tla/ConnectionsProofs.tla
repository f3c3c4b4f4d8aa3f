-------------------------- MODULE ConnectionsProofs --------------------------
(***************************************************************************)
(* Theorems about the module Connections: its type invariant with the caps *)
(* of addresses and streams, and the tally of PEERS.                       *)
(***************************************************************************)
EXTENDS Connections, FiniteSetTheorems, TLAPS

\* Only an open socket's page is counted as listening.
ListenersOpen == \A k \in listening : pc[k] \in {"open", "closing"}

IInv == TypeOK /\ CountsMatch /\ ListenersOpen

At(q, i) == {c \in Counted(q) : ClientIp[c] = i}

-----------------------------------------------------------------------------
(* The tally, when a connection enters or leaves what is counted.          *)

\* What is counted, field by field.
LEMMA CountedParts ==
    /\ Counted("streams") =
          {s \in Stream : pc[s] \in {"taken", "refused", "body", "ended", "removed"}}
    /\ Counted("sockets") =
          {k \in Socket : pc[k] \in {"upgrading", "opened", "open", "closing", "unmapped"}}
    /\ Counted("listening") = listening
    /\ Counted("streams")' =
          {s \in Stream : pc'[s] \in {"taken", "refused", "body", "ended", "removed"}}
    /\ Counted("sockets")' =
          {k \in Socket : pc'[k] \in {"upgrading", "opened", "open", "closing", "unmapped"}}
    /\ Counted("listening")' = listening'
BY DEF Counted

\* It is a finite set of connections.
LEMMA CountedFinite ==
    ASSUME TypeOK, NEW q \in Count, NEW i \in Ip
    PROVE  IsFiniteSet(At(q, i)) /\ Counted(q) \subseteq Conn
<1>1. Counted(q) \subseteq Conn
  BY CountedParts DEF Count, Conn, TypeOK
<1>2. At(q, i) \in SUBSET Conn
  BY <1>1 DEF At
<1> QED
  BY <1>1, <1>2, ConnAssumption, FS_Subset DEF Conn

\* Nothing changes.
LEMMA Same ==
    ASSUME CountsMatch, peers' = peers, \A q \in Count : Counted(q)' = Counted(q)
    PROVE  CountsMatch'
BY DEF CountsMatch

\* c is counted, and was not.
LEMMA Gain ==
    ASSUME TypeOK, CountsMatch, NEW q \in Count, NEW c \in Conn, c \notin Counted(q), Plus(q, c),
           Counted(q)' = Counted(q) \cup {c},
           \A r \in Count \ {q} : Counted(r)' = Counted(r)
    PROVE  CountsMatch' /\ peers' \in [Count -> [Ip -> Nat]]
<1>1. ClientIp[c] \in Ip /\ peers \in [Count -> [Ip -> Nat]]
  BY ConnAssumption DEF Conn, TypeOK
<1>2. /\ peers' \in [Count -> [Ip -> Nat]]
      /\ \A r \in Count, i \in Ip :
            peers'[r][i] = IF r = q /\ i = ClientIp[c] THEN peers[r][i] + 1 ELSE peers[r][i]
  BY <1>1 DEF Plus
<1>3. ASSUME NEW r \in Count, NEW i \in Ip
      PROVE  peers'[r][i] = Cardinality({d \in Counted(r)' : ClientIp[d] = i})
  <2>1. peers[r][i] = Cardinality(At(r, i))
    BY DEF CountsMatch, At
  <2>2. CASE r = q /\ i = ClientIp[c]
    <3>1. {d \in Counted(r)' : ClientIp[d] = i} = At(r, i) \cup {c}
      BY <2>2 DEF At
    <3>2. c \notin At(r, i)
      BY <2>2 DEF At
    <3>3. IsFiniteSet(At(r, i))
      BY CountedFinite
    <3>4. Cardinality(At(r, i) \cup {c}) = Cardinality(At(r, i)) + 1
      BY <3>2, <3>3, FS_AddElement, Zenon
    <3> QED
      BY <1>2, <2>1, <2>2, <3>1, <3>4
  <2>3. CASE ~(r = q /\ i = ClientIp[c])
    <3>1. {d \in Counted(r)' : ClientIp[d] = i} = At(r, i)
      BY <2>3 DEF At
    <3> QED
      BY <1>2, <2>1, <2>3, <3>1
  <2> QED
    BY <2>2, <2>3
<1> QED
  BY <1>2, <1>3 DEF CountsMatch

\* c was counted, and no longer is.
LEMMA Lose ==
    ASSUME TypeOK, CountsMatch, NEW q \in Count, NEW c \in Conn, c \in Counted(q),
           Minus(q, c) \/ Saturating(q, c),
           Counted(q)' = Counted(q) \ {c},
           \A r \in Count \ {q} : Counted(r)' = Counted(r)
    PROVE  /\ CountsMatch' /\ peers' \in [Count -> [Ip -> Nat]]
           /\ \A r \in Count, i \in Ip : peers'[r][i] <= peers[r][i]
<1>1. ClientIp[c] \in Ip /\ peers \in [Count -> [Ip -> Nat]]
  BY ConnAssumption DEF Conn, TypeOK
<1>2. peers[q][ClientIp[c]] > 0
  <2>1. c \in At(q, ClientIp[c]) /\ peers[q][ClientIp[c]] = Cardinality(At(q, ClientIp[c]))
    BY <1>1 DEF CountsMatch, At
  <2> QED
    BY <1>1, <2>1, CountedFinite, FS_EmptySet
<1>3. /\ peers' \in [Count -> [Ip -> Nat]]
      /\ \A r \in Count, i \in Ip :
            peers'[r][i] = IF r = q /\ i = ClientIp[c] THEN peers[r][i] - 1 ELSE peers[r][i]
  BY <1>1, <1>2 DEF Minus, Saturating
<1>4. ASSUME NEW r \in Count, NEW i \in Ip
      PROVE  peers'[r][i] = Cardinality({d \in Counted(r)' : ClientIp[d] = i})
  <2>1. peers[r][i] = Cardinality(At(r, i))
    BY DEF CountsMatch, At
  <2>2. CASE r = q /\ i = ClientIp[c]
    <3>1. {d \in Counted(r)' : ClientIp[d] = i} = At(r, i) \ {c}
      BY <2>2 DEF At
    <3>2. c \in At(r, i)
      BY <2>2 DEF At
    <3>3. IsFiniteSet(At(r, i))
      BY CountedFinite
    <3>4. Cardinality(At(r, i) \ {c}) = Cardinality(At(r, i)) - 1
      BY <3>2, <3>3, FS_RemoveElement, Zenon
    <3> QED
      BY <1>3, <2>1, <2>2, <3>1, <3>4
  <2>3. CASE ~(r = q /\ i = ClientIp[c])
    <3>1. {d \in Counted(r)' : ClientIp[d] = i} = At(r, i)
      BY <2>3 DEF At
    <3> QED
      BY <1>3, <2>1, <2>3, <3>1
  <2> QED
    BY <2>2, <2>3
<1>5. \A r \in Count, i \in Ip : peers'[r][i] <= peers[r][i]
  BY <1>1, <1>3
<1> QED
  BY <1>3, <1>4, <1>5 DEF CountsMatch

\* The places of Counted, by name.
StreamHas == {"taken", "refused", "body", "ended", "removed"}
SocketHas == {"upgrading", "opened", "open", "closing", "unmapped"}

\* Goto moves c and nothing else.
LEMMA Moves ==
    ASSUME TypeOK, NEW c \in Conn, NEW at, NEW to, Goto(c, at, to)
    PROVE  \A d \in Conn : pc'[d] = IF d = c THEN to ELSE pc[d]
BY DEF Goto, TypeOK

\* A connection that moves leaves what is counted alone, if both its places are or neither is.
LEMMA StaysCounted ==
    ASSUME TypeOK, NEW c \in Conn, NEW at, NEW to, Goto(c, at, to), listening' = listening,
           c \in Stream => (at \in StreamHas <=> to \in StreamHas),
           c \in Socket => (at \in SocketHas <=> to \in SocketHas)
    PROVE  \A q \in Count : Counted(q)' = Counted(q)
<1>1. \A d \in Conn : pc'[d] = IF d = c THEN to ELSE pc[d]
  BY Moves
<1>2. pc[c] = at
  BY DEF Goto
<1>3. \A s \in Stream : pc'[s] \in StreamHas <=> pc[s] \in StreamHas
  BY <1>1, <1>2 DEF Conn
<1>4. \A k \in Socket : pc'[k] \in SocketHas <=> pc[k] \in SocketHas
  BY <1>1, <1>2 DEF Conn
<1>5. Counted("streams")' = Counted("streams")
  BY <1>3, CountedParts DEF StreamHas
<1>6. Counted("sockets")' = Counted("sockets")
  BY <1>4, CountedParts DEF SocketHas
<1> QED
  BY <1>5, <1>6, CountedParts DEF Count

\* The listening sockets stay open, if the one that moves is not among them.
LEMMA StaysOpen ==
    ASSUME TypeOK, ListenersOpen, NEW c \in Conn, NEW at, NEW to, Goto(c, at, to),
           listening' = listening,
           to \in {"open", "closing"} \/ at \notin {"open", "closing"} \/ c \notin listening
    PROVE  ListenersOpen'
<1>1. \A d \in Conn : pc'[d] = IF d = c THEN to ELSE pc[d]
  BY Moves
<1>2. pc[c] = at /\ listening \subseteq Conn
  BY DEF Goto, TypeOK, Conn
<1> QED
  BY <1>1, <1>2 DEF ListenersOpen

-----------------------------------------------------------------------------
(* The steps, by what they do to the tally.                                *)

\* The steps that leave the tally alone.
LEMMA QuietStep ==
    ASSUME IInv, NEW c \in Conn,
           \/ Arrive(c) \/ TooMany(c)
           \/ c \in Stream /\ (AddClient(c) \/ NoRoom(c) \/ BodyEnds(c) \/ BodyCut(c)
                                \/ RemoveClient(c))
           \/ c \in Socket /\ (Insert(c) \/ DropSender(c) \/ SocketGone(c) \/ SocketCut(c)
                                \/ Unmap(c))
    PROVE  IInv'
<1>1. PICK at, to :
        /\ Goto(c, at, to) /\ to \in {"idle", "gate", "refused", "body", "ended", "removed",
                                      "opened", "open", "closing", "unmapped"}
        /\ c \in Stream => (at \in StreamHas <=> to \in StreamHas)
        /\ c \in Socket => (at \in SocketHas <=> to \in SocketHas)
        /\ to \in {"open", "closing"} \/ at \notin {"open", "closing"} \/ c \notin listening
  <2>1. CASE Arrive(c)
    <3> WITNESS "idle", "gate"
    <3> QED
      BY <2>1 DEF Arrive, StreamHas, SocketHas
  <2>2. CASE TooMany(c)
    <3> WITNESS "gate", "idle"
    <3> QED
      BY <2>2 DEF TooMany, StreamHas, SocketHas
  <2>3. CASE c \in Stream /\ AddClient(c)
    <3> WITNESS "taken", "body"
    <3> QED
      BY <2>3, ConnAssumption DEF AddClient, StreamHas
  <2>4. CASE c \in Stream /\ NoRoom(c)
    <3> WITNESS "taken", "refused"
    <3> QED
      BY <2>4, ConnAssumption DEF NoRoom, StreamHas
  <2>5. CASE c \in Stream /\ (BodyEnds(c) \/ BodyCut(c))
    <3> WITNESS "body", "ended"
    <3> QED
      BY <2>5, ConnAssumption DEF BodyEnds, BodyCut, StreamHas
  <2>6. CASE c \in Stream /\ RemoveClient(c)
    <3> WITNESS "ended", "removed"
    <3> QED
      BY <2>6, ConnAssumption DEF RemoveClient, StreamHas
  <2>7. CASE c \in Socket /\ Insert(c)
    <3> WITNESS "upgrading", "opened"
    <3> QED
      BY <2>7, ConnAssumption DEF Insert, SocketHas
  <2>8. CASE c \in Socket /\ DropSender(c)
    <3> WITNESS "opened", "open"
    <3> QED
      BY <2>8, ConnAssumption DEF DropSender, SocketHas
  <2>9. CASE c \in Socket /\ (SocketGone(c) \/ SocketCut(c))
    <3> WITNESS "open", "closing"
    <3> QED
      BY <2>9, ConnAssumption DEF SocketGone, SocketCut, SocketHas
  <2>10. CASE c \in Socket /\ Unmap(c)
    <3> WITNESS "closing", "unmapped"
    <3> QED
      BY <2>10, ConnAssumption DEF Unmap, SocketHas
  <2> QED
    BY <2>1, <2>2, <2>3, <2>4, <2>5, <2>6, <2>7, <2>8, <2>9, <2>10
<1>2. UNCHANGED <<peers, listening, switch>>
  BY DEF Arrive, TooMany, AddClient, NoRoom, BodyEnds, BodyCut, RemoveClient, Insert,
     DropSender, SocketGone, SocketCut, Unmap
<1>3. listeners' \in 0..MaxStreams /\ sockets' \subseteq Socket
  BY MaxAssumption DEF IInv, TypeOK, Arrive, TooMany, AddClient, NoRoom, BodyEnds, BodyCut,
     RemoveClient, Insert, DropSender, SocketGone, SocketCut, Unmap
<1>4. TypeOK'
  BY <1>1, <1>2, <1>3 DEF IInv, TypeOK, Goto, switch
<1>5. CountsMatch'
  BY <1>1, <1>2, StaysCounted, Same DEF IInv
<1>6. ListenersOpen'
  BY <1>1, <1>2, StaysOpen DEF IInv
<1> QED
  BY <1>4, <1>5, <1>6 DEF IInv

\* A place is taken.
LEMMA TakeSlotStep ==
    ASSUME IInv, NEW c \in Conn, TakeSlot(c)
    PROVE  IInv'
<1>1. Place(c) \in {"streams", "sockets"} /\ (Place(c) = "streams" <=> c \in Stream)
  BY DEF Place
<1>2. c \notin Counted(Place(c))
  BY <1>1, CountedParts DEF TakeSlot, Goto
<1>3. /\ Counted(Place(c))' = Counted(Place(c)) \cup {c}
      /\ \A r \in Count \ {Place(c)} : Counted(r)' = Counted(r)
  <2>1. CASE c \in Stream
    <3>1. /\ Place(c) = "streams" /\ c \notin Socket /\ listening' = listening
          /\ pc' = [pc EXCEPT ![c] = "taken"]
      BY <2>1, ConnAssumption DEF Place, TakeSlot, Goto
    <3>2. /\ Counted("streams")' = Counted("streams") \cup {c}
          /\ Counted("sockets")' = Counted("sockets")
          /\ Counted("listening")' = Counted("listening")
      <4>1. \A s \in Stream : pc'[s] \in StreamHas <=> pc[s] \in StreamHas \/ s = c
        BY <2>1, <3>1 DEF IInv, TypeOK, Conn, StreamHas
      <4>2. \A k \in Socket : pc'[k] = pc[k]
        BY <2>1, <3>1 DEF IInv, TypeOK, Conn
      <4>3. Counted("streams")' = Counted("streams") \cup {c}
        BY <2>1, <4>1, CountedParts DEF StreamHas
      <4> QED
        BY <3>1, <4>2, <4>3, CountedParts
    <3> QED
      BY <3>1, <3>2 DEF Count
  <2>2. CASE c \in Socket /\ c \notin Stream
    <3>1. /\ Place(c) = "sockets" /\ listening' = listening
          /\ pc' = [pc EXCEPT ![c] = "upgrading"]
      BY <2>2 DEF Place, TakeSlot, Goto
    <3>2. /\ Counted("sockets")' = Counted("sockets") \cup {c}
          /\ Counted("streams")' = Counted("streams")
          /\ Counted("listening")' = Counted("listening")
      <4>1. \A k \in Socket : pc'[k] \in SocketHas <=> pc[k] \in SocketHas \/ k = c
        BY <2>2, <3>1 DEF IInv, TypeOK, Conn, SocketHas
      <4>2. \A s \in Stream : pc'[s] = pc[s]
        BY <2>2, <3>1 DEF IInv, TypeOK, Conn
      <4>3. Counted("sockets")' = Counted("sockets") \cup {c}
        BY <2>2, <4>1, CountedParts DEF SocketHas
      <4> QED
        BY <3>1, <4>2, <4>3, CountedParts
    <3> QED
      BY <3>1, <3>2 DEF Count
  <2> QED
    BY <2>1, <2>2 DEF Conn
<1>4. CountsMatch' /\ peers' \in [Count -> [Ip -> Nat]]
  BY <1>1, <1>2, <1>3, Gain DEF IInv, TakeSlot, Count
<1>5. \A i \in Ip : peers'["streams"][i] <= MaxPerIp /\ peers'["sockets"][i] <= MaxPerIp
  BY <1>1, ConnAssumption, MaxAssumption
     DEF IInv, TypeOK, TakeSlot, HasPlace, Plus, Count, Conn
<1>6. TypeOK'
  BY <1>4, <1>5 DEF IInv, TypeOK, TakeSlot, Goto, switch
<1>7. ListenersOpen'
  BY DEF IInv, TypeOK, ListenersOpen, TakeSlot, Goto
<1> QED
  BY <1>4, <1>6, <1>7 DEF IInv

\* A page says that it listens.
LEMMA ListenStep ==
    ASSUME IInv, NEW k \in Socket, Listen(k)
    PROVE  IInv'
<1>1. k \in Conn /\ "listening" \in Count
  BY DEF Conn, Count
<1>2. k \notin Counted("listening") /\ Counted("listening")' = Counted("listening") \cup {k}
      /\ \A r \in Count \ {"listening"} : Counted(r)' = Counted(r)
  BY CountedParts DEF Listen, Count
<1>3. CountsMatch' /\ peers' \in [Count -> [Ip -> Nat]]
  BY <1>1, <1>2, Gain DEF IInv, Listen
<1>4. \A i \in Ip : /\ peers'["streams"][i] = peers["streams"][i]
                     /\ peers'["sockets"][i] = peers["sockets"][i]
  BY DEF Listen, Plus, IInv, TypeOK, Count
<1>5. TypeOK'
  BY <1>3, <1>4 DEF IInv, TypeOK, Listen, switch
<1>6. ListenersOpen'
  BY DEF IInv, ListenersOpen, Listen
<1> QED
  BY <1>3, <1>5, <1>6 DEF IInv

\* A place, or a listener, is given back.
LEMMA LoseStep ==
    ASSUME IInv, NEW c \in Conn,
           \/ c \in Stream /\ (GiveBack(c) \/ StreamLeaves(c))
           \/ c \in Socket /\ (UpgradeFails(c) \/ SocketLeaves(c) \/ Unlisten(c)
                                \/ StopListening(c))
    PROVE  IInv'
<1>1. PICK q \in Count :
        /\ Minus(q, c) \/ Saturating(q, c)
        /\ c \in Counted(q) /\ Counted(q)' = Counted(q) \ {c}
        /\ \A r \in Count \ {q} : Counted(r)' = Counted(r)
  <2>1. CASE c \in Stream /\ (GiveBack(c) \/ StreamLeaves(c))
    <3>1. "streams" \in Count /\ (Minus("streams", c) \/ Saturating("streams", c))
      BY <2>1 DEF Count, GiveBack, StreamLeaves
    <3>2. c \in Counted("streams") /\ Counted("streams")' = Counted("streams") \ {c}
      BY <2>1, CountedParts DEF GiveBack, StreamLeaves, Goto, IInv, TypeOK, Conn
    <3>3. \A r \in Count \ {"streams"} : Counted(r)' = Counted(r)
      BY <2>1, CountedParts, ConnAssumption
         DEF GiveBack, StreamLeaves, Goto, IInv, TypeOK, Conn, Count
    <3> QED
      BY <3>1, <3>2, <3>3
  <2>2. CASE c \in Socket /\ (UpgradeFails(c) \/ SocketLeaves(c))
    <3>1. "sockets" \in Count /\ (Minus("sockets", c) \/ Saturating("sockets", c))
      BY <2>2 DEF Count, UpgradeFails, SocketLeaves
    <3>2. c \in Counted("sockets") /\ Counted("sockets")' = Counted("sockets") \ {c}
      BY <2>2, CountedParts DEF UpgradeFails, SocketLeaves, Goto, IInv, TypeOK, Conn
    <3>3. \A r \in Count \ {"sockets"} : Counted(r)' = Counted(r)
      BY <2>2, CountedParts, ConnAssumption
         DEF UpgradeFails, SocketLeaves, Goto, IInv, TypeOK, Conn, Count
    <3> QED
      BY <3>1, <3>2, <3>3
  <2>3. CASE Unlisten(c) \/ StopListening(c)
    <3>1. "listening" \in Count /\ Saturating("listening", c)
      BY <2>3 DEF Count, Unlisten, StopListening
    <3>2. /\ c \in Counted("listening") /\ Counted("listening")' = Counted("listening") \ {c}
          /\ \A r \in Count \ {"listening"} : Counted(r)' = Counted(r)
      BY <2>3, CountedParts DEF Unlisten, StopListening, Count
    <3> QED
      BY <3>1, <3>2
  <2> QED
    BY <2>1, <2>2, <2>3
<1>2. /\ CountsMatch' /\ peers' \in [Count -> [Ip -> Nat]]
      /\ \A r \in Count, i \in Ip : peers'[r][i] <= peers[r][i]
  BY <1>1, Lose DEF IInv
<1>3. \A i \in Ip : peers'["streams"][i] <= MaxPerIp /\ peers'["sockets"][i] <= MaxPerIp
  <2> SUFFICES ASSUME NEW i \in Ip, NEW r \in {"streams", "sockets"}
               PROVE  peers'[r][i] <= MaxPerIp
    OBVIOUS
  <2>1. peers[r][i] \in Nat /\ peers'[r][i] \in Nat /\ peers[r][i] <= MaxPerIp
        /\ peers'[r][i] <= peers[r][i]
    BY <1>2 DEF IInv, TypeOK, Count
  <2> QED
    BY <2>1, MaxAssumption
<1>4. TypeOK'
  BY <1>2, <1>3 DEF IInv, TypeOK, GiveBack, StreamLeaves, UpgradeFails, SocketLeaves, Unlisten,
     StopListening, Goto, switch
<1>5. ListenersOpen'
  <2>1. CASE Unlisten(c) \/ StopListening(c)
    BY <2>1 DEF IInv, ListenersOpen, Unlisten, StopListening
  <2>2. CASE GiveBack(c) \/ StreamLeaves(c) \/ UpgradeFails(c) \/ SocketLeaves(c)
    <3>1. PICK at : Goto(c, at, "idle") /\ at \in {"refused", "removed", "upgrading", "unmapped"}
      BY <2>2 DEF GiveBack, StreamLeaves, UpgradeFails, SocketLeaves
    <3>2. listening' = listening
      BY <2>2 DEF GiveBack, StreamLeaves, UpgradeFails, SocketLeaves
    <3> QED
      BY <3>1, <3>2, StaysOpen DEF IInv
  <2> QED
    BY <2>1, <2>2
<1> QED
  BY <1>2, <1>4, <1>5 DEF IInv

\* An empty PEERS is well typed and within every place.
LEMMA NoneTaken ==
    /\ NoPeers \in [Count -> [Ip -> Nat]]
    /\ \A i \in Ip : NoPeers["streams"][i] <= MaxPerIp /\ NoPeers["sockets"][i] <= MaxPerIp
<1>1. \A q \in Count : NoPeers[q] = [i \in Ip |-> 0]
  BY DEF NoPeers
<1>2. NoPeers \in [Count -> [Ip -> Nat]]
  BY DEF NoPeers
<1>3. \A i \in Ip : NoPeers["streams"][i] = 0 /\ NoPeers["sockets"][i] = 0
  BY <1>1 DEF Count
<1> QED
  BY <1>2, <1>3, MaxAssumption

\* The admin's switch, the shutdown and the restart.
LEMMA ServerStep ==
    ASSUME IInv, Server
    PROVE  IInv'
<1>1. CASE SwitchOn \/ SwitchOff \/ ClearSockets \/ Shutdown
  <2>1. peers' = peers /\ \A q \in Count : Counted(q)' = Counted(q)
    BY <1>1, CountedParts DEF Count, SwitchOn, SwitchOff, ClearSockets, Shutdown, requests
  <2>2. TypeOK' /\ ListenersOpen'
    BY <1>1 DEF IInv, TypeOK, ListenersOpen, SwitchOn, SwitchOff, ClearSockets, Shutdown, requests
  <2> QED
    BY <2>1, <2>2, Same DEF IInv
<1>2. CASE Restart
  <2>1. pc' \in [Conn -> {"idle"}] /\ listening' = {} /\ sockets' = {}
    BY <1>2 DEF Restart
  <2>2. \A q \in Count : Counted(q)' = {}
    BY <2>1, CountedParts DEF Count, Conn
  <2>3. CountsMatch'
    BY <1>2, <2>2, FS_EmptySet DEF CountsMatch, Restart, NoPeers
  <2>4. TypeOK'
    <3>1. /\ peers' \in [Count -> [Ip -> Nat]]
          /\ \A i \in Ip : peers'["streams"][i] <= MaxPerIp /\ peers'["sockets"][i] <= MaxPerIp
      BY <1>2, NoneTaken DEF Restart
    <3>2. listeners' \in 0..MaxStreams
      BY <1>2, MaxAssumption DEF Restart
    <3>3. enabled' \in BOOLEAN /\ clearing' \in BOOLEAN /\ shutting' \in BOOLEAN
      BY <1>2 DEF IInv, TypeOK, Restart
    <3> QED
      BY <2>1, <3>1, <3>2, <3>3 DEF TypeOK
  <2>5. ListenersOpen'
    BY <2>1 DEF ListenersOpen
  <2> QED
    BY <2>3, <2>4, <2>5 DEF IInv
<1> QED
  BY <1>1, <1>2 DEF Server

-----------------------------------------------------------------------------
\* The invariant holds initially and is kept by every step.
THEOREM InductiveInvariant == Spec => []IInv
<1>1. Init => IInv
  <2> SUFFICES ASSUME Init PROVE IInv
    OBVIOUS
  <2>1. \A q \in Count : Counted(q) = {}
    BY CountedParts DEF Init, Count, Conn
  <2>2. CountsMatch
    BY <2>1, FS_EmptySet DEF CountsMatch, Init, NoPeers
  <2>3. listeners \in 0..MaxStreams
    BY MaxAssumption DEF Init
  <2>4. pc \in [Conn -> {"idle"}] /\ sockets \subseteq Socket /\ listening = {}
    BY DEF Init
  <2>5. /\ peers \in [Count -> [Ip -> Nat]]
        /\ \A i \in Ip : peers["streams"][i] <= MaxPerIp /\ peers["sockets"][i] <= MaxPerIp
    BY NoneTaken DEF Init
  <2>6. enabled \in BOOLEAN /\ clearing \in BOOLEAN /\ shutting \in BOOLEAN
    BY DEF Init
  <2>7. TypeOK
    BY <2>3, <2>4, <2>5, <2>6 DEF TypeOK
  <2> QED
    BY <2>2, <2>4, <2>7 DEF IInv, ListenersOpen
<1>2. IInv /\ [Next]_vars => IInv'
  <2> SUFFICES ASSUME IInv, [Next]_vars PROVE IInv'
    OBVIOUS
  <2>1. CASE UNCHANGED vars
    <3>1. \A q \in Count : Counted(q)' = Counted(q)
      BY <2>1, CountedParts DEF vars, requests, Count
    <3>2. TypeOK' /\ ListenersOpen' /\ peers' = peers
      BY <2>1 DEF vars, requests, switch, IInv, TypeOK, ListenersOpen
    <3> QED
      BY <3>1, <3>2, Same DEF IInv
  <2>2. ASSUME NEW s \in Stream, StreamStep(s) PROVE IInv'
    BY <2>2, QuietStep, TakeSlotStep, LoseStep DEF StreamStep, Conn
  <2>3. ASSUME NEW k \in Socket, SocketStep(k) PROVE IInv'
    BY <2>3, QuietStep, TakeSlotStep, LoseStep DEF SocketStep, Conn
  <2>4. CASE Client
    BY <2>4, QuietStep, ListenStep, LoseStep DEF Client, Conn
  <2>5. CASE Server
    BY <2>5, ServerStep
  <2> QED
    BY <2>1, <2>2, <2>3, <2>4, <2>5 DEF Next
<1> QED
  BY <1>1, <1>2, PTL DEF Spec

\* Every variable keeps its type (mod.rs:42): no address ever has more than its places.
THEOREM TypeCorrect == Spec => []TypeOK
BY InductiveInvariant, PTL DEF IInv

\* PEERS counts what is open (mod.rs:124), for any number of addresses and connections.
THEOREM TallyIsRight == Spec => []CountsMatch
BY InductiveInvariant, PTL DEF IInv
=============================================================================
