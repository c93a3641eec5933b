---------------------------- MODULE FleetLinkProofs ----------------------------
(***************************************************************************)
(* Invariance proofs for FleetLink, for every number of robots, sockets,   *)
(* samples and mounts.                                                     *)
(***************************************************************************)
EXTENDS FleetLink, SequenceTheorems, TLAPS

Update == Robots \X Nat

\* Every variable has its type.
TypeOK ==
  /\ fleet \subseteq Robots
  /\ current \in [Robots -> Nat]
  /\ stream \subseteq Update
  /\ phase \in [Sockets -> {"unused", "connecting", "accepted", "open", "closing"}]
  /\ inbox \in [Sockets -> Seq(Update)]
  /\ clients \subseteq Sockets
  /\ handlers \subseteq Sockets
  /\ opened \in [Sockets -> Nat]
  /\ socket \in Sockets \cup {None}
  /\ timer \in BOOLEAN /\ desiredOpen \in BOOLEAN /\ hadConnected \in BOOLEAN
  /\ generation \in Nat
  /\ connection \in Connections
  /\ load \in [Loads -> {"none", "sent", "listed", "answered"}]
  /\ answer \in [Loads -> [known : SUBSET Robots, state : [Robots -> Nat]]]
  /\ robots \subseteq Robots
  /\ shown \in [Robots -> Nat]
  /\ latestState \in [Robots -> Nat]
  /\ synced \in BOOLEAN

-----------------------------------------------------------------------------
(* Types *)

\* A socket that is picked to be opened is one of the sockets.
LEMMA OpenSocketTypes ==
  ASSUME TypeOK, OpenSocket \/ CannotOpenSocket
  PROVE  /\ phase' \in [Sockets -> {"unused", "connecting", "accepted", "open", "closing"}]
         /\ inbox' \in [Sockets -> Seq(Update)]
         /\ clients' \subseteq Sockets
         /\ handlers' \subseteq Sockets
         /\ opened' \in [Sockets -> Nat]
         /\ socket' \in Sockets \cup {None}
         /\ timer' \in BOOLEAN
         /\ connection' \in Connections
<1>1. /\ Closed(socket) \in [Sockets -> {"unused", "connecting", "accepted", "open", "closing"}]
      /\ Unheard(socket) \in [Sockets -> Seq(Update)]
  <2>1. <<>> \in Seq(Update)
    OBVIOUS
  <2> QED BY <2>1 DEF TypeOK, Closed, Unheard
<1>2. CASE OpenSocket
  <2> DEFINE s == CHOOSE s \in {t \in Sockets : phase[t] = "unused"} : TRUE
  <2>1. s \in Sockets
    BY <1>2 DEF OpenSocket
  <2>2. /\ phase' = [Closed(socket) EXCEPT ![s] = "connecting"]
        /\ handlers' = (handlers \ {socket}) \cup {s}
        /\ opened' = [opened EXCEPT ![s] = generation]
        /\ socket' = s
    BY <1>2 DEF OpenSocket
  <2>3. /\ inbox' = Unheard(socket) /\ clients' = clients /\ timer' = FALSE
        /\ connection' \in {"RECONNECTING", "CONNECTING"}
    BY <1>2 DEF OpenSocket
  <2> HIDE DEF s
  <2>4. generation \in Nat /\ opened \in [Sockets -> Nat] /\ handlers \subseteq Sockets
        /\ clients \subseteq Sockets
    BY DEF TypeOK
  <2> QED BY <1>1, <2>1, <2>2, <2>3, <2>4 DEF Connections
<1>3. CASE CannotOpenSocket
  BY <1>1, <1>3 DEF TypeOK, CannotOpenSocket, Connections
<1> QED BY <1>2, <1>3

\* The initial state has the declared types.
LEMMA InitTypeOK == Init => TypeOK
<1>1. <<>> \in Seq(Update)
  OBVIOUS
<1>2. Init => answer \in [Loads -> [known : SUBSET Robots, state : [Robots -> Nat]]]
  BY DEF Init, Nobody
<1>3. Init => load \in [Loads -> {"none", "sent", "listed", "answered"}]
  BY DEF Init
<1>4. Init => /\ fleet \subseteq Robots /\ current \in [Robots -> Nat] /\ stream \subseteq Update
              /\ shown \in [Robots -> Nat] /\ latestState \in [Robots -> Nat]
  BY FleetAssumption DEF Init
<1>5. Init => /\ phase \in [Sockets -> {"unused", "connecting", "accepted", "open", "closing"}]
              /\ inbox \in [Sockets -> Seq(Update)] /\ opened \in [Sockets -> Nat]
  BY <1>1 DEF Init
<1>6. Init => /\ clients \subseteq Sockets /\ handlers \subseteq Sockets /\ robots \subseteq Robots
              /\ socket \in Sockets \cup {None} /\ generation \in Nat
              /\ connection \in Connections
  BY DEF Init, Connections
<1>7. Init => /\ timer \in BOOLEAN /\ desiredOpen \in BOOLEAN /\ hadConnected \in BOOLEAN
              /\ synced \in BOOLEAN
  BY DEF Init
<1> QED BY <1>2, <1>3, <1>4, <1>5, <1>6, <1>7 DEF TypeOK

\* Every step of the server, the network and the dashboard keeps the types.
LEMMA NextTypeOK == TypeOK /\ [Next]_vars => TypeOK'
<1> SUFFICES ASSUME TypeOK, [Next]_vars PROVE TypeOK'
  OBVIOUS
<1>a. <<>> \in Seq(Update)
  OBVIOUS
<1>b. Nobody \in [known : SUBSET Robots, state : [Robots -> Nat]]
  BY DEF Nobody
<1>1. ASSUME NEW r \in Robots, Ingest(r) PROVE TypeOK'
  BY <1>1 DEF TypeOK, Ingest, Update, wires, adapter, facade, requests
<1>2. ASSUME NEW r \in Robots, Seed(r) PROVE TypeOK'
  BY <1>2 DEF TypeOK, Seed, wires, adapter, facade, requests
<1>3. ASSUME NEW e \in stream, Broadcast(e) PROVE TypeOK'
  <2>1. inbox' \in [Sockets -> Seq(Update)]
    BY <1>3 DEF Broadcast, PublishToOpenClients, TypeOK
  <2>2. clients' \subseteq Sockets
    BY <1>3 DEF Broadcast, PublishToOpenClients, Drop, TypeOK
  <2> QED BY <1>3, <2>1, <2>2 DEF TypeOK, Broadcast, adapter, facade, requests
<1>4. CASE GatewayRestarts
  BY <1>4 DEF TypeOK, GatewayRestarts, Drop, server, adapter, facade, requests
<1>5. ASSUME NEW k \in Loads, ServeRobots(k) PROVE TypeOK'
  BY <1>5 DEF TypeOK, ServeRobots, server, wires, adapter, facade
<1>6. ASSUME NEW k \in Loads, ServeStates(k) PROVE TypeOK'
  <2>1. FleetBody(answer[k].known, current) \in [Robots -> Nat]
    BY DEF TypeOK, FleetBody
  <2> QED BY <1>6, <2>1 DEF TypeOK, ServeStates, server, wires, adapter, facade
<1>7. ASSUME NEW k \in Loads, ApplySnapshot(k) PROVE TypeOK'
  <2>1. /\ robots' \subseteq Robots
        /\ shown' \in [Robots -> Nat]
        /\ latestState' \in [Robots -> Nat]
    BY <1>7 DEF TypeOK, ApplySnapshot, Newer
  <2>2. synced' \in BOOLEAN
    BY <1>7 DEF TypeOK, ApplySnapshot
  <2> QED BY <1>7, <1>b, <2>1, <2>2 DEF TypeOK, ApplySnapshot, server, wires, adapter
<1>8. ASSUME NEW k \in Loads, FailLoad(k) PROVE TypeOK'
  BY <1>8, <1>b DEF TypeOK, FailLoad, server, wires, adapter
<1>9. ASSUME NEW s \in Sockets, Accept(s) PROVE TypeOK'
  BY <1>9 DEF TypeOK, Accept, server, adapter, facade, requests
<1>10. ASSUME NEW s \in Sockets, SocketOpens(s) PROVE TypeOK'
  <2>1. hadConnected' \in BOOLEAN /\ connection' \in Connections
    BY <1>10 DEF TypeOK, SocketOpens, Connections
  <2>2. Reload \/ UNCHANGED requests
    BY <1>10 DEF SocketOpens
  <2>3. /\ load' \in [Loads -> {"none", "sent", "listed", "answered"}]
        /\ answer' \in [Loads -> [known : SUBSET Robots, state : [Robots -> Nat]]]
    <3>1. CASE Reload
      BY <3>1, <1>b DEF TypeOK, Reload
    <3>2. CASE UNCHANGED requests
      BY <3>2 DEF TypeOK, requests
    <3> QED BY <2>2, <3>1, <3>2
  <2> QED BY <1>10, <2>1, <2>3 DEF TypeOK, SocketOpens, server
<1>11. ASSUME NEW s \in Sockets, MessageArrives(s) PROVE TypeOK'
  <2>1. inbox[s] \in Seq(Update) /\ inbox[s] # <<>>
    BY <1>11 DEF TypeOK, MessageArrives
  <2>2. Head(inbox[s]) \in Update /\ Tail(inbox[s]) \in Seq(Update)
    BY <2>1
  <2>3. Head(inbox[s])[1] \in Robots /\ Head(inbox[s])[2] \in Nat
    BY <2>2 DEF Update
  <2>4. /\ robots' \subseteq Robots
        /\ shown' \in [Robots -> Nat]
        /\ latestState' \in [Robots -> Nat]
    BY <1>11, <2>3 DEF TypeOK, MessageArrives, ApplyRobotStateUpdated, facade
  <2> QED BY <1>11, <2>2, <2>4 DEF TypeOK, MessageArrives, server, adapter, requests
<1>12. ASSUME NEW s \in Sockets, SocketCloses(s) PROVE TypeOK'
  <2>1. /\ phase' \in [Sockets -> {"unused", "connecting", "accepted", "open", "closing"}]
        /\ inbox' \in [Sockets -> Seq(Update)]
        /\ clients' \subseteq Sockets
        /\ handlers' \subseteq Sockets
        /\ opened' \in [Sockets -> Nat]
    BY <1>12, <1>a DEF TypeOK, SocketCloses, Gone, Drop
  <2>2. /\ socket' \in Sockets \cup {None} /\ timer' \in BOOLEAN
        /\ connection' \in Connections /\ synced' \in BOOLEAN
    BY <1>12 DEF TypeOK, SocketCloses, Connections
  <2> QED BY <1>12, <2>1, <2>2 DEF TypeOK, SocketCloses, server, facade, requests
<1>13. CASE TimerFires
  <2>1. CASE desiredOpen
    BY <1>13, <2>1, OpenSocketTypes DEF TypeOK, TimerFires, server, facade, requests
  <2>2. CASE ~desiredOpen
    BY <1>13, <2>2 DEF TypeOK, TimerFires, server, wires, facade, requests
  <2> QED BY <2>1, <2>2
<1>14. CASE Mount
  BY <1>14, OpenSocketTypes DEF TypeOK, Mount, Connect, server
<1>15. CASE Destroy
  <2>1. /\ Closed(socket) \in [Sockets -> {"unused", "connecting", "accepted", "open", "closing"}]
        /\ Unheard(socket) \in [Sockets -> Seq(Update)]
    BY <1>a DEF TypeOK, Closed, Unheard
  <2>2. /\ phase' \in [Sockets -> {"unused", "connecting", "accepted", "open", "closing"}]
        /\ inbox' \in [Sockets -> Seq(Update)]
        /\ clients' \subseteq Sockets /\ handlers' \subseteq Sockets
        /\ opened' \in [Sockets -> Nat] /\ socket' \in Sockets \cup {None}
        /\ generation' \in Nat /\ connection' \in Connections
    BY <1>15, <2>1 DEF TypeOK, Destroy, Disconnect, Disconnected, Connections
  <2>3. /\ timer' \in BOOLEAN /\ desiredOpen' \in BOOLEAN /\ hadConnected' \in BOOLEAN
        /\ synced' \in BOOLEAN
    BY <1>15 DEF Destroy, Disconnect, Disconnected
  <2>4. /\ load' \in [Loads -> {"none", "sent", "listed", "answered"}]
        /\ answer' \in [Loads -> [known : SUBSET Robots, state : [Robots -> Nat]]]
    BY <1>15, <1>b DEF Destroy
  <2>5. /\ robots' \subseteq Robots /\ shown' \in [Robots -> Nat]
        /\ latestState' \in [Robots -> Nat]
    BY <1>15 DEF Destroy, NewFacade
  <2> QED BY <1>15, <2>2, <2>3, <2>4, <2>5 DEF TypeOK, Destroy, server
<1>16. CASE UNCHANGED vars
  BY <1>16 DEF TypeOK, vars, server, wires, adapter, facade, requests
<1> QED
  BY <1>1, <1>2, <1>3, <1>4, <1>5, <1>6, <1>7, <1>8, <1>9, <1>10, <1>11, <1>12, <1>13, <1>14,
     <1>15, <1>16 DEF Next

\* Type correctness: every variable of the link and the facades keeps its type.
THEOREM TypeCorrect == Spec => []TypeOK
BY InitTypeOK, NextTypeOK, PTL DEF Spec

-----------------------------------------------------------------------------
(* The facade *)

\* FleetFacade: every step writes the list it shows and latestState alike.
LEMMA NextShown == TypeOK /\ ShownIsLatest /\ [Next]_vars => ShownIsLatest'
<1> SUFFICES ASSUME TypeOK, ShownIsLatest, [Next]_vars PROVE ShownIsLatest'
  OBVIOUS
<1>1. CASE UNCHANGED facade
  BY <1>1 DEF ShownIsLatest, facade
<1>2. ASSUME NEW k \in Loads, ApplySnapshot(k) PROVE ShownIsLatest'
  BY <1>2 DEF ApplySnapshot, ShownIsLatest
<1>3. ASSUME NEW s \in Sockets, MessageArrives(s) PROVE ShownIsLatest'
  <2>1. /\ latestState \in [Robots -> Nat] /\ shown \in [Robots -> Nat] /\ robots \subseteq Robots
        /\ \A r \in robots : shown[r] = latestState[r]
    BY DEF TypeOK, ShownIsLatest
  <2>2. UNCHANGED facade \/ \E r, t : ApplyRobotStateUpdated(r, t)
    BY <1>3 DEF MessageArrives
  <2>3. ASSUME NEW r, NEW t, ApplyRobotStateUpdated(r, t), ~UNCHANGED facade PROVE ShownIsLatest'
    <3>1. /\ latestState' = [latestState EXCEPT ![r] = t] /\ robots' = robots
          /\ shown' = IF r \in robots THEN [shown EXCEPT ![r] = t] ELSE shown
      BY <2>3 DEF ApplyRobotStateUpdated
    <3> QED BY <2>1, <3>1 DEF ShownIsLatest
  <2> QED BY <1>1, <2>2, <2>3
<1>4. CASE Destroy
  BY <1>4 DEF Destroy, NewFacade, ShownIsLatest
<1>5. CASE UNCHANGED vars
  BY <1>5, <1>1 DEF vars
<1> QED
  BY <1>1, <1>2, <1>3, <1>4, <1>5
  DEF Next, Ingest, Seed, Broadcast, GatewayRestarts, ServeRobots, ServeStates, FailLoad, Accept,
      SocketOpens, SocketCloses, TimerFires, Mount, facade

\* Whatever snapshots and messages arrive in whatever order, the list FleetFacade
\* shows and the map it judges them by agree on every robot.
THEOREM ShownLatest == Spec => []ShownIsLatest
<1>1. Init => ShownIsLatest
  BY DEF Init, ShownIsLatest
<1> QED BY <1>1, NextShown, TypeCorrect, PTL DEF Spec

-----------------------------------------------------------------------------
(* The link *)

\* Only the current socket has callbacks, and they are of this generation.
OnlyCurrentListens ==
  /\ handlers = {socket} \ {None}
  /\ \A s \in handlers : opened[s] = generation

\* A link that is wanted has a socket or a timer, an unwanted one neither.
WantedIsTried ==
  /\ desiredOpen => (socket # None) # timer
  /\ ~desiredOpen => socket = None /\ ~timer

ConnectedIsOpen == connection = "CONNECTED" <=> socket # None /\ phase[socket] = "open"

LinkInv == OnlyCurrentListens /\ WantedIsTried /\ ConnectedIsOpen

\* OneLink is what the invariant says of the current generation.
LEMMA LinkInvImplies == TypeOK /\ LinkInv => OneLink
BY FleetAssumption
DEF TypeOK, LinkInv, OnlyCurrentListens, WantedIsTried, ConnectedIsOpen, OneLink, Listens

\* Opening a socket, or failing to, replaces the one there was.
LEMMA OpenSocketLink ==
  ASSUME TypeOK, LinkInv, OpenSocket \/ CannotOpenSocket, desiredOpen' = TRUE,
         generation' = generation
  PROVE  LinkInv'
<1>1. CASE OpenSocket
  <2> DEFINE s == CHOOSE s \in {t \in Sockets : phase[t] = "unused"} : TRUE
  <2>1. s \in Sockets
    BY <1>1 DEF OpenSocket
  <2>2. /\ phase' = [Closed(socket) EXCEPT ![s] = "connecting"]
        /\ handlers' = (handlers \ {socket}) \cup {s}
        /\ opened' = [opened EXCEPT ![s] = generation]
        /\ socket' = s
        /\ timer' = FALSE
        /\ connection' \in {"RECONNECTING", "CONNECTING"}
    BY <1>1 DEF OpenSocket
  <2>3. s # None
    BY <2>1, FleetAssumption
  <2> HIDE DEF s
  <2>4. OnlyCurrentListens'
    BY <2>1, <2>2, <2>3 DEF TypeOK, LinkInv, OnlyCurrentListens
  <2>5. WantedIsTried'
    BY <2>2, <2>3 DEF WantedIsTried
  <2>6. Closed(socket) \in [Sockets -> {"unused", "connecting", "accepted", "open", "closing"}]
    BY DEF TypeOK, Closed
  <2>7. ConnectedIsOpen'
    BY <2>1, <2>2, <2>6 DEF ConnectedIsOpen
  <2> QED BY <2>4, <2>5, <2>7 DEF LinkInv
<1>2. CASE CannotOpenSocket
  BY <1>2 DEF CannotOpenSocket, LinkInv, OnlyCurrentListens, WantedIsTried, ConnectedIsOpen
<1> QED BY <1>1, <1>2

\* No step of the adapter, the browser or the network breaks the link.
LEMMA NextLinkInv == TypeOK /\ LinkInv /\ [Next]_vars => LinkInv'
<1> SUFFICES ASSUME TypeOK, LinkInv, [Next]_vars PROVE LinkInv'
  OBVIOUS
<1> USE FleetAssumption
<1>1. CASE UNCHANGED <<adapter, phase, handlers, opened>>
  BY <1>1 DEF adapter, LinkInv, OnlyCurrentListens, WantedIsTried, ConnectedIsOpen
<1>2. ASSUME NEW s \in Sockets, Accept(s) PROVE LinkInv'
  BY <1>2 DEF Accept, adapter, TypeOK, LinkInv, OnlyCurrentListens, WantedIsTried, ConnectedIsOpen
<1>3. ASSUME NEW s \in Sockets, SocketOpens(s) PROVE LinkInv'
  <2>1. OnlyCurrentListens' /\ WantedIsTried'
    BY <1>3 DEF SocketOpens, LinkInv, OnlyCurrentListens, WantedIsTried
  <2>2. CASE Listens(s)
    <3>1. s = socket
      BY <2>2 DEF LinkInv, OnlyCurrentListens, Listens
    <3>2. phase' = [phase EXCEPT ![s] = "open"] /\ connection' = "CONNECTED" /\ socket' = socket
      BY <1>3, <2>2 DEF SocketOpens
    <3> QED BY <2>1, <3>1, <3>2 DEF TypeOK, LinkInv, ConnectedIsOpen
  <2>3. CASE ~Listens(s)
    <3>1. s # socket
      BY <2>3 DEF LinkInv, OnlyCurrentListens, Listens
    <3>2. phase' = [phase EXCEPT ![s] = "open"] /\ UNCHANGED <<connection, socket>>
      BY <1>3, <2>3 DEF SocketOpens
    <3> QED BY <2>1, <3>1, <3>2 DEF TypeOK, LinkInv, ConnectedIsOpen
  <2> QED BY <2>2, <2>3
<1>4. ASSUME NEW s \in Sockets, SocketCloses(s) PROVE LinkInv'
  <2>1. /\ phase' = [phase EXCEPT ![s] = "unused"] /\ handlers' = handlers \ {s}
        /\ opened' = [opened EXCEPT ![s] = 0]
        /\ UNCHANGED <<desiredOpen, generation>>
    BY <1>4 DEF SocketCloses, Gone
  <2>2. CASE Listens(s)
    <3>1. s = socket /\ desiredOpen
      BY <2>2 DEF LinkInv, OnlyCurrentListens, WantedIsTried, Listens
    <3>2. socket' = None /\ timer' = TRUE /\ connection' = "RECONNECTING"
      BY <1>4, <2>2, <3>1 DEF SocketCloses
    <3> QED
      BY <2>1, <3>1, <3>2 DEF LinkInv, OnlyCurrentListens, WantedIsTried, ConnectedIsOpen
  <2>3. CASE ~Listens(s)
    <3>1. s # socket
      BY <2>3 DEF LinkInv, OnlyCurrentListens, Listens
    <3>2. UNCHANGED <<socket, timer, connection>>
      BY <1>4, <2>3 DEF SocketCloses
    <3> QED
      BY <2>1, <3>1, <3>2
      DEF TypeOK, LinkInv, OnlyCurrentListens, WantedIsTried, ConnectedIsOpen
  <2> QED BY <2>2, <2>3
<1>5. CASE TimerFires
  <2>1. desiredOpen
    BY <1>5 DEF TimerFires, LinkInv, WantedIsTried
  <2>2. (OpenSocket \/ CannotOpenSocket) /\ desiredOpen' = TRUE /\ generation' = generation
    BY <1>5, <2>1 DEF TimerFires, TypeOK
  <2> QED BY <2>2, OpenSocketLink
<1>6. CASE Mount
  BY <1>6, OpenSocketLink DEF Mount, Connect
<1>7. CASE Destroy
  BY <1>7 DEF Destroy, Disconnect, Disconnected, LinkInv, OnlyCurrentListens, WantedIsTried,
              ConnectedIsOpen
<1>8. CASE UNCHANGED vars
  BY <1>8, <1>1 DEF vars, wires
<1> QED
  BY <1>1, <1>2, <1>3, <1>4, <1>5, <1>6, <1>7, <1>8
  DEF Next, Ingest, Seed, Broadcast, GatewayRestarts, ServeRobots, ServeStates, ApplySnapshot,
      FailLoad, MessageArrives, wires

LEMMA InitLinkInv == Init => LinkInv
BY FleetAssumption DEF Init, LinkInv, OnlyCurrentListens, WantedIsTried, ConnectedIsOpen

\* WebSocketFleetRealtimeDataSource: whatever fails, closes, reconnects or is mounted
\* again, there is one link and connectionState tells the truth about it.
THEOREM LinkIsOne == Spec => []OneLink
BY InitTypeOK, NextTypeOK, InitLinkInv, NextLinkInv, LinkInvImplies, PTL DEF Spec

-----------------------------------------------------------------------------
(* Nothing is ahead of the database *)

\* The updates the database has come to.
Past == {e \in Update : e[2] <= current[e[1]]}

\* What is on its way to the screen, and what is on it, was in the database.
BoundInv ==
  /\ FirstFleet \subseteq fleet
  /\ stream \subseteq Past
  /\ inbox \in [Sockets -> Seq(Past)]
  /\ \A k \in Loads, r \in Robots : answer[k].state[r] <= current[r]
  /\ \A r \in Robots : latestState[r] <= current[r] /\ shown[r] <= current[r]

LEMMA InitBoundInv == Init => BoundInv
<1>1. <<>> \in Seq(Past)
  OBVIOUS
<1> QED BY <1>1, FleetAssumption DEF Init, BoundInv, Nobody, Past

\* An unheard socket loses what it held.
LEMMA UnheardBound ==
  ASSUME TypeOK, BoundInv
  PROVE  Unheard(socket) \in [Sockets -> Seq(Past)]
<1>1. <<>> \in Seq(Past)
  OBVIOUS
<1> QED BY <1>1 DEF TypeOK, BoundInv, Unheard

\* Ingest only moves the database on, and every other step passes on what it finds.
LEMMA NextBoundInv == TypeOK /\ TypeOK' /\ BoundInv /\ [Next]_vars => BoundInv'
<1> SUFFICES ASSUME TypeOK, TypeOK', BoundInv, [Next]_vars PROVE BoundInv'
  OBVIOUS
<1>1. ASSUME NEW r \in Robots, Ingest(r) PROVE BoundInv'
  <2>1. \A q \in Robots : current[q] \in Nat /\ current'[q] \in Nat /\ current[q] <= current'[q]
    <3>1. current \in [Robots -> Nat]
      BY DEF TypeOK
    <3>2. current' = [current EXCEPT ![r] = @ + 1]
      BY <1>1 DEF Ingest
    <3> QED BY <3>1, <3>2
  <2>2. Past \subseteq Past'
    BY <2>1 DEF Past, Update
  <2>3. <<r, current[r] + 1>> \in Past'
    BY <1>1 DEF Ingest, TypeOK, Past, Update
  <2>4. stream' \subseteq Past'
    BY <1>1, <2>2, <2>3 DEF Ingest, BoundInv
  <2>5. inbox' \in [Sockets -> Seq(Past')]
    <3>1. inbox' = inbox
      BY <1>1 DEF Ingest, wires
    <3>2. ASSUME NEW s \in Sockets PROVE inbox[s] \in Seq(Past')
      <4>1. inbox[s] \in Seq(Past)
        BY DEF BoundInv
      <4> QED BY <4>1, <2>2, SeqMonotonic
    <3> QED BY <3>1, <3>2 DEF TypeOK
  <2>6. \A k \in Loads, q \in Robots : answer'[k].state[q] <= current'[q]
    <3>1. answer' = answer
      BY <1>1 DEF Ingest, requests
    <3> QED BY <3>1, <2>1 DEF TypeOK, BoundInv
  <2>7. \A q \in Robots : latestState'[q] <= current'[q] /\ shown'[q] <= current'[q]
    <3>1. latestState' = latestState /\ shown' = shown
      BY <1>1 DEF Ingest, facade
    <3>2. \A q \in Robots :
            /\ latestState[q] \in Nat /\ shown[q] \in Nat /\ current[q] \in Nat
            /\ latestState[q] <= current[q] /\ shown[q] <= current[q]
      BY DEF TypeOK, BoundInv
    <3>3. \A q \in Robots : current'[q] \in Nat /\ current[q] <= current'[q]
      BY <2>1 DEF TypeOK
    <3> QED BY <3>1, <3>2, <3>3
  <2>8. fleet' = fleet
    BY <1>1 DEF Ingest
  <2> QED BY <2>4, <2>5, <2>6, <2>7, <2>8 DEF BoundInv
<1>2. CASE current' = current /\ inbox' \in [Sockets -> Seq(Past)] /\ stream' \subseteq stream
           /\ fleet \subseteq fleet' /\ UNCHANGED <<facade, answer>>
  <2>1. Past' = Past
    BY <1>2 DEF Past
  <2> QED BY <1>2, <2>1 DEF BoundInv, facade
<1>3. ASSUME NEW e \in stream, Broadcast(e) PROVE BoundInv'
  <2>1. e \in Past
    BY DEF BoundInv
  <2>2. inbox' \in [Sockets -> Seq(Past)]
    BY <1>3, <2>1 DEF Broadcast, PublishToOpenClients, BoundInv
  <2> QED BY <1>2, <1>3, <2>2 DEF Broadcast, requests
<1>4. ASSUME NEW k \in Loads, ServeRobots(k) PROVE BoundInv'
  <2>1. \A j \in Loads : answer'[j].state = answer[j].state
    BY <1>4 DEF ServeRobots, TypeOK
  <2> QED BY <1>4, <2>1 DEF ServeRobots, BoundInv, Past, server, wires, facade
<1>5. ASSUME NEW k \in Loads, ServeStates(k) PROVE BoundInv'
  <2>1. \A j \in Loads : answer'[j].state =
          IF j = k THEN FleetBody(answer[k].known, current) ELSE answer[j].state
    <3>1. answer \in [Loads -> [known : SUBSET Robots, state : [Robots -> Nat]]]
      BY DEF TypeOK
    <3>2. answer' = [answer EXCEPT ![k].state = FleetBody(answer[k].known, current)]
      BY <1>5 DEF ServeStates
    <3> QED BY <3>1, <3>2
  <2>2. \A r \in Robots : FleetBody(answer[k].known, current)[r] <= current[r]
    BY DEF FleetBody, TypeOK
  <2>3. \A j \in Loads, r \in Robots : answer'[j].state[r] <= current[r]
    BY <2>1, <2>2 DEF BoundInv
  <2> QED BY <1>5, <2>3 DEF ServeStates, BoundInv, Past, server, wires, facade
<1>6. ASSUME NEW k \in Loads, ApplySnapshot(k) PROVE BoundInv'
  <2>1. \A r \in Robots : latestState'[r] <= current[r] /\ shown'[r] <= current[r]
    BY <1>6 DEF ApplySnapshot, Newer, BoundInv, TypeOK
  <2>2. \A j \in Loads, r \in Robots : answer'[j].state[r] <= current[r]
    BY <1>6 DEF ApplySnapshot, BoundInv, TypeOK, Nobody
  <2> QED BY <1>6, <2>1, <2>2 DEF ApplySnapshot, BoundInv, Past, server, wires
<1>7. ASSUME NEW k \in Loads, FailLoad(k) PROVE BoundInv'
  <2>1. \A j \in Loads, r \in Robots : answer'[j].state[r] <= current[r]
    BY <1>7 DEF FailLoad, BoundInv, TypeOK, Nobody
  <2> QED BY <1>7, <2>1 DEF FailLoad, BoundInv, Past, server, wires
<1>8. ASSUME NEW s \in Sockets, SocketOpens(s) PROVE BoundInv'
  <2>1. Reload \/ UNCHANGED requests
    BY <1>8 DEF SocketOpens
  <2>2. \A j \in Loads, r \in Robots : answer'[j].state[r] <= current[r]
    <3>1. CASE Reload
      BY <3>1 DEF Reload, BoundInv, TypeOK, Nobody
    <3>2. CASE UNCHANGED requests
      BY <3>2 DEF requests, BoundInv
    <3> QED BY <2>1, <3>1, <3>2
  <2> QED BY <1>8, <2>2 DEF SocketOpens, BoundInv, Past, server
<1>9. ASSUME NEW s \in Sockets, MessageArrives(s) PROVE BoundInv'
  <2>1. inbox[s] \in Seq(Past) /\ inbox[s] # <<>>
    BY <1>9 DEF BoundInv, MessageArrives
  <2>2. Head(inbox[s]) \in Past /\ Tail(inbox[s]) \in Seq(Past)
    BY <2>1
  <2>3. inbox' \in [Sockets -> Seq(Past)]
    BY <1>9, <2>2 DEF MessageArrives, BoundInv
  <2>4. \A r \in Robots : latestState'[r] <= current[r] /\ shown'[r] <= current[r]
    BY <1>9, <2>2
    DEF MessageArrives, ApplyRobotStateUpdated, BoundInv, TypeOK, Past, Update, facade
  <2> QED BY <1>9, <2>3, <2>4 DEF MessageArrives, BoundInv, Past, server, requests
<1>10. ASSUME NEW s \in Sockets, SocketCloses(s) PROVE BoundInv'
  <2>1. <<>> \in Seq(Past)
    OBVIOUS
  <2>2. inbox' \in [Sockets -> Seq(Past)]
    BY <1>10, <2>1 DEF SocketCloses, Gone, BoundInv
  <2> QED BY <1>10, <1>2, <2>2 DEF SocketCloses, server, requests
<1>11. ASSUME TimerFires \/ Mount PROVE BoundInv'
  <2>1. inbox' = inbox \/ inbox' = Unheard(socket)
    BY <1>11 DEF TimerFires, Mount, Connect, OpenSocket, CannotOpenSocket, wires
  <2>2. inbox' \in [Sockets -> Seq(Past)]
    BY <2>1, UnheardBound DEF BoundInv
  <2> QED BY <1>11, <1>2, <2>2 DEF TimerFires, Mount, server, facade, requests
<1>12. CASE Destroy
  <2>1. inbox' \in [Sockets -> Seq(Past)]
    BY <1>12, UnheardBound DEF Destroy, Disconnect, Disconnected
  <2>2. \A j \in Loads, r \in Robots : answer'[j].state[r] <= current[r]
    BY <1>12 DEF Destroy, TypeOK, Nobody
  <2> QED BY <1>12, <2>1, <2>2 DEF Destroy, NewFacade, BoundInv, Past, server, TypeOK
<1>13. CASE Next /\ UNCHANGED <<current, stream, inbox, facade, answer>> /\ fleet \subseteq fleet'
  BY <1>13, <1>2 DEF BoundInv
<1>14. CASE UNCHANGED vars
  BY <1>14, <1>2 DEF vars, server, wires, requests, BoundInv
<1> QED
  BY <1>1, <1>3, <1>4, <1>5, <1>6, <1>7, <1>8, <1>9, <1>10, <1>11, <1>12, <1>13, <1>14
  DEF Next, Seed, GatewayRestarts, Accept, server, wires, requests

-----------------------------------------------------------------------------
(* A robot's state never goes back *)

LEMMA NextNeverRegresses ==
  ASSUME TypeOK, TypeOK', BoundInv', ShownIsLatest, [Next]_vars
  PROVE  /\ desiredOpen /\ desiredOpen' =>
              \A r \in robots \cap robots' : shown'[r] >= shown[r]
         /\ \A r \in robots' : shown'[r] <= current'[r]
<1>1. \A r \in robots' : shown'[r] <= current'[r]
  BY DEF BoundInv, TypeOK
<1> SUFFICES ASSUME desiredOpen, desiredOpen', NEW r \in robots \cap robots'
             PROVE  shown'[r] >= shown[r]
  BY <1>1
<1>2. r \in Robots /\ shown[r] \in Nat /\ latestState[r] = shown[r]
  BY DEF TypeOK, ShownIsLatest
<1>3. CASE shown' = shown
  BY <1>2, <1>3
<1>4. ASSUME NEW k \in Loads, ApplySnapshot(k) PROVE shown'[r] >= shown[r]
  <2>1. /\ shown'[r] = Newer(answer[k].state[r], latestState[r])
        /\ answer[k].state[r] \in Nat
    BY <1>2, <1>4 DEF ApplySnapshot, TypeOK
  <2> QED BY <1>2, <2>1 DEF Newer
<1>5. ASSUME NEW s \in Sockets, MessageArrives(s) PROVE shown'[r] >= shown[r]
  <2>1. inbox[s] \in Seq(Update) /\ inbox[s] # <<>>
    BY <1>5 DEF TypeOK, MessageArrives
  <2>2. Head(inbox[s]) \in Update
    BY <2>1
  <2>3. ApplyRobotStateUpdated(Head(inbox[s])[1], Head(inbox[s])[2]) \/ UNCHANGED facade
    BY <1>5 DEF MessageArrives
  <2>4. shown \in [Robots -> Nat] /\ Head(inbox[s])[2] \in Nat /\ Head(inbox[s])[1] \in Robots
    BY <2>2 DEF TypeOK, Update
  <2> QED BY <1>2, <1>3, <2>3, <2>4 DEF ApplyRobotStateUpdated, facade
<1>6. CASE Destroy
  BY <1>6 DEF Destroy, Disconnect, Disconnected
<1>7. CASE UNCHANGED vars
  BY <1>3, <1>7 DEF vars, facade
<1> QED
  BY <1>3, <1>4, <1>5, <1>6, <1>7
  DEF Next, Ingest, Seed, Broadcast, GatewayRestarts, ServeRobots, ServeStates, FailLoad, Accept,
      SocketOpens, SocketCloses, TimerFires, Mount, facade

\* docs/adr/0020: no snapshot and no message, however late or often it arrives, makes
\* a robot on the screen go back or shows it ahead of the database.
THEOREM StateNeverRegresses == Spec => NeverRegresses
<1>1. Init => ShownIsLatest
  BY DEF Init, ShownIsLatest
<1> QED
  BY <1>1, InitTypeOK, NextTypeOK, NextShown, InitBoundInv, NextBoundInv, NextNeverRegresses, PTL
  DEF Spec, NeverRegresses

-----------------------------------------------------------------------------
(* What a reload catches up with *)

\* The newest state of r has been seen or is still to come.
Heard(r) ==
  \/ latestState[r] = current[r]
  \/ <<r, current[r]>> \in stream
  \/ \E i \in 1..Len(inbox[socket]) : inbox[socket][i] = <<r, current[r]>>

\* Once the reload of an open link has been answered, what its answer lacks is to come,
\* as long as the gateway has not given the socket up.
AnswerCatchesUp ==
  connection = "CONNECTED" /\ socket \in clients =>
    \A r \in FirstFleet :
      /\ synced => Heard(r)
      /\ load["replay"] = "answered" => Heard(r) \/ answer["replay"].state[r] = current[r]

\* Every answer lists the robots that were there from the start.
AnswersListFirst ==
  \A k \in Loads : load[k] \in {"listed", "answered"} => FirstFleet \subseteq answer[k].known

\* A reload is asked for by a connection that is not the first, and counts for the
\* connection it was applied in.
ReloadsBelong ==
  /\ synced => connection = "CONNECTED"
  /\ ~hadConnected => load["replay"] = "none"

CatchInv == AnswerCatchesUp /\ AnswersListFirst /\ ReloadsBelong

LEMMA CatchInvImplies == TypeOK /\ ShownIsLatest /\ CatchInv => ReloadCatchesUp
BY DEF ShownIsLatest, CatchInv, AnswerCatchesUp, ReloadCatchesUp, OnItsWay, Heard

\* A robot that was heard of is still heard of after a step that takes nothing away.
LEMMA HeardKept ==
  ASSUME NEW r \in Robots, Heard(r), UNCHANGED <<current, socket>>, stream \subseteq stream',
         latestState'[r] = latestState[r], inbox'[socket] = inbox[socket]
  PROVE  Heard(r)'
BY DEF Heard

\* Reloads belong to their connection: opening, closing and mounting begin anew.
LEMMA NextReloadsBelong ==
  ASSUME TypeOK, LinkInv, ReloadsBelong, [Next]_vars
  PROVE  ReloadsBelong'
<1>1. CASE UNCHANGED <<synced, connection, hadConnected, load>>
  BY <1>1 DEF ReloadsBelong
<1>2. ASSUME NEW k \in Loads, ServeRobots(k) \/ ServeStates(k) \/ FailLoad(k) PROVE ReloadsBelong'
  <2>1. UNCHANGED <<synced, connection, hadConnected>>
    BY <1>2 DEF ServeRobots, ServeStates, FailLoad, adapter
  <2>2. load["replay"] = "none" => load'["replay"] = "none"
    BY <1>2 DEF ServeRobots, ServeStates, FailLoad, TypeOK, Loads
  <2> QED BY <2>1, <2>2 DEF ReloadsBelong
<1>3. ASSUME NEW k \in Loads, ApplySnapshot(k) PROVE ReloadsBelong'
  <2>1. UNCHANGED <<connection, hadConnected>> /\ load[k] = "answered"
    BY <1>3 DEF ApplySnapshot, adapter
  <2>2. load["replay"] = "none" => load'["replay"] = "none"
    BY <1>3 DEF ApplySnapshot, TypeOK, Loads
  <2>3. synced' => connection = "CONNECTED"
    BY <1>3 DEF ApplySnapshot, ReloadsBelong
  <2> QED BY <2>1, <2>2, <2>3 DEF ReloadsBelong
<1>4. ASSUME NEW s \in Sockets, SocketOpens(s) PROVE ReloadsBelong'
  <2>1. CASE Listens(s)
    BY <1>4, <2>1 DEF SocketOpens, ReloadsBelong
  <2>2. CASE ~Listens(s)
    BY <1>4, <2>2 DEF SocketOpens, ReloadsBelong, requests
  <2> QED BY <2>1, <2>2
<1>5. ASSUME NEW s \in Sockets, SocketCloses(s) PROVE ReloadsBelong'
  <2>1. UNCHANGED <<hadConnected, load>>
    BY <1>5 DEF SocketCloses, requests
  <2>2. synced' = FALSE \/ UNCHANGED <<synced, connection>>
    BY <1>5 DEF SocketCloses
  <2> QED BY <2>1, <2>2 DEF ReloadsBelong
<1>6. CASE TimerFires \/ Mount
  <2>1. UNCHANGED <<hadConnected, synced>>
    BY <1>6 DEF TimerFires, Mount
  <2>2. ~synced
    BY <1>6, FleetAssumption
    DEF TimerFires, Mount, Connect, LinkInv, WantedIsTried, ConnectedIsOpen, ReloadsBelong, TypeOK
  <2>3. load["replay"] = "none" => load'["replay"] = "none"
    BY <1>6 DEF TimerFires, Mount, requests, TypeOK, Loads
  <2> QED BY <2>1, <2>2, <2>3 DEF ReloadsBelong
<1>7. CASE Destroy
  BY <1>7 DEF Destroy, Disconnect, Disconnected, ReloadsBelong, Loads
<1>8. CASE UNCHANGED vars
  BY <1>1, <1>8 DEF vars, adapter, requests
<1> QED
  BY <1>1, <1>2, <1>3, <1>4, <1>5, <1>6, <1>7, <1>8
  DEF Next, Ingest, Seed, Broadcast, GatewayRestarts, Accept, MessageArrives, adapter, requests

\* GET /fleet reads the robots before their states, and no robot is ever removed.
LEMMA NextAnswersListFirst ==
  ASSUME TypeOK, BoundInv, AnswersListFirst, [Next]_vars
  PROVE  AnswersListFirst'
<1>1. CASE UNCHANGED requests
  BY <1>1 DEF AnswersListFirst, requests
<1>2. ASSUME NEW k \in Loads, ServeRobots(k) PROVE AnswersListFirst'
  BY <1>2 DEF ServeRobots, AnswersListFirst, BoundInv, TypeOK
<1>3. ASSUME NEW k \in Loads, ServeStates(k) PROVE AnswersListFirst'
  <2>1. \A j \in Loads : answer'[j].known = answer[j].known
    BY <1>3 DEF ServeStates, TypeOK
  <2> QED BY <1>3, <2>1 DEF ServeStates, AnswersListFirst, TypeOK
<1>4. ASSUME NEW k \in Loads, ApplySnapshot(k) \/ FailLoad(k) PROVE AnswersListFirst'
  BY <1>4 DEF ApplySnapshot, FailLoad, AnswersListFirst, TypeOK
<1>5. ASSUME NEW s \in Sockets, SocketOpens(s) PROVE AnswersListFirst'
  <2>1. Reload \/ UNCHANGED requests
    BY <1>5 DEF SocketOpens
  <2>2. CASE Reload
    BY <2>2 DEF Reload, AnswersListFirst, TypeOK
  <2> QED BY <1>1, <2>1, <2>2
<1>6. CASE Mount
  BY <1>6 DEF Mount, AnswersListFirst, TypeOK
<1>7. CASE Destroy
  BY <1>7 DEF Destroy, AnswersListFirst
<1>8. CASE UNCHANGED vars
  BY <1>1, <1>8 DEF vars
<1> QED
  BY <1>1, <1>2, <1>3, <1>4, <1>5, <1>6, <1>7, <1>8
  DEF Next, Ingest, Seed, Broadcast, GatewayRestarts, Accept, MessageArrives, SocketCloses,
      TimerFires

\* What answered requests and synced say does not change while nothing happens to them.
LEMMA CatchKept ==
  ASSUME FirstFleet \subseteq Robots, AnswerCatchesUp,
         UNCHANGED <<synced, load, answer, connection, current, socket>>,
         connection = "CONNECTED" => (socket \in clients' => socket \in clients),
         connection = "CONNECTED" /\ socket \in clients' =>
           \A r \in FirstFleet : Heard(r) => Heard(r)'
  PROVE  AnswerCatchesUp'
BY DEF AnswerCatchesUp

\* A link that is not connected, or becomes connected, owes nothing yet.
LEMMA NothingOwed ==
  ASSUME connection' = "CONNECTED" => ~synced' /\ load'["replay"] # "answered"
  PROVE  AnswerCatchesUp'
BY DEF AnswerCatchesUp

LEMMA NextAnswerCatchesUp ==
  ASSUME TypeOK, LinkInv, BoundInv, CatchInv, [Next]_vars
  PROVE  AnswerCatchesUp'
<1>a. FirstFleet \subseteq Robots /\ AnswerCatchesUp
  BY FleetAssumption DEF CatchInv
<1>b. connection = "CONNECTED" => socket \in Sockets /\ phase[socket] = "open"
  BY DEF LinkInv, ConnectedIsOpen, TypeOK
<1>1. ASSUME NEW q \in Robots, Ingest(q) PROVE AnswerCatchesUp'
  <2>1. \A r \in Robots : current'[r] = IF r = q THEN current[q] + 1 ELSE current[r]
    BY <1>1 DEF Ingest, TypeOK
  <2>2. /\ <<q, current'[q]>> \in stream' /\ stream \subseteq stream'
        /\ UNCHANGED <<socket, clients, inbox, latestState, answer, load, synced, connection>>
    BY <1>1, <2>1 DEF Ingest, wires, adapter, facade, requests
  <2>3. ASSUME NEW r \in Robots, Heard(r) PROVE Heard(r)'
    BY <2>1, <2>2, <2>3 DEF Heard
  <2>4. ASSUME NEW r \in Robots, answer["replay"].state[r] = current[r]
        PROVE  Heard(r)' \/ answer'["replay"].state[r] = current'[r]
    BY <2>1, <2>2, <2>4 DEF Heard
  <2> QED BY <1>a, <2>2, <2>3, <2>4 DEF AnswerCatchesUp
<1>2. ASSUME NEW q \in Robots, Seed(q) PROVE AnswerCatchesUp'
  <2>1. UNCHANGED <<current, stream, socket, clients, inbox, latestState, answer, load, synced,
                    connection>>
    BY <1>2 DEF Seed, wires, adapter, facade, requests
  <2> QED BY <1>a, <2>1, CatchKept DEF Heard
<1>3. ASSUME NEW e \in stream, Broadcast(e) PROVE AnswerCatchesUp'
  <2>1. UNCHANGED <<current, socket, latestState, answer, load, synced, connection, phase>>
    BY <1>3 DEF Broadcast, adapter, facade, requests
  <2>2. PICK failing \in SUBSET Open :
          /\ inbox' = [s \in Sockets |->
               IF s \in Open \ failing THEN Append(inbox[s], e) ELSE inbox[s]]
          /\ clients' = clients \ ((clients \ Open) \cup failing)
    BY <1>3 DEF Broadcast, PublishToOpenClients, Drop
  <2>3. stream' = stream \/ stream' = stream \ {e}
    BY <1>3 DEF Broadcast
  <2>4. ASSUME connection = "CONNECTED", socket \in clients', NEW r \in FirstFleet, Heard(r)
        PROVE  Heard(r)'
    <3>1. socket \in Open \ failing /\ socket \in Sockets
      BY <1>b, <2>2, <2>4 DEF Open, TypeOK
    <3>2. inbox[socket] \in Seq(Update) /\ e \in Update
      BY <3>1 DEF TypeOK
    <3>3. inbox'[socket] = Append(inbox[socket], e)
      BY <2>2, <3>1
    <3>4. /\ Len(inbox'[socket]) = Len(inbox[socket]) + 1
          /\ \A i \in 1..Len(inbox[socket]) : inbox'[socket][i] = inbox[socket][i]
          /\ inbox'[socket][Len(inbox[socket]) + 1] = e
          /\ Len(inbox[socket]) \in Nat
      BY <3>2, <3>3, AppendProperties
    <3>5. CASE latestState[r] = current[r]
      BY <2>1, <3>5 DEF Heard
    <3>6. CASE <<r, current[r]>> \in stream
      <4>1. CASE e = <<r, current[r]>>
        BY <2>1, <3>4, <4>1 DEF Heard
      <4>2. CASE e # <<r, current[r]>>
        BY <2>1, <2>3, <3>6, <4>2 DEF Heard
      <4> QED BY <4>1, <4>2
    <3>7. CASE \E i \in 1..Len(inbox[socket]) : inbox[socket][i] = <<r, current[r]>>
      BY <2>1, <3>4, <3>7 DEF Heard
    <3> QED BY <2>4, <3>5, <3>6, <3>7 DEF Heard
  <2>5. clients' \subseteq clients
    BY <2>2
  <2> QED BY <1>a, <2>1, <2>4, <2>5, CatchKept
<1>4. CASE GatewayRestarts
  BY <1>4 DEF GatewayRestarts, Drop, AnswerCatchesUp
<1>5. ASSUME NEW k \in Loads, ServeRobots(k) PROVE AnswerCatchesUp'
  <2>1. UNCHANGED <<current, stream, socket, clients, inbox, latestState, synced, connection>>
    BY <1>5 DEF ServeRobots, server, wires, adapter, facade
  <2>2. load'["replay"] = "answered" => load["replay"] = "answered" /\ answer'["replay"] = answer["replay"]
    BY <1>5 DEF ServeRobots, TypeOK, Loads
  <2> QED BY <1>a, <2>1, <2>2 DEF AnswerCatchesUp, Heard
<1>6. ASSUME NEW k \in Loads, ServeStates(k) PROVE AnswerCatchesUp'
  <2>1. UNCHANGED <<current, stream, socket, clients, inbox, latestState, synced, connection>>
    BY <1>6 DEF ServeStates, server, wires, adapter, facade
  <2>2. CASE k = "replay"
    <3>1. answer'["replay"].state = FleetBody(answer["replay"].known, current)
      BY <1>6, <2>2 DEF ServeStates, TypeOK
    <3>2. FirstFleet \subseteq answer["replay"].known
      BY <1>6, <2>2 DEF ServeStates, CatchInv, AnswersListFirst
    <3>3. \A r \in FirstFleet : answer'["replay"].state[r] = current'[r]
      BY <1>a, <2>1, <3>1, <3>2 DEF FleetBody
    <3> QED BY <1>a, <2>1, <3>3 DEF AnswerCatchesUp, Heard
  <2>3. CASE k # "replay"
    <3>1. load'["replay"] = load["replay"] /\ answer'["replay"] = answer["replay"]
      BY <1>6, <2>3 DEF ServeStates, TypeOK, Loads
    <3> QED BY <1>a, <2>1, <3>1 DEF AnswerCatchesUp, Heard
  <2> QED BY <2>2, <2>3
<1>7. ASSUME NEW k \in Loads, ApplySnapshot(k) PROVE AnswerCatchesUp'
  <2>1. UNCHANGED <<current, stream, socket, clients, inbox, connection>>
    BY <1>7 DEF ApplySnapshot, server, wires, adapter
  <2>2. FirstFleet \subseteq answer[k].known
    BY <1>7 DEF ApplySnapshot, CatchInv, AnswersListFirst
  <2>3. \A r \in FirstFleet : latestState'[r] = Newer(answer[k].state[r], latestState[r])
    BY <1>7, <1>a, <2>2 DEF ApplySnapshot
  <2>4. \A r \in Robots : /\ answer[k].state[r] \in Nat /\ latestState[r] \in Nat
                          /\ current[r] \in Nat
                          /\ answer[k].state[r] <= current[r] /\ latestState[r] <= current[r]
    BY DEF TypeOK, BoundInv
  <2>5. ASSUME NEW r \in FirstFleet, Heard(r) \/ answer[k].state[r] = current[r]
        PROVE  Heard(r)'
    <3>1. CASE latestState[r] = current[r] \/ answer[k].state[r] = current[r]
      <4>1. latestState'[r] = current[r]
        BY <1>a, <2>3, <2>4, <3>1 DEF Newer
      <4> QED BY <2>1, <4>1 DEF Heard
    <3>2. CASE ~(latestState[r] = current[r] \/ answer[k].state[r] = current[r])
      BY <2>1, <2>5, <3>2 DEF Heard
    <3> QED BY <3>1, <3>2
  <2>6. CASE k = "replay"
    <3>1. load["replay"] = "answered" /\ load'["replay"] = "none"
      BY <1>7, <2>6 DEF ApplySnapshot, TypeOK
    <3> QED BY <1>a, <2>1, <2>5, <2>6, <3>1 DEF AnswerCatchesUp
  <2>7. CASE k # "replay"
    <3>1. /\ load'["replay"] = load["replay"] /\ answer'["replay"] = answer["replay"]
          /\ synced' = synced
      BY <1>7, <2>7 DEF ApplySnapshot, TypeOK, Loads
    <3> QED BY <1>a, <2>1, <2>5, <3>1 DEF AnswerCatchesUp
  <2> QED BY <2>6, <2>7
<1>8. ASSUME NEW k \in Loads, FailLoad(k) PROVE AnswerCatchesUp'
  <2>1. UNCHANGED <<current, stream, socket, clients, inbox, latestState, synced, connection>>
    BY <1>8 DEF FailLoad, server, wires, adapter
  <2>2. load'["replay"] = "answered" => load["replay"] = "answered" /\ answer'["replay"] = answer["replay"]
    BY <1>8 DEF FailLoad, TypeOK, Loads
  <2> QED BY <1>a, <2>1, <2>2 DEF AnswerCatchesUp, Heard
<1>9. ASSUME NEW s \in Sockets, Accept(s) PROVE AnswerCatchesUp'
  <2>1. /\ UNCHANGED <<current, stream, socket, inbox, latestState, answer, load, synced, connection>>
        /\ phase[s] = "connecting" /\ clients' \subseteq clients \cup {s}
    BY <1>9 DEF Accept, server, adapter, facade, requests
  <2>2. connection = "CONNECTED" => s # socket
    BY <1>b, <2>1
  <2> QED BY <1>a, <2>1, <2>2, CatchKept DEF Heard
<1>10. ASSUME NEW s \in Sockets, SocketOpens(s) PROVE AnswerCatchesUp'
  <2>1. UNCHANGED <<current, stream, socket, clients, inbox, latestState, synced>>
    BY <1>10 DEF SocketOpens, server
  <2>2. CASE Listens(s)
    <3>1. s = socket /\ phase[s] = "accepted"
      BY <1>10, <2>2 DEF SocketOpens, LinkInv, OnlyCurrentListens, Listens
    <3>2. ~synced
      BY <1>b, <3>1 DEF CatchInv, ReloadsBelong
    <3>3. load'["replay"] # "answered"
      BY <1>10, <2>2 DEF SocketOpens, Reload, requests, CatchInv, ReloadsBelong, TypeOK, Loads
    <3> QED BY <2>1, <3>2, <3>3, NothingOwed
  <2>3. CASE ~Listens(s)
    <3>1. UNCHANGED <<answer, load, connection>>
      BY <1>10, <2>3 DEF SocketOpens, requests
    <3> QED BY <1>a, <2>1, <3>1, CatchKept DEF Heard
  <2> QED BY <2>2, <2>3
<1>11. ASSUME NEW s \in Sockets, MessageArrives(s) PROVE AnswerCatchesUp'
  <2>1. /\ UNCHANGED <<current, stream, socket, clients, answer, load, synced, connection>>
        /\ inbox' = [inbox EXCEPT ![s] = Tail(inbox[s])] /\ inbox[s] # <<>>
    BY <1>11 DEF MessageArrives, server, adapter, requests
  <2>2. inbox[s] \in Seq(Past)
    BY DEF BoundInv
  <2>3. /\ Head(inbox[s]) \in Past /\ Head(inbox[s]) = inbox[s][1]
        /\ Len(Tail(inbox[s])) = Len(inbox[s]) - 1 /\ Len(inbox[s]) \in Nat
        /\ \A i \in 1..Len(Tail(inbox[s])) : Tail(inbox[s])[i] = inbox[s][i + 1]
    BY <2>1, <2>2, HeadTailProperties
  <2>4. ASSUME NEW r \in FirstFleet, connection = "CONNECTED", Heard(r) PROVE Heard(r)'
    <3>1. CASE s = socket
      <4>1. Listens(s)
        BY <3>1, FleetAssumption DEF LinkInv, OnlyCurrentListens, Listens, TypeOK
      <4>2. ApplyRobotStateUpdated(Head(inbox[s])[1], Head(inbox[s])[2])
        BY <1>11, <4>1 DEF MessageArrives
      <4>3. /\ Head(inbox[s])[1] \in Robots /\ Head(inbox[s])[2] \in Nat
            /\ Head(inbox[s])[2] <= current[Head(inbox[s])[1]]
            /\ r \in Robots /\ latestState[r] \in Nat /\ current[r] \in Nat
            /\ latestState[r] <= current[r]
        BY <1>a, <2>3 DEF Past, Update, TypeOK, BoundInv
      <4>a. latestState \in [Robots -> Nat]
        BY DEF TypeOK
      <4>b. \/ latestState' = latestState /\ Head(inbox[s])[2] <= latestState[Head(inbox[s])[1]]
            \/ latestState' = [latestState EXCEPT ![Head(inbox[s])[1]] = Head(inbox[s])[2]]
               /\ (latestState[Head(inbox[s])[1]] = 0
                     \/ ~(Head(inbox[s])[2] <= latestState[Head(inbox[s])[1]]))
        BY <4>2 DEF ApplyRobotStateUpdated, facade
      <4>c. \A x, t : Head(inbox[s]) = <<x, t>> => Head(inbox[s])[1] = x /\ Head(inbox[s])[2] = t
        OBVIOUS
      <4>4. latestState[r] = current[r] => latestState'[r] = current[r]
        BY <4>3, <4>a, <4>b
      <4>5. Head(inbox[s]) = <<r, current[r]>> => latestState'[r] = current[r]
        BY <4>3, <4>a, <4>b, <4>c
      <4>6. ASSUME NEW i \in 1..Len(inbox[s]), inbox[s][i] = <<r, current[r]>>,
                   Head(inbox[s]) # <<r, current[r]>>
            PROVE  \E j \in 1..Len(Tail(inbox[s])) : Tail(inbox[s])[j] = <<r, current[r]>>
        <5>1. i # 1 /\ i - 1 \in 1..Len(Tail(inbox[s]))
          BY <2>3, <4>6
        <5>2. Tail(inbox[s])[i - 1] = inbox[s][i - 1 + 1]
          BY <2>3, <5>1
        <5>3. i - 1 + 1 = i
          OBVIOUS
        <5> QED BY <4>6, <5>1, <5>2, <5>3
      <4>7. inbox'[socket] = Tail(inbox[s])
        BY <2>1, <3>1 DEF TypeOK
      <4> QED BY <2>1, <2>4, <3>1, <4>4, <4>5, <4>6, <4>7 DEF Heard
    <3>2. CASE s # socket
      <4>1. ~Listens(s)
        BY <3>2 DEF LinkInv, OnlyCurrentListens, Listens
      <4>2. UNCHANGED facade
        BY <1>11, <4>1 DEF MessageArrives
      <4>3. inbox'[socket] = inbox[socket]
        BY <1>b, <2>1, <2>4, <3>2 DEF TypeOK
      <4> QED BY <1>a, <2>1, <2>4, <4>2, <4>3, HeardKept DEF facade
    <3> QED BY <3>1, <3>2
  <2> QED BY <1>a, <2>1, <2>4, CatchKept
<1>12. ASSUME NEW s \in Sockets, SocketCloses(s) PROVE AnswerCatchesUp'
  <2>1. CASE Listens(s)
    <3>1. desiredOpen
      BY <2>1, FleetAssumption DEF LinkInv, WantedIsTried, OnlyCurrentListens, Listens
    <3> QED BY <1>12, <2>1, <3>1, NothingOwed DEF SocketCloses
  <2>2. CASE ~Listens(s)
    <3>1. /\ UNCHANGED <<current, stream, socket, latestState, answer, load, synced, connection>>
          /\ clients' \subseteq clients /\ inbox' = [inbox EXCEPT ![s] = <<>>]
      BY <1>12, <2>2 DEF SocketCloses, Gone, Drop, server, facade, requests
    <3>2. connection = "CONNECTED" => s # socket
      BY <1>b, <2>2 DEF LinkInv, OnlyCurrentListens, Listens, ConnectedIsOpen
    <3>3. connection = "CONNECTED" => inbox'[socket] = inbox[socket]
      BY <1>b, <3>1, <3>2 DEF TypeOK
    <3>4. connection = "CONNECTED" => \A r \in FirstFleet : Heard(r) => Heard(r)'
      BY <1>a, <3>1, <3>3, HeardKept
    <3> QED BY <1>a, <3>1, <3>4, CatchKept
  <2> QED BY <2>1, <2>2
<1>13. CASE TimerFires \/ Mount
  <2>1. connection' # "CONNECTED"
    BY <1>13, FleetAssumption
    DEF TimerFires, Mount, Connect, OpenSocket, CannotOpenSocket, LinkInv, WantedIsTried,
        ConnectedIsOpen
  <2> QED BY <2>1, NothingOwed
<1>14. CASE Destroy
  BY <1>14, NothingOwed DEF Destroy, Disconnect, Disconnected
<1>15. CASE UNCHANGED vars
  BY <1>a, <1>15, CatchKept DEF vars, server, wires, adapter, facade, requests, Heard
<1> QED
  BY <1>1, <1>2, <1>3, <1>4, <1>5, <1>6, <1>7, <1>8, <1>9, <1>10, <1>11, <1>12, <1>13, <1>14,
     <1>15 DEF Next

LEMMA NextCatchInv == TypeOK /\ LinkInv /\ BoundInv /\ CatchInv /\ [Next]_vars => CatchInv'
BY NextReloadsBelong, NextAnswersListFirst, NextAnswerCatchesUp DEF CatchInv

LEMMA InitCatchInv == Init => CatchInv
BY DEF Init, CatchInv, AnswerCatchesUp, AnswersListFirst, ReloadsBelong, Loads

\* docs/adr/0022: once the reload of a reconnect has been applied, no newest state of a
\* robot is missed, unless the gateway has given the socket up and it will reconnect.
THEOREM ReloadMissesNothing == Spec => []ReloadCatchesUp
<1>1. Init => ShownIsLatest
  BY DEF Init, ShownIsLatest
<1> QED
  BY <1>1, InitTypeOK, NextTypeOK, NextShown, InitLinkInv, NextLinkInv, InitBoundInv, NextBoundInv,
     InitCatchInv, NextCatchInv, CatchInvImplies, PTL DEF Spec

=============================================================================
