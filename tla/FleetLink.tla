------------------------------- MODULE FleetLink -------------------------------
(***************************************************************************)
(* The dashboard's picture of the fleet and how it is kept up to date: the *)
(* shell, which loads a REST snapshot and connects; the WebSocket adapter, *)
(* which reconnects by itself; RealtimeFacade, which loads again after a   *)
(* reconnect; FleetFacade, which merges snapshots and stream by            *)
(* recordedAt.  On the other side the gateway broadcasts each event of its *)
(* queue to the clients of the moment and forgets it.                      *)
(*                                                                         *)
(* A robot's current state is known by its recordedAt; 0 stands for null.  *)
(* Callbacks of the browser run to completion, so each is an action.  The  *)
(* facade's loading and error signals are left out, since no decision      *)
(* reads them; its selection is in RobotWorld.                             *)
(***************************************************************************)
EXTENDS Integers, Sequences, SequencesExt

CONSTANTS
  Robots,      \* robots that may be in the fleet
  FirstFleet,  \* those there from the start
  Sockets,     \* bound: WebSocket objects alive at the same time
  LastSample,  \* bound: robot -> the last recordedAt it gets to
  MaxInbox,    \* bound on messages in one socket
  MaxMounts,   \* bound on how often the shell is created
  None         \* null

ASSUME FleetAssumption ==
  /\ FirstFleet \subseteq Robots
  /\ LastSample \in [Robots -> Nat]
  /\ MaxInbox \in Nat /\ MaxMounts \in Nat
  /\ None \notin Sockets \cup Robots

Loads == {"initial", "replay"}

VARIABLES
  fleet,         \* rows of Robot
  current,       \* robot -> its current state in the database
  stream,        \* events the gateway has yet to broadcast, <<robot, recordedAt>>
  phase,         \* socket -> "unused", "connecting", "accepted", "open" or "closing"
  inbox,         \* socket -> messages sent to it and not yet delivered
  clients,       \* the gateway's clients
  handlers,      \* sockets whose callbacks are set
  opened,        \* socket -> the generation its callbacks were created in
  socket,        \* adapter: the current socket or None
  timer,         \* adapter: a reconnect is scheduled
  desiredOpen,   \* adapter
  hadConnected,  \* adapter
  generation,    \* adapter
  connection,    \* adapter: connectionState
  load,          \* load -> "none", "sent", "listed" or "answered"
  answer,        \* load -> what has been read for its response
  robots,        \* FleetFacade: ids of the robots shown
  shown,         \* FleetFacade: robot -> the current state shown
  latestState,   \* FleetFacade: robot -> the newest state seen
  synced         \* history variable: the snapshot asked for at the opening of the
                 \* current socket was applied

server == <<fleet, current, stream>>
wires == <<phase, inbox, clients, handlers, opened>>
adapter == <<socket, timer, desiredOpen, hadConnected, generation, connection>>
facade == <<robots, shown, latestState>>
requests == <<load, answer>>
vars == <<server, wires, adapter, facade, requests, synced>>

Nobody == [known |-> {}, state |-> [r \in Robots |-> 0]]
Connections == {"DISCONNECTED", "CONNECTING", "CONNECTED", "RECONNECTING"}

-----------------------------------------------------------------------------
(* The API, the gateway and the network *)

\* A newer sample of r is ingested; its event is on its way to the gateway.
Ingest(r) ==
  /\ r \in fleet /\ current[r] < LastSample[r]
  /\ current' = [current EXCEPT ![r] = @ + 1]
  /\ stream' = stream \cup {<<r, current[r] + 1>>}
  /\ UNCHANGED <<fleet, wires, adapter, facade, requests, synced>>

\* A robot is added to the fleet.
Seed(r) ==
  /\ r \notin fleet
  /\ fleet' = fleet \cup {r}
  /\ UNCHANGED <<current, stream, wires, adapter, facade, requests, synced>>

\* wss 'connection': the socket joins the gateway's clients, unless the gateway
\* cannot send to it and drops it at once.
Accept(s) ==
  /\ phase[s] = "connecting"
  /\ phase' = [phase EXCEPT ![s] = "accepted"]
  /\ clients' \in {clients, clients \cup {s}}
  /\ UNCHANGED <<server, inbox, handlers, opened, adapter, facade, requests, synced>>

\* isOpen
Open == {s \in clients : phase[s] \in {"accepted", "open"}}

\* Mutant of Drop: who cannot be sent to stays a client.
DropNobody(dropped) == clients' = clients

\* drop: the sockets are closed and forgotten; their clients are told later.
Drop(dropped) == clients' = clients \ dropped

\* publishToOpenClients: the event goes to every client that is open; a client
\* that is not, or that cannot be sent to, is dropped, and the others get it.
\* What a client has not received when its socket is gone is lost.
PublishToOpenClients(e) ==
  \E failing \in SUBSET Open :
    /\ \A s \in Open : Len(inbox[s]) < MaxInbox
    /\ inbox' = [s \in Sockets |->
         IF s \in Open \ failing THEN Append(inbox[s], e) ELSE inbox[s]]
    /\ Drop((clients \ Open) \cup failing)

\* handleRealtimeTelemetry: the event is published and completed; it stays in
\* the queue when the completion is lost.
Broadcast(e) ==
  /\ e \in stream
  /\ PublishToOpenClients(e)
  /\ stream' \in {stream, stream \ {e}}
  /\ UNCHANGED <<fleet, current, phase, handlers, opened, adapter, facade, requests, synced>>

\* shutdown of the gateway, which drops its clients; it is started again.
GatewayRestarts ==
  /\ clients # {}
  /\ Drop(clients)
  /\ UNCHANGED <<server, phase, inbox, handlers, opened, adapter, facade, requests, synced>>

\* GET /fleet: findMany reads the robots and then their current states, each
\* in a statement of its own.
ServeRobots(k) ==
  /\ load[k] = "sent"
  /\ load' = [load EXCEPT ![k] = "listed"]
  /\ answer' = [answer EXCEPT ![k].known = fleet]
  /\ UNCHANGED <<server, wires, adapter, facade, synced>>

\* getFleet's body: the robots listed, each with its state or null.
FleetBody(listed, state) == [r \in Robots |-> IF r \in listed THEN state[r] ELSE 0]

ServeStates(k) ==
  /\ load[k] = "listed"
  /\ load' = [load EXCEPT ![k] = "answered"]
  /\ answer' = [answer EXCEPT ![k].state = FleetBody(answer[k].known, current)]
  /\ UNCHANGED <<server, wires, adapter, facade, synced>>

-----------------------------------------------------------------------------
(* FleetFacade *)

\* Mutant of Newer: the later arrival wins.
LaterArrival(rest, streamed) == IF rest = 0 THEN streamed ELSE rest

\* newerCurrentState: null is 0, and on a tie both are the same state.
Newer(rest, streamed) == IF streamed > rest THEN streamed ELSE rest

\* Mutant of ApplyRobotStateUpdated: what is shown is not remembered.
ShowOnly(r, t) ==
  IF latestState[r] # 0 /\ t <= latestState[r]
  THEN UNCHANGED facade
  ELSE /\ shown' = IF r \in robots THEN [shown EXCEPT ![r] = t] ELSE shown
       /\ UNCHANGED <<robots, latestState>>

\* applyRobotStateUpdated
ApplyRobotStateUpdated(r, t) ==
  IF latestState[r] # 0 /\ t <= latestState[r]
  THEN UNCHANGED facade
  ELSE /\ latestState' = [latestState EXCEPT ![r] = t]
       /\ shown' = IF r \in robots THEN [shown EXCEPT ![r] = t] ELSE shown
       /\ UNCHANGED <<robots>>

\* The response of load k: applyAuthoritativeSnapshot.
ApplySnapshot(k) ==
  LET known == answer[k].known
      merged == [r \in Robots |->
        IF r \in known THEN Newer(answer[k].state[r], latestState[r]) ELSE 0]
  IN
  /\ load[k] = "answered"
  /\ robots' = known
  /\ shown' = merged
  /\ latestState' = merged
  /\ load' = [load EXCEPT ![k] = "none"]
  /\ answer' = [answer EXCEPT ![k] = Nobody]
  /\ synced' = (synced \/ (k = "replay" /\ connection = "CONNECTED"))
  /\ UNCHANGED <<server, wires, adapter>>

\* The request of load k fails: what is shown stays.
FailLoad(k) ==
  /\ load[k] # "none"
  /\ load' = [load EXCEPT ![k] = "none"]
  /\ answer' = [answer EXCEPT ![k] = Nobody]
  /\ UNCHANGED <<server, wires, adapter, robots, shown, latestState, synced>>

-----------------------------------------------------------------------------
(* WebSocketFleetRealtimeDataSource *)

\* closeSocket: the callbacks are taken off, then the socket is closed; nobody
\* hears what it still delivers.
Unheard(s) == IF s = None THEN inbox ELSE [inbox EXCEPT ![s] = <<>>]
Closed(s) == IF s = None THEN phase ELSE [phase EXCEPT ![s] = "closing"]

\* openSocket, when the browser creates a socket; which one does not matter.
OpenSocket ==
  LET unused == {s \in Sockets : phase[s] = "unused"}
      s == CHOOSE s \in unused : TRUE
  IN
  /\ unused # {}
  /\ phase' = [Closed(socket) EXCEPT ![s] = "connecting"]
  /\ handlers' = (handlers \ {socket}) \cup {s}
  /\ opened' = [opened EXCEPT ![s] = generation]
  /\ socket' = s
  /\ connection' = IF hadConnected THEN "RECONNECTING" ELSE "CONNECTING"
  /\ inbox' = Unheard(socket)
  /\ timer' = FALSE
  /\ UNCHANGED clients

\* openSocket, when creating a socket throws: scheduleReconnect.
CannotOpenSocket ==
  /\ phase' = Closed(socket)
  /\ handlers' = handlers \ {socket}
  /\ socket' = None
  /\ connection' = "RECONNECTING"
  /\ timer' = TRUE
  /\ inbox' = Unheard(socket)
  /\ UNCHANGED <<opened, clients>>

\* The callbacks of s are set and belong to the current generation.
Listens(s) == s \in handlers /\ opened[s] = generation

\* Mutant of Reload: a reload that is on its way is left to finish.
ReloadOnce ==
  IF load["replay"] = "none"
  THEN load' = [load EXCEPT !["replay"] = "sent"] /\ UNCHANGED answer
  ELSE UNCHANGED requests

\* reconnected$ in RealtimeFacade: the fleet is loaded again, and a reload that
\* is still on its way is cancelled (switchMap).
Reload ==
  /\ load' = [load EXCEPT !["replay"] = "sent"]
  /\ answer' = [answer EXCEPT !["replay"] = Nobody]

\* onopen: connected; after an earlier connection the fleet is loaded again.
SocketOpens(s) ==
  /\ phase[s] = "accepted"
  /\ phase' = [phase EXCEPT ![s] = "open"]
  /\ IF Listens(s)
     THEN /\ hadConnected' = TRUE
          /\ connection' = "CONNECTED"
          /\ IF hadConnected
             THEN Reload
             ELSE UNCHANGED requests
     ELSE UNCHANGED <<hadConnected, connection, requests>>
  /\ UNCHANGED <<server, inbox, clients, handlers, opened, socket, timer, desiredOpen, generation,
                 robots, shown, latestState, synced>>

\* onmessage: the next message of an open socket.
MessageArrives(s) ==
  /\ phase[s] = "open" /\ inbox[s] # <<>>
  /\ inbox' = [inbox EXCEPT ![s] = Tail(@)]
  /\ IF Listens(s)
     THEN ApplyRobotStateUpdated(Head(inbox[s])[1], Head(inbox[s])[2])
     ELSE UNCHANGED facade
  /\ UNCHANGED <<server, phase, clients, handlers, opened, adapter, requests, synced>>

\* The socket is gone, whoever closed it, with what it had not delivered.
Gone(s) ==
  /\ phase[s] # "unused"
  /\ phase' = [phase EXCEPT ![s] = "unused"]
  /\ inbox' = [inbox EXCEPT ![s] = <<>>]
  /\ Drop({s})
  /\ handlers' = handlers \ {s}
  /\ opened' = [opened EXCEPT ![s] = 0]

\* Mutant of SocketCloses: only a connection that was open is renewed.
ClosesOnceConnected(s) ==
  /\ Gone(s)
  /\ IF Listens(s)
     THEN /\ socket' = None
          /\ timer' = (timer \/ phase[s] = "open")
          /\ connection' = "RECONNECTING"
          /\ synced' = FALSE
     ELSE UNCHANGED <<socket, timer, connection, synced>>
  /\ UNCHANGED <<server, desiredOpen, hadConnected, generation, facade, requests>>

\* onclose, of a connection that failed or ended: scheduleReconnect.
SocketCloses(s) ==
  /\ Gone(s)
  /\ IF Listens(s)
     THEN /\ socket' = None
          /\ timer' = (timer \/ desiredOpen)
          /\ connection' = IF desiredOpen THEN "RECONNECTING" ELSE connection
          /\ synced' = FALSE
     ELSE UNCHANGED <<socket, timer, connection, synced>>
  /\ UNCHANGED <<server, desiredOpen, hadConnected, generation, facade, requests>>

\* The reconnect timer.
TimerFires ==
  /\ timer
  /\ IF desiredOpen
     THEN OpenSocket \/ CannotOpenSocket
     ELSE /\ timer' = FALSE
          /\ UNCHANGED <<wires, socket, connection>>
  /\ UNCHANGED <<server, desiredOpen, hadConnected, generation, facade, requests, synced>>

-----------------------------------------------------------------------------
(* The shell *)

\* connect
Connect ==
  /\ ~desiredOpen
  /\ desiredOpen' = TRUE
  /\ OpenSocket \/ CannotOpenSocket

\* ngOnInit of a new shell, with new facades: loadFleet, then connect.
Mount ==
  /\ generation < MaxMounts
  /\ load' = [load EXCEPT !["initial"] = "sent"]
  /\ Connect
  /\ UNCHANGED <<server, hadConnected, generation, answer, robots, shown, latestState, synced>>

\* A FleetFacade as it is created.
NewFacade ==
  /\ robots' = {}
  /\ shown' = [r \in Robots |-> 0]
  /\ latestState' = [r \in Robots |-> 0]

\* The adapter, disconnected.
Disconnected ==
  /\ desiredOpen' = FALSE
  /\ hadConnected' = FALSE
  /\ generation' = generation + 1
  /\ phase' = Closed(socket)
  /\ handlers' = handlers \ {socket}
  /\ socket' = None
  /\ connection' = "DISCONNECTED"
  /\ synced' = FALSE
  /\ inbox' = Unheard(socket)
  /\ UNCHANGED <<opened, clients>>

\* Mutant of Disconnect: the reconnect timer is not cleared.
DisconnectKeepingTimer == Disconnected /\ UNCHANGED timer

\* disconnect
Disconnect == Disconnected /\ timer' = FALSE

\* The shell is destroyed: its loads are cancelled, ngOnDestroy of
\* RealtimeFacade unsubscribes and disconnects, and the facades are gone.
Destroy ==
  /\ desiredOpen
  /\ load' = [k \in Loads |-> "none"]
  /\ answer' = [k \in Loads |-> Nobody]
  /\ NewFacade
  /\ Disconnect
  /\ UNCHANGED server

-----------------------------------------------------------------------------
Init ==
  /\ fleet = FirstFleet
  /\ current = [r \in Robots |-> 0]
  /\ stream = {}
  /\ phase = [s \in Sockets |-> "unused"]
  /\ inbox = [s \in Sockets |-> <<>>]
  /\ clients = {}
  /\ handlers = {}
  /\ opened = [s \in Sockets |-> 0]
  /\ socket = None
  /\ timer = FALSE
  /\ desiredOpen = FALSE
  /\ hadConnected = FALSE
  /\ generation = 0
  /\ connection = "DISCONNECTED"
  /\ load = [k \in Loads |-> "none"]
  /\ answer = [k \in Loads |-> Nobody]
  /\ robots = {}
  /\ shown = [r \in Robots |-> 0]
  /\ latestState = [r \in Robots |-> 0]
  /\ synced = FALSE

Next ==
  \/ \E r \in Robots : Ingest(r) \/ Seed(r)
  \/ \E e \in stream : Broadcast(e)
  \/ GatewayRestarts
  \/ \E k \in Loads : ServeRobots(k) \/ ServeStates(k) \/ ApplySnapshot(k) \/ FailLoad(k)
  \/ \E s \in Sockets :
       Accept(s) \/ SocketOpens(s) \/ MessageArrives(s) \/ SocketCloses(s)
  \/ TimerFires
  \/ Mount
  \/ Destroy

Spec == Init /\ [][Next]_vars

\* A socket that is closed is gone in the end.  Of attempts made again and
\* again to create the socket that is wanted, to have it accepted and to open
\* it, some succeed.
Fairness ==
  /\ WF_vars(\E s \in Sockets : phase[s] = "closing" /\ SocketCloses(s))
  /\ SF_vars(TimerFires /\ socket' # None)
  /\ SF_vars(\E s \in Sockets : Listens(s) /\ Accept(s))
  /\ SF_vars(\E s \in Sockets : Listens(s) /\ SocketOpens(s))

FairSpec == Spec /\ Fairness

-----------------------------------------------------------------------------
(* Properties *)

\* connect, disconnect, openSocket, onclose: whatever sequence of failures,
\* reconnects and new shells, a wanted link has either one socket or one timer
\* and never both, an unwanted one has neither, no other socket is listened
\* to, and CONNECTED is shown exactly while the socket is open.
OneLink ==
  /\ desiredOpen => (socket # None) # timer
  /\ ~desiredOpen => socket = None /\ ~timer
  /\ \A s \in Sockets : Listens(s) => s = socket
  /\ connection = "CONNECTED" <=> socket # None /\ phase[socket] = "open"

\* FleetFacade keeps a robot's state twice, in the list it shows and in
\* latestState, which decides what is newer.  The two never part.
ShownIsLatest == \A r \in robots : shown[r] = latestState[r]

\* docs/adr/0020: "neither a slow snapshot nor a duplicate/out-of-order socket
\* message can regress state".  While a robot is on the screen its state never
\* goes back, and it is never ahead of the database.
NeverRegresses ==
  [][/\ desiredOpen /\ desiredOpen' =>
          \A r \in robots \cap robots' : shown'[r] >= shown[r]
     /\ \A r \in robots' : shown'[r] <= current'[r]]_vars

\* What is not on the screen is on its way: r's newest state is shown, waits
\* for its broadcast or is in the open socket.
OnItsWay(r) ==
  \/ shown[r] = current[r]
  \/ <<r, current[r]>> \in stream
  \/ \E i \in 1..Len(inbox[socket]) : inbox[socket][i] = <<r, current[r]>>

\* docs/adr/0022: after a reconnect and its reload nothing is missed, whatever
\* was broadcast while the link was down or the reload was on its way, and
\* whatever failed of a broadcast (publishToOpenClients): a client the gateway
\* has given up is one that will reconnect.  This holds of robots every snapshot
\* knows: a first snapshot that is overtaken by a reload drops what the stream
\* has said of a robot added in between.  Nothing of the kind holds of the first
\* connection, which reloads nothing: a sample that falls between the snapshot
\* and the opening of the socket stays unseen until the next one.
ReloadCatchesUp ==
  synced /\ connection = "CONNECTED" /\ socket \in clients =>
    \A r \in robots \cap FirstFleet : OnItsWay(r)

\* connect, scheduleReconnect, onclose: whatever fails in between, a link that is
\* wanted comes up, or is no longer wanted.
LinkComesUp == desiredOpen ~> (connection = "CONNECTED" \/ ~desiredOpen)

=============================================================================
