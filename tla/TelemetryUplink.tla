--------------------------- MODULE TelemetryUplink ---------------------------
(***************************************************************************)
(* The robot-simulator process and the way of its samples into the API:    *)
(* SimulationEngine (libs/simulation), HttpTelemetryProducer               *)
(* (libs/infrastructure/http/telemetry-producer) and the shutdown of       *)
(* apps/robot-simulator.  The engine moves the robot, takes a frozen       *)
(* sample and hands it to the producer, which posts it until the API gives *)
(* a final answer or the attempts run out.  A connection can break with    *)
(* the request lost, on its way, or answered; the API is its contract, its *)
(* idempotency rule and its error mapping, one request at a time.          *)
(*                                                                         *)
(* The fleet is one robot: robots share no state but the generator, which  *)
(* is a choice here, and the engine treats each by its own inFlight entry. *)
(***************************************************************************)
EXTENDS RobotPhysics, FiniteSets

CONSTANTS Fleet,          \* FleetRobotConfigs the simulated robot may have
          Batteries,      \* initial battery values, overrides included
          SeededRobots,   \* types of the robots the API knows
          Elapsed,        \* what can pass between two physics ticks
          MaxAttempts,    \* TELEMETRY_MAX_ATTEMPTS
          MaxSamples,     \* bound: samples taken in a run
          MaxTicks,       \* bound: physics ticks in a run
          None

ASSUME UplinkAssumption ==
  /\ MaxAttempts \in Nat \ {0} /\ MaxSamples \in Nat /\ MaxTicks \in Nat
  /\ Elapsed \subseteq Nat /\ Batteries \subseteq Int
  /\ None \notin {"fetching", "sleeping", "accepted", "permanent_error", "exhausted"}

\* The simulated fleet is the one the API is seeded with, and starts inside its world.
ASSUME FleetAssumption == \A c \in Fleet :
  /\ c.type \in DOMAIN BehaviorProfiles \cap SeededRobots
  /\ c.initialPosition \in [x : Bounds.minX..Bounds.maxX, y : Int, z : Bounds.minZ..Bounds.maxZ]
  /\ c.type = "DRONE" =>
       Larger(c.initialPosition.y, ProfileOf(c).cruiseAltitude \div 2)
         \in DroneFloor..Bounds.maxAltitude

VARIABLES robot,      \* SimulatedRobot
          ticks,      \* physics ticks so far (bounded by MaxTicks)
          engine,     \* "running", "stopping" (timers cleared), "exited"
          aborted,    \* the AbortController of main.ts
          sample,     \* sample number -> the frozen TelemetrySample
          inFlight,   \* engine.inFlight: a send of the robot is pending
          send,       \* sample number -> where its send() is
          attempt,    \* sample number -> the loop variable of send()
          wire,       \* requests on their way to the API
          answer,     \* responses the API has given to waiting attempts
          history     \* RobotTelemetry rows of the API

simulation == <<robot, ticks>>
process == <<engine, aborted>>
sending == <<sample, inFlight, send, attempt>>
network == <<wire, answer>>
vars == <<simulation, process, sending, network, history>>

Samples == 1..MaxSamples
Taken == DOMAIN sample
Retryable == {"500"}
Settled == {"accepted", "permanent_error", "exhausted"}

-----------------------------------------------------------------------------
(* The sample *)

\* IngestTelemetryRequestSchema, for the fields that have a range.
ContractHolds(r) ==
  /\ r.batteryPercent \in 0..100
  /\ Length(r.velocity) >= 0
  /\ r.headingDegrees \in 0..359

\* snapshotTelemetrySample: the robot as it is now under a fresh source id.  Of
\* the readings the API tells two things apart: whether they are in range, and
\* whether two bodies are the same, which is whether they are of one tick.
Snapshot(n) ==
  [source |-> n, tick |-> ticks, inRange |-> ContractHolds(robot)]

\* Mutant of Body: a retry reads the robot again.
BodyOfNow(n) == Snapshot(n)

\* mapSampleToRequest, called once per send: every attempt posts this body.
Body(n) == sample[n]

-----------------------------------------------------------------------------
(* The API *)

Rows(body) == {row \in history : row.source = body.source}

\* The status IngestTelemetry and the exception filter answer a request with,
\* when the database does its part.
Status(body) ==
  IF ~body.inRange THEN "400"
  ELSE IF robot.type \notin SeededRobots THEN "404"
  ELSE IF Rows(body) \subseteq {body} THEN "202"
  ELSE "409"

\* The attempt is still waited for: its response will be read.
Awaited(q) == send[q.n] = "fetching" /\ attempt[q.n] = q.attempt /\ engine # "exited"

Respond(q, status) ==
  answer' = IF Awaited(q)
            THEN answer \cup {[n |-> q.n, attempt |-> q.attempt, status |-> status]}
            ELSE answer

\* The API takes a request: a final answer and, for 202, the row; or the
\* transaction fails (the database is down, another attempt of the sample is
\* being written) and nothing is stored.
Handle(q) ==
  /\ q \in wire
  /\ wire' = wire \ {q}
  /\ \/ /\ history' = IF Status(q.body) = "202" THEN history \cup {q.body} ELSE history
        /\ Respond(q, Status(q.body))
     \/ /\ UNCHANGED history
        /\ Respond(q, "500")
  /\ UNCHANGED <<simulation, process, sending>>

-----------------------------------------------------------------------------
(* The producer *)

\* send() returns; finally() takes the robot out of inFlight.
Settle(n, result) ==
  /\ send' = [send EXCEPT ![n] = result]
  /\ inFlight' = FALSE
  /\ UNCHANGED attempt

\* The end of a failed attempt: the backoff sleep, or the attempts are used up.
BackOff(n) ==
  IF attempt[n] < MaxAttempts
  THEN send' = [send EXCEPT ![n] = "sleeping"] /\ UNCHANGED <<inFlight, attempt>>
  ELSE Settle(n, "exhausted")

\* A response arrives: 202, a permanent error, or one worth another attempt.
Receive(n) ==
  /\ send[n] = "fetching"
  /\ \E a \in answer :
       /\ a.n = n /\ a.attempt = attempt[n]
       /\ answer' = answer \ {a}
       /\ CASE a.status = "202" -> Settle(n, "accepted")
            [] a.status \in Retryable -> BackOff(n)
            [] OTHER -> Settle(n, "permanent_error")
  /\ UNCHANGED <<simulation, process, sample, wire, history>>

\* The client stops waiting for the attempt; the request may have been lost
\* with the connection, or be on its way, or have been handled.
Hangup(n) ==
  /\ send[n] = "fetching"
  /\ wire' \in {wire, {q \in wire : q.n # n \/ q.attempt # attempt[n]}}
  /\ answer' = {a \in answer : a.n # n}

\* fetch rejects: the connection failed or timed out.
NetworkFailure(n) ==
  /\ Hangup(n)
  /\ BackOff(n)
  /\ UNCHANGED <<simulation, process, sample, history>>

\* fetch rejects with AbortError: the send gives up.
AbortFetch(n) ==
  /\ aborted
  /\ Hangup(n)
  /\ Settle(n, "exhausted")
  /\ UNCHANGED <<simulation, process, sample, history>>

Post(n, k) == wire' = wire \cup {[n |-> n, attempt |-> k, body |-> Body(n)]}

\* Mutant of WakeUp: the abort cancels the timer the sleep waits for.
WakeUpUnlessAborted(n) ==
  /\ send[n] = "sleeping"
  /\ ~aborted
  /\ attempt' = [attempt EXCEPT ![n] = @ + 1]
  /\ send' = [send EXCEPT ![n] = "fetching"]
  /\ Post(n, attempt[n] + 1)
  /\ UNCHANGED <<simulation, process, sample, inFlight, answer, history>>

\* The backoff sleep, which no abort cuts short, is over: the next attempt,
\* or, when the signal is aborted by now, a fetch that rejects at once.
WakeUp(n) ==
  /\ send[n] = "sleeping"
  /\ \/ /\ ~aborted
        /\ attempt' = [attempt EXCEPT ![n] = @ + 1]
        /\ send' = [send EXCEPT ![n] = "fetching"]
        /\ Post(n, attempt[n] + 1)
        /\ UNCHANGED inFlight
     \/ /\ aborted
        /\ Settle(n, "exhausted")
        /\ UNCHANGED wire
  /\ UNCHANGED <<simulation, process, sample, answer, history>>

-----------------------------------------------------------------------------
(* The engine and the process *)

\* onTick: the robot moves by the time since the last tick, clamped.
OnTick ==
  /\ engine = "running" /\ ticks < MaxTicks
  /\ ticks' = ticks + 1
  /\ \E e \in Elapsed : robot' \in TickRobot(robot, e)
  /\ UNCHANGED <<process, sending, network, history>>

\* The telemetry timer fires and no send of the robot is pending.
MayEmit == engine = "running" /\ ~inFlight

\* emitTelemetryOnce: a frozen sample, and send() up to its first fetch.
EmitTelemetryOnce ==
  LET n == Cardinality(Taken) + 1
  IN /\ MayEmit
     /\ n \in Samples
     /\ sample' = [m \in Taken \cup {n} |-> IF m = n THEN Snapshot(n) ELSE sample[m]]
     /\ inFlight' = TRUE
     /\ send' = [send EXCEPT ![n] = "fetching"]
     /\ attempt' = [attempt EXCEPT ![n] = 1]
     /\ wire' = wire \cup {[n |-> n, attempt |-> 1, body |-> Snapshot(n)]}
     /\ UNCHANGED <<simulation, process, answer, history>>

\* SIGINT or SIGTERM: abort, and stop() up to its await, in one turn.  A
\* second signal finds `stopping` set and does nothing.
Shutdown ==
  /\ engine = "running"
  /\ engine' = "stopping"
  /\ aborted' = TRUE
  /\ UNCHANGED <<simulation, sending, network, history>>

Unsettled == {n \in Taken : send[n] \notin Settled}

\* Mutant of AllSettled: stop() does not wait for what is in flight.
NothingToWaitFor == TRUE

\* Promise.allSettled over inFlight.
AllSettled == Unsettled = {}

\* stop() returns and the process exits.
Exit ==
  /\ engine = "stopping"
  /\ AllSettled
  /\ engine' = "exited"
  /\ UNCHANGED <<aborted, simulation, sending, network, history>>

-----------------------------------------------------------------------------

\* The engine's constructor: a robot of the fleet, with the battery configured.
Constructed ==
  /\ \E c \in Fleet, b \in Batteries : robot = CreateSimulatedRobot(c, b)
  /\ sample = <<>>
  /\ inFlight = FALSE

\* start: the timers run, and the time of the last tick is now.
Started == engine = "running" /\ ticks = 0

\* main of the simulator, up to its first timer; the API's history is empty.
Init ==
  /\ Constructed
  /\ Started
  /\ aborted = FALSE
  /\ send = [n \in Samples |-> None]
  /\ attempt = [n \in Samples |-> 0]
  /\ wire = {} /\ answer = {} /\ history = {}

\* A step of the send of sample n.
Client(n) ==
  engine # "exited" /\ (Receive(n) \/ NetworkFailure(n) \/ AbortFetch(n) \/ WakeUp(n))

Next ==
  \/ OnTick
  \/ EmitTelemetryOnce
  \/ \E q \in wire : Handle(q)
  \/ \E n \in Samples : Client(n)
  \/ Shutdown
  \/ Exit

Spec == Init /\ [][Next]_vars

\* Timers fire and a fetch ends (Node's fetch has timeouts of its own), so a
\* send goes on; a promise that is settled resumes who awaits it.
Fairness == WF_vars(Exit) /\ \A n \in Samples : WF_vars(Client(n))

FairSpec == Spec /\ Fairness

-----------------------------------------------------------------------------
(* Properties *)

\* A robot the physics may produce: inside the walls, on the ground or at a
\* drone's altitude, with charge, heading and signal on their scales.
Lawful(r) ==
  /\ r.position.x \in Bounds.minX..Bounds.maxX
  /\ r.position.z \in Bounds.minZ..Bounds.maxZ
  /\ r.position.y \in IF r.type = "DRONE" THEN DroneFloor..Bounds.maxAltitude ELSE {0}
  /\ r.batteryPercent \in 0..100
  /\ r.headingDegrees \in 0..359
  /\ r.signalStrengthDbm \in (-120)..(-35)
  /\ r.behaviorPhase \in {"moving", "idle", "working"}

\* Every variable has its type, and the robot stays inside its world and its
\* scales (enforceBounds, the clamps of physics.ts), whatever the generator draws.
TypeOK ==
  /\ Lawful(robot)
  /\ ticks \in 0..MaxTicks
  /\ engine \in {"running", "stopping", "exited"} /\ aborted \in BOOLEAN
  /\ inFlight \in BOOLEAN
  /\ send \in [Samples -> {None, "fetching", "sleeping"} \cup Settled]
  /\ attempt \in [Samples -> 0..MaxAttempts]

\* The API never refuses what the simulator sends (HttpTelemetryProducer.send:
\* 400, 404 and 409 are permanent): every sample the physics produces satisfies
\* the contract, and no retry or late duplicate of it is a conflict.
NeverRefused == \A n \in Samples : send[n] # "permanent_error"

\* Samples arrive as captured and count once (emitTelemetryOnce, send): every
\* row of the API's history is the frozen sample of its source id, whichever
\* attempt wrote it and however the robot has moved since; and what the
\* producer calls accepted is there.
StoredAsCaptured ==
  /\ \A row \in history : row.source \in Taken /\ row = sample[row.source]
  /\ \A n \in Samples : send[n] = "accepted" => sample[n] \in history

\* Backpressure and a clean stop (emitTelemetryOnce, stop): the robot has one
\* pending send at most, inFlight says so, and the process does not exit before
\* every send is over.
OneSendAtATime ==
  /\ Cardinality(Unsettled) = IF inFlight THEN 1 ELSE 0
  /\ engine = "exited" => Unsettled = {}

\* The angle between two headings.
Angle(a, b) == LET d == (a - b) % 360 IN Smaller(d, 360 - d)

BearingFrom(r, target) ==
  HeadingFromVelocity(Minus(target, r.position))

\* What no tick does (tickRobot): move a robot further than its speed allows in
\* MAX_DELTA_SECONDS, move one that is spent or off duty, charge a battery, or
\* turn a robot away from where it is going.
MotionIsLawful ==
  [][LET from == robot.position
         to == robot'.position
         bearing == BearingFrom(robot, robot'.target)
     IN /\ Length(Minus([to EXCEPT !.y = from.y], from))
             <= ProfileOf(robot).maxSpeed * MaxDelta
        /\ robot.batteryPercent = 0 \/ robot'.behaviorPhase # "moving" => to = from
        /\ robot'.batteryPercent <= robot.batteryPercent
        /\ Angle(robot'.headingDegrees, bearing) <= Angle(robot.headingDegrees, bearing)
    ]_simulation

\* A send ends, so that its robot reports again, and a stop asked for ends in
\* an exit although the backoff sleep is not cut short.
ShutdownCompletes ==
  /\ \A n \in Samples :
       (send[n] \in {"fetching", "sleeping"}) ~> (send[n] \in Settled)
  /\ (engine = "stopping") ~> (engine = "exited")
===============================================================================
