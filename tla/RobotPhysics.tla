----------------------------- MODULE RobotPhysics -----------------------------
(***************************************************************************)
(* libs/simulation/src/physics.ts: one physics step of a simulated robot,  *)
(* as operators on the robot's record.  What the seeded generator draws is *)
(* a choice, so a step has a set of outcomes.                              *)
(*                                                                         *)
(* Units are coarse integers.  A length is a number of units, measured in  *)
(* the maximum norm; the arrival radius and the gains of the controllers   *)
(* are one unit.  Headings are degrees, and bearings are rounded to the    *)
(* eight winds, so that sine and cosine are -1, 0 or 1.  Temperature and   *)
(* the smoothing of the noise are left out: no decision reads them.        *)
(***************************************************************************)
EXTENDS Integers

CONSTANTS Bounds,       \* WorldBounds: minX, maxX, minZ, maxZ, maxAltitude
          Margin,       \* targets keep this far from the walls
          DroneFloor,   \* enforceBounds: a drone flies no lower
          MaxDelta,     \* MAX_DELTA_SECONDS
          BehaviorProfiles,   \* BEHAVIOR_PROFILES: the profile of a type
          Noise         \* what the signal noise can be

ASSUME WorldAssumption ==
  /\ Bounds \in [minX : Int, maxX : Int, minZ : Int, maxZ : Int, maxAltitude : Int]
  /\ Bounds.minX <= Bounds.maxX /\ Bounds.minZ <= Bounds.maxZ
  /\ DroneFloor \in Nat /\ DroneFloor <= Bounds.maxAltitude
  /\ Margin \in Nat /\ MaxDelta \in Nat /\ Noise \subseteq Int

-----------------------------------------------------------------------------
(* profiles.ts: a profile, with the two random waits of a phase as sets *)

BehaviorProfile ==
  [maxSpeed : Nat, cruiseAltitude : Nat, turnRate : Nat, baseDrain : Nat,
   movementDrain : Nat, retargetInterval : Nat, retargetTimes : SUBSET Nat,
   localizedRadius : Nat, idles : BOOLEAN, idleTimes : SUBSET Nat,
   workTimes : SUBSET Nat]

ASSUME ProfileAssumption ==
  \A type \in DOMAIN BehaviorProfiles : BehaviorProfiles[type] \in BehaviorProfile

ProfileOf(robot) == BehaviorProfiles[robot.type]

-----------------------------------------------------------------------------
(* world.ts *)

Smaller(a, b) == IF a <= b THEN a ELSE b
Larger(a, b) == IF a >= b THEN a ELSE b
Abs(a) == IF a < 0 THEN -a ELSE a

Clamp(value, min, max) == Smaller(max, Larger(min, value))

ClampDeltaSeconds(dt) == IF dt < 0 THEN 0 ELSE Smaller(dt, MaxDelta)

NormalizeHeading(degrees) == degrees % 360

Still == [x |-> 0, y |-> 0, z |-> 0]

Minus(a, b) == [x |-> a.x - b.x, y |-> a.y - b.y, z |-> a.z - b.z]

\* distance3 and speedOf.
Length(v) == Larger(Abs(v.x), Larger(Abs(v.y), Abs(v.z)))

-----------------------------------------------------------------------------
(* physics.ts *)

\* headingFromVelocity, on the eight winds.
HeadingFromVelocity(v) ==
  CASE v.x = 0 /\ v.z >= 0 -> 0
    [] v.x > 0 /\ v.z > 0  -> 45
    [] v.x > 0 /\ v.z = 0  -> 90
    [] v.x > 0 /\ v.z < 0  -> 135
    [] v.x = 0 /\ v.z < 0  -> 180
    [] v.x < 0 /\ v.z < 0  -> 225
    [] v.x < 0 /\ v.z = 0  -> 270
    [] v.x < 0 /\ v.z > 0  -> 315

Sin(heading) == IF heading \in 1..179 THEN 1 ELSE IF heading \in 181..359 THEN -1 ELSE 0
Cos(heading) == IF heading \in 91..269 THEN -1 ELSE IF heading \in {90, 270} THEN 0 ELSE 1

\* pickTarget: anywhere inside the margin, near home for a localized robot.
\* profile.localizedRadius is 0 where the code leaves it undefined.
Targets(robot) ==
  LET p == ProfileOf(robot)
      along(home, min, max) ==
        IF p.localizedRadius = 0 THEN (min + Margin)..(max - Margin)
        ELSE {Clamp(home + d, min + Margin, max - Margin) :
                d \in (-p.localizedRadius)..p.localizedRadius}
      altitudes ==
        IF robot.type = "DRONE"
        THEN ((p.cruiseAltitude * 4) \div 10)
               ..Smaller(Bounds.maxAltitude, (p.cruiseAltitude * 14) \div 10)
        ELSE {0}
  IN {[x |-> a, y |-> b, z |-> c] :
        a \in along(robot.home.x, Bounds.minX, Bounds.maxX), b \in altitudes,
        c \in along(robot.home.z, Bounds.minZ, Bounds.maxZ)}

ApproachHeading(current, desired, maxTurn) ==
  LET delta == ((desired - current + 540) % 360) - 180
  IN NormalizeHeading(current + Clamp(delta, -maxTurn, maxTurn))

\* enforceBounds along one axis: the wall stops the robot and turns its speed.
Bounce(p, v, min, max) ==
  IF p < min THEN [p |-> min, v |-> Abs(v)]
  ELSE IF p > max THEN [p |-> max, v |-> -Abs(v)]
  ELSE [p |-> p, v |-> v]

\* Mutant of EnforceBounds: the ground has no walls.
EnforceAltitude(robot) ==
  LET y == IF robot.type = "DRONE"
           THEN Bounce(robot.position.y, robot.velocity.y, DroneFloor, Bounds.maxAltitude)
           ELSE [p |-> 0, v |-> 0]
  IN [robot EXCEPT !.position.y = y.p, !.velocity.y = y.v]

EnforceBounds(robot) ==
  LET p == robot.position
      v == robot.velocity
      x == Bounce(p.x, v.x, Bounds.minX, Bounds.maxX)
      z == Bounce(p.z, v.z, Bounds.minZ, Bounds.maxZ)
      y == IF robot.type = "DRONE"
           THEN Bounce(p.y, v.y, DroneFloor, Bounds.maxAltitude)
           ELSE [p |-> 0, v |-> 0]
  IN [robot EXCEPT !.position = [x |-> x.p, y |-> y.p, z |-> z.p],
                   !.velocity = [x |-> x.v, y |-> y.v, z |-> z.v]]

\* A robot that stands for a while, and one that goes for a target.
Rest(robot, phase, times) ==
  {[robot EXCEPT !.behaviorPhase = phase, !.velocity = Still, !.phaseTimer = t] : t \in times}

MovingTo(robot, w, t) ==
  [robot EXCEPT !.behaviorPhase = "moving", !.target = w, !.phaseTimer = t]

Retarget(robot) ==
  {MovingTo(robot, w, t) : w \in Targets(robot), t \in ProfileOf(robot).retargetTimes}

\* The generator picks the next phase: a worker may idle, a miner may dig.
NextPhases(robot) ==
  LET p == ProfileOf(robot)
  IN (IF p.idles THEN Rest(robot, "idle", p.idleTimes) ELSE {})
     \cup (IF robot.type = "MINER" THEN Rest(robot, "working", p.workTimes) ELSE {})
     \cup Retarget(robot)

\* updateBehaviorPhase: a phase lasts until its timer is over.
UpdateBehaviorPhase(robot, dt) ==
  LET left == robot.phaseTimer - dt
  IN IF left > 0 THEN {[robot EXCEPT !.phaseTimer = left]} ELSE NextPhases(robot)

\* Mutant of Halts: an empty battery does not stop a robot.
HaltsOffDuty(robot) == robot.behaviorPhase # "moving"

\* steerTowardTarget's first early return.
Halts(robot) == robot.behaviorPhase # "moving" \/ robot.batteryPercent <= 0

SteerTowardTarget(robot, dt) ==
  LET far == Minus(robot.target, robot.position)
      way == IF robot.type = "DRONE" THEN far ELSE [far EXCEPT !.y = 0]
      heading == ApproachHeading(robot.headingDegrees, HeadingFromVelocity(way),
                                 ProfileOf(robot).turnRate * dt)
      speed == Smaller(ProfileOf(robot).maxSpeed, Length(way))
  IN IF Halts(robot) THEN [robot EXCEPT !.velocity = Still]
     ELSE IF Length(way) < 1 THEN [robot EXCEPT !.velocity = Still, !.phaseTimer = 0]
     ELSE [robot EXCEPT !.headingDegrees = heading,
             !.velocity = [x |-> Sin(heading) * speed,
                           y |-> Clamp(way.y, -1, 1),
                           z |-> Cos(heading) * speed]]

Move(robot, dt) ==
  [robot EXCEPT !.position = [x |-> robot.position.x + robot.velocity.x * dt,
                              y |-> robot.position.y + robot.velocity.y * dt,
                              z |-> robot.position.z + robot.velocity.z * dt]]

\* Mutant of UpdateBattery: the charge is not clamped.
DrainUnclamped(robot, dt) ==
  [robot EXCEPT !.batteryPercent = robot.batteryPercent
     - (ProfileOf(robot).baseDrain + Length(robot.velocity) * ProfileOf(robot).movementDrain) * dt]

\* updateBattery: nothing recharges it, and an empty one stops the robot.
UpdateBattery(robot, dt) ==
  LET p == ProfileOf(robot)
      drain == (p.baseDrain + Length(robot.velocity) * p.movementDrain) * dt
      charge == Clamp(robot.batteryPercent - drain, 0, 100)
  IN [robot EXCEPT !.batteryPercent = charge,
                   !.velocity = IF charge <= 0 THEN Still ELSE @]

\* updateSignal: weaker with the distance to the base at the origin.
UpdateSignal(robot, noise) ==
  [robot EXCEPT !.signalStrengthDbm =
     Clamp(-45 - Length(robot.position) * 40 + noise, -120, -35)]

\* tickRobot: what a step of elapsed time can make of a robot.
TickRobot(robot, elapsed) ==
  LET dt == ClampDeltaSeconds(elapsed)
      moved(b) == EnforceBounds(Move(SteerTowardTarget(b, dt), dt))
  IN IF dt <= 0 THEN {robot}
     ELSE {UpdateSignal(UpdateBattery(moved(b), dt), n) :
             b \in UpdateBehaviorPhase(robot, dt), n \in Noise}

-----------------------------------------------------------------------------
(* fleet.ts *)

\* createSimulatedRobot, with the battery of the config or of its override.
CreateSimulatedRobot(config, battery) ==
  LET at == config.initialPosition
      p == ProfileOf(config)
      y == IF config.type = "DRONE" THEN Larger(at.y, p.cruiseAltitude \div 2) ELSE 0
  IN [type |-> config.type,
      position |-> [x |-> at.x, y |-> y, z |-> at.z], velocity |-> Still,
      headingDegrees |-> 0, batteryPercent |-> Smaller(100, Larger(0, battery)),
      signalStrengthDbm |-> -55, behaviorPhase |-> "moving",
      target |-> at, home |-> at, phaseTimer |-> p.retargetInterval]
===============================================================================
