------------------------- MODULE TelemetryUplinkProofs -------------------------
(***************************************************************************)
(* Invariance proofs for TelemetryUplink: for every world, fleet, profile  *)
(* and noise, and any number of samples, ticks and attempts, the simulated *)
(* robot stays inside its world and on its scales, moves as its profile    *)
(* and its battery allow, one send is pending at a time, and what the API  *)
(* stores is what was captured.                                            *)
(***************************************************************************)
EXTENDS TelemetryUplink, FiniteSetTheorems, TLAPS

-----------------------------------------------------------------------------
(* One physics step *)

Vector == [x : Int, y : Int, z : Int]

\* A robot whose fields are numbers of the right kind.
Typed(r) ==
  r \in [type : DOMAIN BehaviorProfiles, position : Vector, velocity : Vector,
         headingDegrees : 0..359, batteryPercent : 0..100, signalStrengthDbm : Int,
         behaviorPhase : {"moving", "idle", "working"}, target : Vector, home : Vector,
         phaseTimer : Int]

\* Inside the walls, on the ground or at a drone's altitude.
Inside(r) ==
  /\ r.position.x \in Bounds.minX..Bounds.maxX
  /\ r.position.z \in Bounds.minZ..Bounds.maxZ
  /\ r.position.y \in IF r.type = "DRONE" THEN DroneFloor..Bounds.maxAltitude ELSE {0}

\* Writing a field leaves a robot typed and its other fields alone.
LEMMA WriteVelocity ==
  ASSUME NEW r, Typed(r), NEW v \in Vector, NEW s, s = [r EXCEPT !.velocity = v]
  PROVE  Typed(s) /\ s.position = r.position /\ s.type = r.type
BY DEF Typed

LEMMA WritePosition ==
  ASSUME NEW r, Typed(r), NEW v \in Vector, NEW s, s = [r EXCEPT !.position = v]
  PROVE  Typed(s) /\ s.position = v /\ s.type = r.type
BY DEF Typed

LEMMA WriteTarget ==
  ASSUME NEW r, Typed(r), NEW v \in Vector, NEW s, s = [r EXCEPT !.target = v]
  PROVE  Typed(s) /\ s.position = r.position /\ s.type = r.type
BY DEF Typed

LEMMA WriteTimer ==
  ASSUME NEW r, Typed(r), NEW v \in Int, NEW s, s = [r EXCEPT !.phaseTimer = v]
  PROVE  Typed(s) /\ s.position = r.position /\ s.type = r.type
BY DEF Typed

LEMMA WritePhase ==
  ASSUME NEW r, Typed(r), NEW v \in {"moving", "idle", "working"}, NEW s, s = [r EXCEPT !.behaviorPhase = v]
  PROVE  Typed(s) /\ s.position = r.position /\ s.type = r.type
BY DEF Typed

LEMMA WriteHeading ==
  ASSUME NEW r, Typed(r), NEW v \in 0..359, NEW s, s = [r EXCEPT !.headingDegrees = v]
  PROVE  Typed(s) /\ s.position = r.position /\ s.type = r.type
BY DEF Typed

LEMMA WriteBattery ==
  ASSUME NEW r, Typed(r), NEW v \in 0..100, NEW s, s = [r EXCEPT !.batteryPercent = v]
  PROVE  Typed(s) /\ s.position = r.position /\ s.type = r.type
BY DEF Typed

LEMMA WriteSignal ==
  ASSUME NEW r, Typed(r), NEW v \in Int, NEW s, s = [r EXCEPT !.signalStrengthDbm = v]
  PROVE  Typed(s) /\ s.position = r.position /\ s.type = r.type /\ s.signalStrengthDbm = v
BY DEF Typed

\* The bounds of the helpers of world.ts.
LEMMA LengthIn ==
  ASSUME NEW v \in Vector
  PROVE  Length(v) \in Nat
BY DEF Length, Larger, Abs, Vector

\* clamp gives a number.
LEMMA ClampTyped ==
  ASSUME NEW v \in Int, NEW a \in Int, NEW b \in Int
  PROVE  Clamp(v, a, b) \in Int
BY DEF Clamp, Smaller, Larger

\* The profile of a robot is a profile.
LEMMA ProfileTyped ==
  ASSUME NEW r, Typed(r)
  PROVE  ProfileOf(r) \in BehaviorProfile
BY ProfileAssumption DEF ProfileOf, Typed

\* approachHeading turns to a heading on the compass.
LEMMA HeadingIn ==
  ASSUME NEW current \in Int, NEW desired \in Int, NEW maxTurn \in Int
  PROVE  ApproachHeading(current, desired, maxTurn) \in 0..359
<1> DEFINE delta == ((desired - current + 540) % 360) - 180
<1>1. delta \in Int
  OBVIOUS
<1> HIDE DEF delta
<1>2. Clamp(delta, -maxTurn, maxTurn) \in Int
  BY <1>1, ClampTyped
<1>3. ApproachHeading(current, desired, maxTurn) = (current + Clamp(delta, -maxTurn, maxTurn)) % 360
  BY DEF ApproachHeading, NormalizeHeading, delta
<1>4. \A n \in Int : n % 360 \in 0..359
  OBVIOUS
<1> QED BY <1>2, <1>3, <1>4

\* pickTarget picks a point.
LEMMA TargetTyped ==
  ASSUME NEW r, Typed(r), NEW w \in Targets(r)
  PROVE  w \in Vector
<1>1. /\ ProfileOf(r).localizedRadius \in Nat /\ ProfileOf(r).cruiseAltitude \in Nat
  BY ProfileTyped DEF BehaviorProfile
<1>2. /\ Bounds.minX \in Int /\ Bounds.maxX \in Int /\ Bounds.minZ \in Int /\ Bounds.maxZ \in Int
      /\ Bounds.maxAltitude \in Int /\ Margin \in Int
  BY WorldAssumption
<1>3. r.home.x \in Int /\ r.home.z \in Int
  BY DEF Typed, Vector
<1>4. \A h \in Int, d \in Int, a \in Int, b \in Int : Clamp(h + d, a + Margin, b - Margin) \in Int
  BY <1>2, ClampTyped
<1>5. \A a \in Int, b \in Int : \A d \in a..b : d \in Int
  OBVIOUS
<1>6. PICK a, b, c :
        /\ w = [x |-> a, y |-> b, z |-> c]
        /\ a \in Int /\ b \in Int /\ c \in Int
  BY <1>1, <1>2, <1>3, <1>4, <1>5 DEF Targets, Smaller
<1> QED BY <1>6 DEF Vector

\* updateBehaviorPhase keeps a robot typed, and where it is.
LEMMA PhaseTyped ==
  ASSUME NEW r, Typed(r), NEW dt \in Nat, NEW s \in UpdateBehaviorPhase(r, dt)
  PROVE  Typed(s) /\ s.position = r.position /\ s.type = r.type
<1>1. /\ ProfileOf(r).idleTimes \subseteq Int /\ ProfileOf(r).workTimes \subseteq Int
      /\ ProfileOf(r).retargetTimes \subseteq Int
  BY ProfileTyped DEF BehaviorProfile
<1>2. Still \in Vector
  BY DEF Still, Vector
<1>3. r.phaseTimer - dt \in Int
  BY DEF Typed
<1>4. CASE s = [r EXCEPT !.phaseTimer = r.phaseTimer - dt]
  BY <1>3, <1>4, WriteTimer
<1>5. ASSUME NEW p \in {"idle", "working"}, NEW t \in Int,
             s = [r EXCEPT !.behaviorPhase = p, !.velocity = Still, !.phaseTimer = t]
      PROVE  Typed(s) /\ s.position = r.position /\ s.type = r.type
  <2>1. PICK a : a = [r EXCEPT !.behaviorPhase = p]
    OBVIOUS
  <2>2. PICK b : b = [a EXCEPT !.velocity = Still]
    OBVIOUS
  <2>3. s = [b EXCEPT !.phaseTimer = t]
    BY <1>5, <2>1, <2>2
  <2>4. Typed(a) /\ a.position = r.position /\ a.type = r.type
    BY <2>1, WritePhase
  <2>5. Typed(b) /\ b.position = r.position /\ b.type = r.type
    BY <1>2, <2>2, <2>4, WriteVelocity
  <2> QED BY <2>3, <2>5, WriteTimer
<1>6. ASSUME NEW w \in Targets(r), NEW t \in Int,
             s = [r EXCEPT !.behaviorPhase = "moving", !.target = w, !.phaseTimer = t]
      PROVE  Typed(s) /\ s.position = r.position /\ s.type = r.type
  <2>1. PICK a : a = [r EXCEPT !.behaviorPhase = "moving"]
    OBVIOUS
  <2>2. PICK b : b = [a EXCEPT !.target = w]
    OBVIOUS
  <2>3. s = [b EXCEPT !.phaseTimer = t]
    BY <1>6, <2>1, <2>2
  <2>4. Typed(a) /\ a.position = r.position /\ a.type = r.type
    BY <2>1, WritePhase
  <2>5. w \in Vector
    BY TargetTyped
  <2>6. Typed(b) /\ b.position = r.position /\ b.type = r.type
    BY <2>2, <2>4, <2>5, WriteTarget
  <2> QED BY <2>3, <2>6, WriteTimer
<1>7. CASE r.phaseTimer - dt > 0
  BY <1>4, <1>7 DEF UpdateBehaviorPhase
<1>8. CASE ~(r.phaseTimer - dt > 0)
  <2>1. s \in NextPhases(r)
    BY <1>8 DEF UpdateBehaviorPhase
  <2>2. CASE s \in Rest(r, "idle", ProfileOf(r).idleTimes)
    BY <1>1, <1>5, <2>2 DEF Rest
  <2>3. CASE s \in Rest(r, "working", ProfileOf(r).workTimes)
    BY <1>1, <1>5, <2>3 DEF Rest
  <2>4. CASE s \in Retarget(r)
    <3>1. PICK w \in Targets(r), t \in ProfileOf(r).retargetTimes : s = MovingTo(r, w, t)
      BY <2>4 DEF Retarget
    <3>2. t \in Int
      BY <1>1
    <3> QED BY <1>6, <3>1, <3>2 DEF MovingTo
  <2> QED BY <2>1, <2>2, <2>3, <2>4 DEF NextPhases
<1> QED BY <1>7, <1>8

\* steerTowardTarget keeps a robot typed.
LEMMA SteerTyped ==
  ASSUME NEW r, Typed(r), NEW dt \in Nat
  PROVE  Typed(SteerTowardTarget(r, dt)) /\ SteerTowardTarget(r, dt).type = r.type
<1> DEFINE far == Minus(r.target, r.position)
           way == IF r.type = "DRONE" THEN far ELSE [far EXCEPT !.y = 0]
           heading == ApproachHeading(r.headingDegrees, HeadingFromVelocity(way),
                                      ProfileOf(r).turnRate * dt)
           speed == Smaller(ProfileOf(r).maxSpeed, Length(way))
<1>1. far \in Vector
  BY DEF Typed, Vector, Minus
<1>2. way \in Vector
  BY <1>1 DEF Vector
<1> HIDE DEF far, way
<1>3. heading \in 0..359
  <2>1. HeadingFromVelocity(way) \in Int
    BY <1>2 DEF Vector, HeadingFromVelocity
  <2>2. ProfileOf(r).turnRate * dt \in Int
    BY ProfileTyped DEF BehaviorProfile
  <2>3. r.headingDegrees \in Int
    BY DEF Typed
  <2> QED BY <2>1, <2>2, <2>3, HeadingIn
<1>4. speed \in Int
  <2>1. Length(way) \in Nat /\ ProfileOf(r).maxSpeed \in Nat
    BY <1>2, LengthIn, ProfileTyped DEF BehaviorProfile
  <2> QED BY <2>1 DEF Smaller
<1> HIDE DEF heading, speed
<1>5. [x |-> Sin(heading) * speed, y |-> Clamp(way.y, -1, 1), z |-> Cos(heading) * speed] \in Vector
  <2>1. Clamp(way.y, -1, 1) \in Int
    BY <1>2, ClampTyped DEF Vector
  <2>2. Sin(heading) \in {-1, 0, 1} /\ Cos(heading) \in {-1, 0, 1}
    BY DEF Sin, Cos
  <2>3. Sin(heading) * speed \in Int /\ Cos(heading) * speed \in Int
    BY <1>4, <2>2
  <2> QED BY <2>1, <2>3 DEF Vector
<1>6. Still \in Vector
  BY DEF Still, Vector
<1> DEFINE course == [x |-> Sin(heading) * speed, y |-> Clamp(way.y, -1, 1),
                      z |-> Cos(heading) * speed]
<1>7. \/ SteerTowardTarget(r, dt) = [r EXCEPT !.velocity = Still]
      \/ SteerTowardTarget(r, dt) = [r EXCEPT !.velocity = Still, !.phaseTimer = 0]
      \/ SteerTowardTarget(r, dt) = [r EXCEPT !.headingDegrees = heading, !.velocity = course]
  BY DEF SteerTowardTarget, far, way, heading, speed
<1>8. course \in Vector
  BY <1>5
<1> HIDE DEF course
<1>9. CASE SteerTowardTarget(r, dt) = [r EXCEPT !.velocity = Still]
  BY <1>6, <1>9, WriteVelocity
<1>10. CASE SteerTowardTarget(r, dt) = [r EXCEPT !.velocity = Still, !.phaseTimer = 0]
  <2>1. PICK a : a = [r EXCEPT !.velocity = Still]
    OBVIOUS
  <2>2. SteerTowardTarget(r, dt) = [a EXCEPT !.phaseTimer = 0]
    BY <1>10, <2>1
  <2>3. Typed(a) /\ a.type = r.type
    BY <1>6, <2>1, WriteVelocity
  <2>4. 0 \in Int
    OBVIOUS
  <2> QED BY <2>2, <2>3, <2>4, WriteTimer
<1>11. CASE SteerTowardTarget(r, dt) =
              [r EXCEPT !.headingDegrees = heading, !.velocity = course]
  <2>1. PICK a : a = [r EXCEPT !.headingDegrees = heading]
    OBVIOUS
  <2>2. SteerTowardTarget(r, dt) = [a EXCEPT !.velocity = course]
    BY <1>11, <2>1
  <2>3. Typed(a) /\ a.type = r.type
    BY <1>3, <2>1, WriteHeading, ZenonT(30)
  <2> QED BY <1>8, <2>2, <2>3, WriteVelocity
<1> QED BY <1>7, <1>9, <1>10, <1>11

\* The move along the velocity keeps a robot typed, but not inside its world.
LEMMA MoveTyped ==
  ASSUME NEW r, Typed(r), NEW dt \in Nat
  PROVE  Typed(Move(r, dt)) /\ Move(r, dt).type = r.type
<1>1. \A a \in Int, b \in Int : a + b * dt \in Int
  OBVIOUS
<1>2. [x |-> r.position.x + r.velocity.x * dt, y |-> r.position.y + r.velocity.y * dt,
       z |-> r.position.z + r.velocity.z * dt] \in Vector
  BY <1>1 DEF Typed, Vector
<1> QED BY <1>2, WritePosition DEF Move

\* A bounce ends between the walls.
LEMMA BounceIn ==
  ASSUME NEW p \in Int, NEW v \in Int, NEW a \in Int, NEW b \in Int, a <= b
  PROVE  Bounce(p, v, a, b).p \in a..b /\ Bounce(p, v, a, b).v \in Int
BY DEF Bounce, Abs

\* enforceBounds brings a robot back, wherever it is.
LEMMA BoundsHold ==
  ASSUME NEW r, Typed(r)
  PROVE  LET s == EnforceBounds(r) IN Typed(s) /\ Inside(s) /\ s.type = r.type
<1> DEFINE x == Bounce(r.position.x, r.velocity.x, Bounds.minX, Bounds.maxX)
           z == Bounce(r.position.z, r.velocity.z, Bounds.minZ, Bounds.maxZ)
           y == IF r.type = "DRONE"
                THEN Bounce(r.position.y, r.velocity.y, DroneFloor, Bounds.maxAltitude)
                ELSE [p |-> 0, v |-> 0]
<1>1. /\ r.position.x \in Int /\ r.position.y \in Int /\ r.position.z \in Int
      /\ r.velocity.x \in Int /\ r.velocity.y \in Int /\ r.velocity.z \in Int
  BY DEF Typed, Vector
<1>2. /\ Bounds.minX \in Int /\ Bounds.maxX \in Int /\ Bounds.minX <= Bounds.maxX
      /\ Bounds.minZ \in Int /\ Bounds.maxZ \in Int /\ Bounds.minZ <= Bounds.maxZ
      /\ DroneFloor \in Int /\ Bounds.maxAltitude \in Int /\ DroneFloor <= Bounds.maxAltitude
  BY WorldAssumption
<1>3. x.p \in Bounds.minX..Bounds.maxX /\ x.v \in Int
  BY <1>1, <1>2, BounceIn
<1>4. z.p \in Bounds.minZ..Bounds.maxZ /\ z.v \in Int
  BY <1>1, <1>2, BounceIn
<1>5. y.p \in (IF r.type = "DRONE" THEN DroneFloor..Bounds.maxAltitude ELSE {0}) /\ y.v \in Int
  <2>1. CASE r.type = "DRONE"
    BY <1>1, <1>2, <2>1, BounceIn
  <2>2. CASE r.type # "DRONE"
    BY <2>2
  <2> QED BY <2>1, <2>2
<1>6. x.p \in Int /\ y.p \in Int /\ z.p \in Int
  BY <1>2, <1>3, <1>4, <1>5
<1>7. EnforceBounds(r) = [r EXCEPT !.position = [x |-> x.p, y |-> y.p, z |-> z.p],
                                   !.velocity = [x |-> x.v, y |-> y.v, z |-> z.v]]
  BY DEF EnforceBounds
<1> HIDE DEF x, y, z
<1>8. [x |-> x.p, y |-> y.p, z |-> z.p] \in Vector /\ [x |-> x.v, y |-> y.v, z |-> z.v] \in Vector
  BY <1>3, <1>4, <1>5, <1>6 DEF Vector
<1>9. Typed(EnforceBounds(r)) /\ EnforceBounds(r).type = r.type
      /\ EnforceBounds(r).position = [x |-> x.p, y |-> y.p, z |-> z.p]
  <2>1. PICK a : a = [r EXCEPT !.position = [x |-> x.p, y |-> y.p, z |-> z.p]]
    OBVIOUS
  <2>2. EnforceBounds(r) = [a EXCEPT !.velocity = [x |-> x.v, y |-> y.v, z |-> z.v]]
    BY <1>7, <2>1
  <2>3. Typed(a) /\ a.type = r.type /\ a.position = [x |-> x.p, y |-> y.p, z |-> z.p]
    BY <1>8, <2>1, WritePosition
  <2> QED BY <1>8, <2>2, <2>3, WriteVelocity
<1> QED BY <1>3, <1>4, <1>5, <1>9 DEF Inside

\* updateBattery keeps a robot typed, and where it is.
LEMMA BatteryTyped ==
  ASSUME NEW r, Typed(r), NEW dt \in Nat
  PROVE  LET s == UpdateBattery(r, dt)
         IN  Typed(s) /\ s.position = r.position /\ s.type = r.type
<1> DEFINE drain == (ProfileOf(r).baseDrain + Length(r.velocity) * ProfileOf(r).movementDrain) * dt
           charge == Clamp(r.batteryPercent - drain, 0, 100)
<1>1. drain \in Int
  <2>1. /\ ProfileOf(r).baseDrain \in Nat /\ ProfileOf(r).movementDrain \in Nat
        /\ Length(r.velocity) \in Nat
    BY ProfileTyped, LengthIn DEF Typed, BehaviorProfile
  <2>2. Length(r.velocity) * ProfileOf(r).movementDrain \in Nat
    BY <2>1
  <2> QED BY <2>1, <2>2
<1> HIDE DEF drain
<1>2. charge \in 0..100
  <2>1. r.batteryPercent - drain \in Int
    BY <1>1 DEF Typed
  <2> QED BY <2>1 DEF Clamp, Smaller, Larger
<1> HIDE DEF charge
<1>3. Still \in Vector
  BY DEF Still, Vector
<1>4. UpdateBattery(r, dt) =
        [r EXCEPT !.batteryPercent = charge, !.velocity = IF charge <= 0 THEN Still ELSE @]
  BY DEF UpdateBattery, charge, drain
<1>5. PICK a : a = [r EXCEPT !.batteryPercent = charge]
  OBVIOUS
<1>6. Typed(a) /\ a.position = r.position /\ a.type = r.type
  BY <1>2, <1>5, WriteBattery
<1>7. CASE charge <= 0
  <2>1. UpdateBattery(r, dt) = [a EXCEPT !.velocity = Still]
    BY <1>4, <1>5, <1>7
  <2> QED BY <1>3, <1>6, <2>1, WriteVelocity
<1>8. CASE ~(charge <= 0)
  <2>1. UpdateBattery(r, dt) = a
    BY <1>4, <1>5, <1>8 DEF Typed
  <2> QED BY <1>6, <2>1
<1> QED BY <1>7, <1>8

\* updateSignal keeps the signal on its scale.
LEMMA SignalIn ==
  ASSUME NEW r, Typed(r), NEW n \in Noise
  PROVE  LET s == UpdateSignal(r, n)
         IN  /\ Typed(s) /\ s.position = r.position /\ s.type = r.type
             /\ s.signalStrengthDbm \in (-120)..(-35)
<1>1. Length(r.position) \in Nat /\ n \in Int
  BY LengthIn, WorldAssumption DEF Typed
<1> DEFINE weaker == -45 - Length(r.position) * 40 + n
<1>2. weaker \in Int
  BY <1>1
<1> HIDE DEF weaker
<1>3. Clamp(weaker, -120, -35) \in (-120)..(-35)
  BY <1>2 DEF Clamp, Smaller, Larger
<1>4. UpdateSignal(r, n) = [r EXCEPT !.signalStrengthDbm = Clamp(weaker, -120, -35)]
  BY DEF UpdateSignal, weaker
<1>5. Clamp(weaker, -120, -35) \in Int
  BY <1>3
<1> QED BY <1>3, <1>4, <1>5, WriteSignal

\* tickRobot keeps a robot typed and lawful, whatever the generator draws.
LEMMA TickLawful ==
  ASSUME NEW r, Typed(r), Lawful(r), NEW e \in Nat, NEW s \in TickRobot(r, e)
  PROVE  Typed(s) /\ Lawful(s) /\ s.type = r.type
<1> DEFINE dt == ClampDeltaSeconds(e)
<1>1. dt \in Nat
  BY WorldAssumption DEF ClampDeltaSeconds, Smaller
<1> HIDE DEF dt
<1>2. CASE dt <= 0
  BY <1>2 DEF TickRobot, dt
<1>3. CASE ~(dt <= 0)
  <2>1. PICK b \in UpdateBehaviorPhase(r, dt), n \in Noise :
          s = UpdateSignal(UpdateBattery(
                EnforceBounds(Move(SteerTowardTarget(b, dt), dt)), dt), n)
    BY <1>3 DEF TickRobot, dt
  <2>2. PICK b1 : b1 = SteerTowardTarget(b, dt)
    OBVIOUS
  <2>3. PICK b2 : b2 = Move(b1, dt)
    OBVIOUS
  <2>4. PICK b3 : b3 = EnforceBounds(b2)
    OBVIOUS
  <2>5. PICK b4 : b4 = UpdateBattery(b3, dt)
    OBVIOUS
  <2>6. Typed(b) /\ b.type = r.type
    BY <1>1, PhaseTyped
  <2>7. Typed(b1) /\ b1.type = r.type
    BY <1>1, <2>2, <2>6, SteerTyped
  <2>8. Typed(b2) /\ b2.type = r.type
    BY <1>1, <2>3, <2>7, MoveTyped
  <2>9. Typed(b3) /\ Inside(b3) /\ b3.type = r.type
    BY <2>4, <2>8, BoundsHold
  <2>10. Typed(b4) /\ b4.position = b3.position /\ b4.type = r.type
    BY <1>1, <2>5, <2>9, BatteryTyped
  <2>11. s = UpdateSignal(b4, n)
    BY <2>1, <2>2, <2>3, <2>4, <2>5
  <2>12. /\ Typed(s) /\ s.position = b4.position /\ s.type = r.type
         /\ s.signalStrengthDbm \in (-120)..(-35)
    BY <2>10, <2>11, SignalIn
  <2>13. Inside(s)
    BY <2>9, <2>10, <2>12 DEF Inside
  <2> QED BY <2>12, <2>13 DEF Lawful, Inside, Typed
<1> QED BY <1>2, <1>3

-----------------------------------------------------------------------------
(* What a physics step does to the motion *)

\* Two naturals and two larger ones.
LEMMA ProductsOrdered ==
  ASSUME NEW a \in Nat, NEW b \in Nat, NEW c \in Nat, NEW d \in Nat, a <= b, c <= d
  PROVE  a * c <= b * d
<1>1. PICK i \in Nat : b = a + i
  <2>1. b - a \in Nat /\ b = a + (b - a)
    OBVIOUS
  <2> QED BY <2>1
<1>2. PICK j \in Nat : d = c + j
  <2>1. d - c \in Nat /\ d = c + (d - c)
    OBVIOUS
  <2> QED BY <2>1
<1>3. b * d = a * c + (a * j + i * c + i * j)
  BY <1>1, <1>2
<1>4. a * j \in Nat /\ i * c \in Nat /\ i * j \in Nat /\ a * c \in Nat
  OBVIOUS
<1> QED BY <1>3, <1>4

\* How far a speed takes a robot in a time.
LEMMA WayIsBounded ==
  ASSUME NEW v \in Int, NEW max \in Nat, Abs(v) <= max, NEW t \in Nat, NEW d \in Nat, t <= d
  PROVE  Abs(v * t) <= max * d
<1> DEFINE a == Abs(v)
<1>1. a \in Nat /\ (v = a \/ v = -a)
  BY DEF Abs
<1> HIDE DEF a
<1>2. a * t \in Nat /\ (v * t = a * t \/ v * t = -(a * t))
  BY <1>1
<1>3. a * t <= max * d
  BY <1>1, ProductsOrdered DEF a
<1>4. Abs(v * t) = a * t
  BY <1>2 DEF Abs
<1> QED BY <1>3, <1>4

\* The angle between headings that differ by e and whole turns.
LEMMA AngleIs ==
  ASSUME NEW a \in Int, NEW b \in Int, NEW k \in Int, NEW e \in (-180)..180,
         a - b = e + 360 * k
  PROVE  Angle(a, b) = Abs(e)
<1>1. (a - b) % 360 = IF e < 0 THEN e + 360 ELSE e
  OBVIOUS
<1> QED BY <1>1 DEF Angle, Abs, Smaller

\* A number of degrees is a heading and whole turns.
LEMMA Turns ==
  ASSUME NEW n \in Int
  PROVE  \E k \in Int : n = (n % 360) + 360 * k
<1>1. n = (n % 360) + 360 * (n \div 360) /\ n \div 360 \in Int
  OBVIOUS
<1> QED BY <1>1

\* A turn that is clamped stays between none and all of it.
LEMMA ClampBetween ==
  ASSUME NEW e \in (-180)..180, NEW t \in Nat
  PROVE  LET c == Clamp(e, -t, t) IN c \in Int /\ c - e \in (-180)..180 /\ Abs(c - e) <= Abs(e)
BY DEF Clamp, Smaller, Larger, Abs

\* approachHeading turns towards the desired heading and not past it.
LEMMA TurnsToward ==
  ASSUME NEW h \in Int, NEW d \in Int, NEW t \in Nat
  PROVE  Angle(ApproachHeading(h, d, t), d) <= Angle(h, d)
<1> DEFINE m == d - h + 540
           e == (m % 360) - 180
           c == Clamp(e, -t, t)
<1>1. ApproachHeading(h, d, t) = (h + c) % 360
  BY DEF ApproachHeading, NormalizeHeading
<1>2. m \in Int /\ d - h = m - 540
  OBVIOUS
<1> HIDE DEF m
<1>3. PICK k \in Int : d - h = e + 360 * k
  <2>1. PICK j \in Int : m = (m % 360) + 360 * j
    BY <1>2, Turns
  <2>2. m % 360 \in Int
    BY <1>2
  <2>3. d - h = e + 360 * (j - 1) /\ j - 1 \in Int
    BY <1>2, <2>1, <2>2
  <2> QED BY <2>3
<1>4. e \in (-180)..180
  BY <1>2
<1> HIDE DEF e
<1>5. c \in Int /\ c - e \in (-180)..180 /\ Abs(c - e) <= Abs(e)
  BY <1>4, ClampBetween
<1> HIDE DEF c
<1>6. PICK n \in Int : h + c = ((h + c) % 360) + 360 * n
  BY <1>5, Turns
<1>7. Angle(h, d) = Abs(-e)
  <2> DEFINE f == -e
             j == -k
  <2>1. h - d = f + 360 * j /\ j \in Int /\ f \in (-180)..180
    BY <1>3, <1>4
  <2> HIDE DEF f, j
  <2>2. Angle(h, d) = Abs(f)
    BY <2>1, AngleIs
  <2> QED BY <2>2 DEF f
<1>8. Angle((h + c) % 360, d) = Abs(c - e)
  <2> DEFINE g == (h + c) % 360
             f == c - e
             j == -n - k
  <2>1. g \in Int /\ f \in (-180)..180 /\ j \in Int
    BY <1>5
  <2>2. g - d = f + 360 * j
    BY <1>3, <1>4, <1>5, <1>6, <2>1
  <2> HIDE DEF f, g, j
  <2>3. Angle(g, d) = Abs(f)
    BY <2>1, <2>2, AngleIs
  <2> QED BY <2>3 DEF f, g
<1>9. Abs(-e) = Abs(e)
  BY <1>4 DEF Abs
<1> QED BY <1>1, <1>5, <1>7, <1>8, <1>9

\* What the statements of tickRobot after updateBehaviorPhase leave alone.
Course(r) == <<r.type, r.target, r.behaviorPhase>>

\* updateBehaviorPhase chooses where to go, and no more.
LEMMA PhaseKeeps ==
  ASSUME NEW r, Typed(r), NEW dt \in Nat, NEW s \in UpdateBehaviorPhase(r, dt)
  PROVE  s.headingDegrees = r.headingDegrees /\ s.batteryPercent = r.batteryPercent
<1>1. \A t : LET a == [r EXCEPT !.phaseTimer = t]
             IN a.headingDegrees = r.headingDegrees /\ a.batteryPercent = r.batteryPercent
  BY DEF Typed
<1>2. \A p, v, t : LET a == [r EXCEPT !.behaviorPhase = p, !.velocity = v, !.phaseTimer = t]
                   IN a.headingDegrees = r.headingDegrees /\ a.batteryPercent = r.batteryPercent
  BY DEF Typed
<1>3. \A p, w, t : LET a == [r EXCEPT !.behaviorPhase = p, !.target = w, !.phaseTimer = t]
                   IN a.headingDegrees = r.headingDegrees /\ a.batteryPercent = r.batteryPercent
  BY DEF Typed
<1>4. CASE r.phaseTimer - dt > 0
  BY <1>1, <1>4 DEF UpdateBehaviorPhase
<1>5. CASE ~(r.phaseTimer - dt > 0)
  <2>1. s \in NextPhases(r)
    BY <1>5 DEF UpdateBehaviorPhase
  <2>2. ASSUME NEW p, NEW times, s \in Rest(r, p, times)
        PROVE  s.headingDegrees = r.headingDegrees /\ s.batteryPercent = r.batteryPercent
    <3>1. PICK t \in times :
            s = [r EXCEPT !.behaviorPhase = p, !.velocity = Still, !.phaseTimer = t]
      BY <2>2 DEF Rest
    <3> QED BY <1>2, <3>1
  <2>3. CASE s \in Retarget(r)
    <3>1. PICK w, t : s = MovingTo(r, w, t)
      BY <2>3 DEF Retarget
    <3> QED BY <1>3, <3>1 DEF MovingTo
  <2> QED BY <2>1, <2>2, <2>3 DEF NextPhases
<1> QED BY <1>4, <1>5

\* steerTowardTarget turns towards the target, keeps to the speed of the profile and
\* stops a robot that is spent or off duty.
LEMMA SteerKeeps ==
  ASSUME NEW r, Typed(r), NEW dt \in Nat, NEW s, s = SteerTowardTarget(r, dt)
  PROVE  LET max == ProfileOf(r).maxSpeed
             bearing == BearingFrom(r, r.target)
         IN /\ s.position = r.position /\ s.batteryPercent = r.batteryPercent /\ Course(s) = Course(r)
            /\ Halts(r) => s.velocity = Still
            /\ Abs(s.velocity.x) <= max /\ Abs(s.velocity.z) <= max
            /\ Angle(s.headingDegrees, bearing) <= Angle(r.headingDegrees, bearing)
<1> DEFINE max == ProfileOf(r).maxSpeed
           bearing == BearingFrom(r, r.target)
           far == Minus(r.target, r.position)
           way == IF r.type = "DRONE" THEN far ELSE [far EXCEPT !.y = 0]
           turn == ProfileOf(r).turnRate * dt
           heading == ApproachHeading(r.headingDegrees, HeadingFromVelocity(way), turn)
           speed == Smaller(max, Length(way))
           course == [x |-> Sin(heading) * speed, y |-> Clamp(way.y, -1, 1),
                      z |-> Cos(heading) * speed]
<1>1. far \in Vector
  BY DEF Typed, Vector, Minus
<1>2. way \in Vector /\ way.x = far.x /\ way.z = far.z
  BY <1>1 DEF Vector
<1>3. HeadingFromVelocity(way) = bearing
  <2>1. HeadingFromVelocity(way) = HeadingFromVelocity(far)
    BY <1>2 DEF HeadingFromVelocity
  <2> QED BY <2>1 DEF BearingFrom
<1>4. bearing \in Int
  BY <1>2, <1>3 DEF Vector, HeadingFromVelocity
<1>5. max \in Nat /\ turn \in Nat
  BY ProfileTyped DEF BehaviorProfile
<1>6. Length(way) \in Nat
  BY <1>2, LengthIn
<1>7. speed \in 0..max
  BY <1>5, <1>6 DEF Smaller
<1>8. \/ s = [r EXCEPT !.velocity = Still]
      \/ s = [r EXCEPT !.velocity = Still, !.phaseTimer = 0]
      \/ s = [r EXCEPT !.headingDegrees = heading, !.velocity = course] /\ ~Halts(r)
  BY DEF SteerTowardTarget
<1> HIDE DEF max, far, way, turn, speed
<1>9. Abs(course.x) <= max /\ Abs(course.z) <= max
  <2>1. Sin(heading) \in {-1, 0, 1} /\ Cos(heading) \in {-1, 0, 1}
    BY DEF Sin, Cos
  <2> QED BY <1>5, <1>7, <2>1 DEF Abs
<1>10. r.headingDegrees \in Int
  BY DEF Typed
<1>11. Angle(heading, bearing) <= Angle(r.headingDegrees, bearing)
  BY <1>3, <1>4, <1>5, <1>10, TurnsToward
<1>12. Angle(r.headingDegrees, bearing) <= Angle(r.headingDegrees, bearing)
  BY <1>4, <1>10 DEF Angle, Smaller
<1> HIDE DEF bearing, heading, course
<1>13. Abs(Still.x) <= max /\ Abs(Still.z) <= max
  BY <1>5 DEF Abs, Still
<1>14. CASE s = [r EXCEPT !.velocity = Still] \/ s = [r EXCEPT !.velocity = Still, !.phaseTimer = 0]
  <2>1. /\ s.position = r.position /\ s.batteryPercent = r.batteryPercent
        /\ s.headingDegrees = r.headingDegrees /\ s.velocity = Still
    BY <1>14 DEF Typed
  <2>2. s.type = r.type /\ s.target = r.target /\ s.behaviorPhase = r.behaviorPhase
    BY <1>14 DEF Typed
  <2> QED BY <1>12, <1>13, <2>1, <2>2 DEF Course, max, bearing
<1>15. CASE s = [r EXCEPT !.headingDegrees = heading, !.velocity = course] /\ ~Halts(r)
  <2>1. /\ s.position = r.position /\ s.batteryPercent = r.batteryPercent
        /\ s.headingDegrees = heading /\ s.velocity = course
    BY <1>15 DEF Typed
  <2>2. s.type = r.type /\ s.target = r.target /\ s.behaviorPhase = r.behaviorPhase
    BY <1>15 DEF Typed
  <2> QED BY <1>9, <1>11, <1>15, <2>1, <2>2 DEF Course, max, bearing
<1> QED BY <1>8, <1>14, <1>15

\* The move changes the position and nothing else.
LEMMA MoveKeeps ==
  ASSUME NEW r, Typed(r), NEW dt \in Nat, NEW s, s = Move(r, dt)
  PROVE  /\ Course(s) = Course(r) /\ s.velocity = r.velocity
         /\ s.headingDegrees = r.headingDegrees /\ s.batteryPercent = r.batteryPercent
         /\ s.position = [x |-> r.position.x + r.velocity.x * dt,
                          y |-> r.position.y + r.velocity.y * dt,
                          z |-> r.position.z + r.velocity.z * dt]
<1> DEFINE p == [x |-> r.position.x + r.velocity.x * dt,
                 y |-> r.position.y + r.velocity.y * dt,
                 z |-> r.position.z + r.velocity.z * dt]
<1>1. s = [r EXCEPT !.position = p]
  BY DEF Move
<1> HIDE DEF p
<1>2. s.position = p /\ s.velocity = r.velocity
  BY <1>1 DEF Typed
<1>3. s.headingDegrees = r.headingDegrees /\ s.batteryPercent = r.batteryPercent
  BY <1>1 DEF Typed
<1>4. s.type = r.type /\ s.target = r.target /\ s.behaviorPhase = r.behaviorPhase
  BY <1>1 DEF Typed
<1> QED BY <1>2, <1>3, <1>4 DEF Course, p

\* From a place between the walls, a bounce ends no further away than the move would.
LEMMA BounceNear ==
  ASSUME NEW a \in Int, NEW b \in Int, NEW from \in a..b, NEW p \in Int, NEW v
  PROVE  /\ Abs(Bounce(p, v, a, b).p - from) <= Abs(p - from)
         /\ p = from => Bounce(p, v, a, b).p = from
BY DEF Bounce, Abs

\* enforceBounds takes a robot that was inside no further than it went, and leaves one
\* that has not moved where it was.
LEMMA BoundsKeep ==
  ASSUME NEW r, Typed(r), NEW s, s = EnforceBounds(r), NEW o, Typed(o), Inside(o), o.type = r.type
  PROVE  /\ Course(s) = Course(r)
         /\ s.headingDegrees = r.headingDegrees /\ s.batteryPercent = r.batteryPercent
         /\ Abs(s.position.x - o.position.x) <= Abs(r.position.x - o.position.x)
         /\ Abs(s.position.z - o.position.z) <= Abs(r.position.z - o.position.z)
         /\ r.position = o.position => s.position = o.position
<1> DEFINE x == Bounce(r.position.x, r.velocity.x, Bounds.minX, Bounds.maxX)
           z == Bounce(r.position.z, r.velocity.z, Bounds.minZ, Bounds.maxZ)
           y == IF r.type = "DRONE"
                THEN Bounce(r.position.y, r.velocity.y, DroneFloor, Bounds.maxAltitude)
                ELSE [p |-> 0, v |-> 0]
           p == [x |-> x.p, y |-> y.p, z |-> z.p]
           v == [x |-> x.v, y |-> y.v, z |-> z.v]
<1>1. /\ r.position.x \in Int /\ r.position.y \in Int /\ r.position.z \in Int
      /\ o.position \in Vector
      /\ o.position.x \in Bounds.minX..Bounds.maxX /\ o.position.z \in Bounds.minZ..Bounds.maxZ
  BY DEF Typed, Vector, Inside
<1>2. /\ Bounds.minX \in Int /\ Bounds.maxX \in Int /\ Bounds.minZ \in Int /\ Bounds.maxZ \in Int
      /\ DroneFloor \in Int /\ Bounds.maxAltitude \in Int
  BY WorldAssumption
<1>3. /\ Abs(x.p - o.position.x) <= Abs(r.position.x - o.position.x)
      /\ r.position.x = o.position.x => x.p = o.position.x
  BY <1>1, <1>2, BounceNear
<1>4. /\ Abs(z.p - o.position.z) <= Abs(r.position.z - o.position.z)
      /\ r.position.z = o.position.z => z.p = o.position.z
  BY <1>1, <1>2, BounceNear
<1>5. r.position.y = o.position.y => y.p = o.position.y
  <2>1. CASE r.type = "DRONE"
    BY <1>1, <1>2, <2>1, BounceNear DEF Inside
  <2>2. CASE r.type # "DRONE"
    BY <2>2 DEF Inside
  <2> QED BY <2>1, <2>2
<1>6. s = [r EXCEPT !.position = p, !.velocity = v]
  BY DEF EnforceBounds
<1> HIDE DEF v, x, y, z
<1>7. r.position = o.position => p = o.position
  BY <1>1, <1>3, <1>4, <1>5 DEF Vector
<1>8. p.x = x.p /\ p.z = z.p
  OBVIOUS
<1> HIDE DEF p
<1>9. s.position = p
  BY <1>6 DEF Typed
<1>10. s.headingDegrees = r.headingDegrees /\ s.batteryPercent = r.batteryPercent
  BY <1>6 DEF Typed
<1>11. s.type = r.type /\ s.target = r.target /\ s.behaviorPhase = r.behaviorPhase
  BY <1>6 DEF Typed
<1> QED BY <1>3, <1>4, <1>7, <1>8, <1>9, <1>10, <1>11 DEF Course

\* updateBattery only drains.
LEMMA BatteryDrains ==
  ASSUME NEW r, Typed(r), NEW dt \in Nat, NEW s, s = UpdateBattery(r, dt)
  PROVE  /\ Course(s) = Course(r) /\ s.headingDegrees = r.headingDegrees
         /\ s.batteryPercent <= r.batteryPercent
<1> DEFINE used == ProfileOf(r).baseDrain + Length(r.velocity) * ProfileOf(r).movementDrain
           drain == used * dt
           charge == Clamp(r.batteryPercent - drain, 0, 100)
           left == IF charge <= 0 THEN Still ELSE r.velocity
<1>1. used \in Nat
  <2>1. /\ ProfileOf(r).baseDrain \in Nat /\ ProfileOf(r).movementDrain \in Nat
        /\ Length(r.velocity) \in Nat
    BY ProfileTyped, LengthIn DEF Typed, BehaviorProfile
  <2>2. Length(r.velocity) * ProfileOf(r).movementDrain \in Nat
    BY <2>1
  <2> QED BY <2>1, <2>2
<1>2. s = [r EXCEPT !.batteryPercent = charge, !.velocity = left]
  BY DEF UpdateBattery
<1> HIDE DEF used
<1>3. drain \in Nat
  BY <1>1
<1> HIDE DEF drain
<1>4. charge <= r.batteryPercent
  BY <1>3 DEF Clamp, Smaller, Larger, Typed
<1> HIDE DEF charge, left
<1>5. s.headingDegrees = r.headingDegrees /\ s.batteryPercent = charge
  BY <1>2 DEF Typed
<1>6. s.type = r.type /\ s.target = r.target /\ s.behaviorPhase = r.behaviorPhase
  BY <1>2 DEF Typed
<1> QED BY <1>4, <1>5, <1>6 DEF Course

\* updateSignal changes the signal and nothing else.
LEMMA SignalKeeps ==
  ASSUME NEW r, Typed(r), NEW n, NEW s, s = UpdateSignal(r, n)
  PROVE  /\ Course(s) = Course(r) /\ s.headingDegrees = r.headingDegrees
         /\ s.batteryPercent = r.batteryPercent
<1> DEFINE signal == Clamp(-45 - Length(r.position) * 40 + n, -120, -35)
<1>1. s = [r EXCEPT !.signalStrengthDbm = signal]
  BY DEF UpdateSignal
<1> HIDE DEF signal
<1>2. s.headingDegrees = r.headingDegrees /\ s.batteryPercent = r.batteryPercent
  BY <1>1 DEF Typed
<1>3. s.type = r.type /\ s.target = r.target /\ s.behaviorPhase = r.behaviorPhase
  BY <1>1 DEF Typed
<1> QED BY <1>2, <1>3 DEF Course

\* tickRobot moves a robot as MotionIsLawful says.
LEMMA TickMoves ==
  ASSUME NEW r, Typed(r), Lawful(r), NEW e \in Nat, NEW s \in TickRobot(r, e)
  PROVE  LET bearing == BearingFrom(r, s.target)
             max == ProfileOf(r).maxSpeed * MaxDelta
         IN /\ Abs(s.position.x - r.position.x) <= max /\ Abs(s.position.z - r.position.z) <= max
            /\ r.batteryPercent = 0 \/ s.behaviorPhase # "moving" => s.position = r.position
            /\ s.batteryPercent <= r.batteryPercent
            /\ Angle(s.headingDegrees, bearing) <= Angle(r.headingDegrees, bearing)
<1> DEFINE dt == ClampDeltaSeconds(e)
           bearing == BearingFrom(r, s.target)
           max == ProfileOf(r).maxSpeed * MaxDelta
<1>1. dt \in Nat /\ dt <= MaxDelta
  BY WorldAssumption DEF ClampDeltaSeconds, Smaller
<1>2. ProfileOf(r).maxSpeed \in Nat /\ MaxDelta \in Nat
  BY ProfileTyped, WorldAssumption DEF BehaviorProfile
<1>3. max \in Nat
  BY <1>2
<1>4. r.position \in Vector /\ r.headingDegrees \in Int /\ r.batteryPercent \in Int
  BY DEF Typed
<1> HIDE DEF dt, max
<1>5. CASE dt <= 0
  <2>1. s = r
    BY <1>5 DEF TickRobot, dt
  <2>2. bearing \in Int
    <3>1. Minus(r.target, r.position) \in Vector
      BY DEF Typed, Vector, Minus
    <3> QED BY <2>1, <3>1 DEF BearingFrom, HeadingFromVelocity, Vector
  <2> QED BY <1>3, <1>4, <2>1, <2>2 DEF Abs, Vector, Angle, Smaller, max
<1>6. CASE ~(dt <= 0)
  <2>1. PICK b \in UpdateBehaviorPhase(r, dt), n \in Noise :
          s = UpdateSignal(UpdateBattery(
                EnforceBounds(Move(SteerTowardTarget(b, dt), dt)), dt), n)
    BY <1>6 DEF TickRobot, dt
  <2>2. PICK b1 : b1 = SteerTowardTarget(b, dt)
    OBVIOUS
  <2>3. PICK b2 : b2 = Move(b1, dt)
    OBVIOUS
  <2>4. PICK b3 : b3 = EnforceBounds(b2)
    OBVIOUS
  <2>5. PICK b4 : b4 = UpdateBattery(b3, dt)
    OBVIOUS
  <2>6. s = UpdateSignal(b4, n)
    BY <2>1, <2>2, <2>3, <2>4, <2>5
  <2>7. Typed(b) /\ b.position = r.position /\ b.type = r.type
    BY <1>1, PhaseTyped
  <2>8. b.headingDegrees = r.headingDegrees /\ b.batteryPercent = r.batteryPercent
    BY <1>1, PhaseKeeps
  <2>9. Typed(b1) /\ b1.type = r.type
    BY <1>1, <2>2, <2>7, SteerTyped
  <2>10. Typed(b2) /\ b2.type = r.type
    BY <1>1, <2>3, <2>9, MoveTyped
  <2>11. Typed(b3)
    BY <2>4, <2>10, BoundsHold
  <2>12. Typed(b4) /\ b4.position = b3.position
    BY <1>1, <2>5, <2>11, BatteryTyped
  <2>13. s.position = b4.position
    BY <2>6, <2>12, SignalIn
  <2>14. Inside(r)
    BY DEF Lawful, Inside
  <2>15. ProfileOf(b) = ProfileOf(r) /\ BearingFrom(b, b.target) = BearingFrom(r, b.target)
    BY <2>7 DEF ProfileOf, BearingFrom
  <2>16. /\ b1.position = r.position /\ b1.batteryPercent = r.batteryPercent
         /\ Course(b1) = Course(b)
         /\ Halts(b) => b1.velocity = Still
         /\ Abs(b1.velocity.x) <= ProfileOf(r).maxSpeed
         /\ Abs(b1.velocity.z) <= ProfileOf(r).maxSpeed
         /\ Angle(b1.headingDegrees, BearingFrom(r, b.target))
              <= Angle(r.headingDegrees, BearingFrom(r, b.target))
    BY <1>1, <2>2, <2>7, <2>8, <2>15, SteerKeeps
  <2>17. /\ Course(b2) = Course(b1) /\ b2.headingDegrees = b1.headingDegrees
         /\ b2.batteryPercent = b1.batteryPercent
         /\ b2.position = [x |-> b1.position.x + b1.velocity.x * dt,
                           y |-> b1.position.y + b1.velocity.y * dt,
                           z |-> b1.position.z + b1.velocity.z * dt]
    BY <1>1, <2>3, <2>9, MoveKeeps
  <2>18. /\ Course(b3) = Course(b2) /\ b3.headingDegrees = b2.headingDegrees
         /\ b3.batteryPercent = b2.batteryPercent
         /\ Abs(b3.position.x - r.position.x) <= Abs(b2.position.x - r.position.x)
         /\ Abs(b3.position.z - r.position.z) <= Abs(b2.position.z - r.position.z)
         /\ b2.position = r.position => b3.position = r.position
    BY <2>4, <2>10, <2>14, BoundsKeep
  <2>19. /\ Course(b4) = Course(b3) /\ b4.headingDegrees = b3.headingDegrees
         /\ b4.batteryPercent <= b3.batteryPercent
    BY <1>1, <2>5, <2>11, BatteryDrains
  <2>20. /\ Course(s) = Course(b4) /\ s.headingDegrees = b4.headingDegrees
         /\ s.batteryPercent = b4.batteryPercent
    BY <2>6, <2>12, SignalKeeps
  <2>21. s.target = b.target /\ s.behaviorPhase = b.behaviorPhase
    BY <2>16, <2>17, <2>18, <2>19, <2>20 DEF Course
  <2>22. Angle(s.headingDegrees, bearing) <= Angle(r.headingDegrees, bearing)
    BY <2>16, <2>17, <2>18, <2>19, <2>20, <2>21
  <2>23. s.batteryPercent <= r.batteryPercent
    BY <2>16, <2>17, <2>18, <2>19, <2>20
  <2>24. ASSUME r.batteryPercent = 0 \/ s.behaviorPhase # "moving" PROVE s.position = r.position
    <3>1. Halts(b)
      BY <2>8, <2>21, <2>24 DEF Halts
    <3>2. b2.position = [x |-> r.position.x + 0 * dt, y |-> r.position.y + 0 * dt,
                         z |-> r.position.z + 0 * dt]
      BY <2>16, <2>17, <3>1 DEF Still
    <3>3. b2.position = r.position
      BY <1>1, <1>4, <3>2 DEF Vector
    <3> QED BY <2>12, <2>13, <2>18, <3>3
  <2>25. b1.velocity.x \in Int /\ b1.velocity.z \in Int
    BY <2>9 DEF Typed, Vector
  <2>26. Abs(b1.velocity.x * dt) <= max /\ Abs(b1.velocity.z * dt) <= max
    BY <1>1, <1>2, <2>16, <2>25, WayIsBounded DEF max
  <2>27. /\ b2.position.x - r.position.x = b1.velocity.x * dt
         /\ b2.position.z - r.position.z = b1.velocity.z * dt
    <3>1. /\ b2.position.x = r.position.x + b1.velocity.x * dt
          /\ b2.position.z = r.position.z + b1.velocity.z * dt
      BY <2>16, <2>17
    <3>2. b1.velocity.x * dt \in Int /\ b1.velocity.z * dt \in Int
      BY <1>1, <2>25
    <3> QED BY <1>4, <3>1, <3>2 DEF Vector
  <2>28. s.position.x \in Int /\ s.position.z \in Int
    BY <2>12, <2>13 DEF Typed, Vector
  <2>29. Abs(s.position.x - r.position.x) <= max /\ Abs(s.position.z - r.position.z) <= max
    <3>1. /\ Abs(s.position.x - r.position.x) <= Abs(b1.velocity.x * dt)
          /\ Abs(s.position.z - r.position.z) <= Abs(b1.velocity.z * dt)
      BY <2>12, <2>13, <2>18, <2>27
    <3>2. \A a \in Int : Abs(a) \in Int
      BY DEF Abs
    <3>3. /\ Abs(s.position.x - r.position.x) \in Int /\ Abs(s.position.z - r.position.z) \in Int
          /\ Abs(b1.velocity.x * dt) \in Int /\ Abs(b1.velocity.z * dt) \in Int
      BY <1>1, <1>4, <2>25, <2>28, <3>2 DEF Vector
    <3> QED BY <1>3, <2>26, <3>1, <3>3
  <2> QED BY <2>22, <2>23, <2>24, <2>29 DEF max
<1> QED BY <1>5, <1>6

-----------------------------------------------------------------------------
(* The simulated robot *)

\* The robot is one the API knows, typed and lawful.
RobotInv == Typed(robot) /\ Lawful(robot) /\ robot.type \in SeededRobots

\* createSimulatedRobot: a robot of the fleet begins inside its world, charged within its scale.
LEMMA CreatedLawful ==
  ASSUME NEW c \in Fleet, NEW b \in Batteries
  PROVE  LET r == CreateSimulatedRobot(c, b)
         IN  Typed(r) /\ Lawful(r) /\ r.type \in SeededRobots
<1> DEFINE at == c.initialPosition
           y == IF c.type = "DRONE" THEN Larger(at.y, ProfileOf(c).cruiseAltitude \div 2) ELSE 0
           charge == Smaller(100, Larger(0, b))
           r == CreateSimulatedRobot(c, b)
<1>1. c.type \in DOMAIN BehaviorProfiles /\ c.type \in SeededRobots
  BY FleetAssumption
<1>2. at \in [x : Bounds.minX..Bounds.maxX, y : Int, z : Bounds.minZ..Bounds.maxZ]
  BY FleetAssumption
<1>3. ProfileOf(c) \in BehaviorProfile
  BY <1>1, ProfileAssumption DEF ProfileOf
<1>4. Bounds.minX \in Int /\ Bounds.maxX \in Int /\ Bounds.minZ \in Int /\ Bounds.maxZ \in Int
      /\ DroneFloor \in Int /\ Bounds.maxAltitude \in Int
  BY WorldAssumption
<1>5. at \in Vector /\ at.x \in Bounds.minX..Bounds.maxX /\ at.z \in Bounds.minZ..Bounds.maxZ
  BY <1>2, <1>4 DEF Vector
<1>6. y \in IF c.type = "DRONE" THEN DroneFloor..Bounds.maxAltitude ELSE {0}
  BY FleetAssumption
<1>7. y \in Int
  BY <1>4, <1>6
<1>8. charge \in 0..100
  <2>1. b \in Int
    BY UplinkAssumption
  <2> QED BY <2>1 DEF Smaller, Larger
<1>9. ProfileOf(c).retargetInterval \in Int
  BY <1>3 DEF BehaviorProfile
<1>10. Still \in Vector
  BY DEF Still, Vector
<1>11. [x |-> at.x, y |-> y, z |-> at.z] \in Vector
  BY <1>5, <1>7 DEF Vector
<1>12. r = [type |-> c.type, position |-> [x |-> at.x, y |-> y, z |-> at.z],
            velocity |-> Still, headingDegrees |-> 0, batteryPercent |-> charge,
            signalStrengthDbm |-> -55, behaviorPhase |-> "moving",
            target |-> at, home |-> at, phaseTimer |-> ProfileOf(c).retargetInterval]
  BY DEF CreateSimulatedRobot
<1> HIDE DEF at, y, charge, r
<1>13. Typed(r)
  BY <1>1, <1>5, <1>8, <1>9, <1>10, <1>11, <1>12 DEF Typed
<1>14. Lawful(r)
  BY <1>5, <1>6, <1>8, <1>12 DEF Lawful
<1> QED BY <1>1, <1>12, <1>13, <1>14 DEF r

\* The robot begins lawful,
LEMMA InitRobotInv == Init => RobotInv
BY CreatedLawful DEF Init, Constructed, RobotInv

\* A step of the process moves the robot, by a tick of its physics, or leaves it.
LEMMA StepMoves ==
  ASSUME RobotInv, [Next]_vars
  PROVE  UNCHANGED simulation \/ \E e \in Nat : robot' \in TickRobot(robot, e)
<1>1. CASE OnTick
  BY <1>1, UplinkAssumption DEF OnTick
<1>2. UNCHANGED simulation \/ OnTick
  BY DEF Next, vars, simulation, EmitTelemetryOnce, Handle, Client, Receive, NetworkFailure,
     AbortFetch, WakeUp, Shutdown, Exit
<1> QED BY <1>1, <1>2

\* and stays so.
LEMMA NextRobotInv == RobotInv /\ [Next]_vars => RobotInv'
<1> SUFFICES ASSUME RobotInv, [Next]_vars PROVE RobotInv'
  OBVIOUS
<1>1. CASE UNCHANGED simulation
  BY <1>1 DEF RobotInv, Typed, Lawful, simulation
<1>2. ASSUME NEW e \in Nat, robot' \in TickRobot(robot, e) PROVE RobotInv'
  BY <1>2, TickLawful DEF RobotInv
<1> QED BY <1>1, <1>2, StepMoves

\* What the API's contract asks of a sample holds of every lawful robot.
LEMMA LawfulMeetsContract == RobotInv => ContractHolds(robot)
BY LengthIn DEF RobotInv, Typed, ContractHolds

-----------------------------------------------------------------------------
(* Sends *)

Ended == {"accepted", "exhausted", "permanent_error"}

\* The types of the variables of the process and of its sends; samples are numbered as
\* they are taken.
SendTypes ==
  /\ ticks \in 0..MaxTicks
  /\ engine \in {"running", "stopping", "exited"}
  /\ aborted \in BOOLEAN
  /\ inFlight \in BOOLEAN
  /\ send \in [Samples -> {None, "fetching", "sleeping"} \cup Ended]
  /\ attempt \in [Samples -> 0..MaxAttempts]
  /\ \E k \in 0..MaxSamples : Taken = 1..k
  /\ \A n \in Samples : send[n] = None <=> n \notin Taken
  /\ \A n \in Samples : send[n] = "sleeping" => attempt[n] < MaxAttempts

\* What inFlight says, and what an exit has waited for.
FlightInv ==
  /\ inFlight <=> Unsettled # {}
  /\ \A m, n \in Unsettled : m = n
  /\ engine = "exited" => Unsettled = {}

SendInv == SendTypes /\ FlightInv

\* What a step of a send does to it: it goes on, or it ends.
SendMoves(n) ==
  \/ /\ send' \in {[send EXCEPT ![n] = "fetching"], [send EXCEPT ![n] = "sleeping"]}
     /\ UNCHANGED inFlight
  \/ /\ \E result \in Ended : send' = [send EXCEPT ![n] = result]
     /\ inFlight' = FALSE

LEMMA BackOffMoves ==
  ASSUME NEW n \in Samples, BackOff(n)
  PROVE  SendMoves(n) /\ UNCHANGED attempt
BY DEF BackOff, Settle, SendMoves, Ended

LEMMA SettleMoves ==
  ASSUME NEW n \in Samples, NEW result \in Ended, Settle(n, result)
  PROVE  SendMoves(n) /\ UNCHANGED attempt
BY DEF Settle, SendMoves

\* Receive has one of three continuations.
LEMMA ReceiveContinues ==
  ASSUME NEW n \in Samples, Receive(n)
  PROVE  /\ send[n] = "fetching"
         /\ UNCHANGED <<simulation, process, sample, wire, history>>
         /\ \E a \in answer :
              /\ a.n = n /\ answer' = answer \ {a}
              /\ \/ a.status = "202" /\ Settle(n, "accepted")
                 \/ a.status \in Retryable /\ BackOff(n)
                 \/ a.status # "202" /\ a.status \notin Retryable /\ Settle(n, "permanent_error")
<1>1. PICK a \in answer :
        /\ a.n = n /\ answer' = answer \ {a}
        /\ CASE a.status = "202" -> Settle(n, "accepted")
             [] a.status \in Retryable -> BackOff(n)
             [] OTHER -> Settle(n, "permanent_error")
  BY DEF Receive
<1>2. \/ a.status = "202" /\ Settle(n, "accepted")
      \/ a.status \in Retryable /\ BackOff(n)
      \/ a.status # "202" /\ a.status \notin Retryable /\ Settle(n, "permanent_error")
  BY <1>1, Zenon DEF Retryable
<1> QED BY <1>1, <1>2 DEF Receive

LEMMA ClientMoves ==
  ASSUME NEW n \in Samples, Client(n)
  PROVE  /\ send[n] \in {"fetching", "sleeping"}
         /\ SendMoves(n)
         /\ engine # "exited"
         /\ UNCHANGED <<simulation, process, sample, history>>
<1>1. CASE Receive(n)
  BY <1>1, ReceiveContinues, BackOffMoves, SettleMoves DEF Client, Ended
<1>2. CASE NetworkFailure(n)
  BY <1>2, BackOffMoves DEF NetworkFailure, Hangup, Client
<1>3. CASE AbortFetch(n)
  BY <1>3, SettleMoves DEF AbortFetch, Hangup, Client, Ended
<1>4. CASE WakeUp(n)
  BY <1>4, SettleMoves DEF WakeUp, Client, Ended, SendMoves
<1> QED BY <1>1, <1>2, <1>3, <1>4 DEF Client

\* The bound of the loop: who sleeps has an attempt left, who wakes up uses it.
LEMMA ClientAttempts ==
  ASSUME SendTypes, NEW n \in Samples, Client(n)
  PROVE  /\ attempt' \in [Samples -> 0..MaxAttempts]
         /\ \A m \in Samples : send'[m] = "sleeping" => attempt'[m] < MaxAttempts
<1>1. MaxAttempts \in Nat
  BY UplinkAssumption
<1>2. \A m \in Samples : attempt[m] \in 0..MaxAttempts
  BY DEF SendTypes
<1>3. ASSUME UNCHANGED attempt, BackOff(n)
      PROVE  \A m \in Samples : send'[m] = "sleeping" => attempt'[m] < MaxAttempts
  BY <1>3 DEF BackOff, Settle, SendTypes
<1>4. ASSUME NEW result \in Ended, Settle(n, result)
      PROVE  /\ UNCHANGED attempt
             /\ \A m \in Samples : send'[m] = "sleeping" => attempt'[m] < MaxAttempts
  BY <1>4 DEF Settle, SendTypes, Ended
<1>5. CASE Receive(n)
  BY <1>3, <1>4, <1>5, ReceiveContinues, BackOffMoves DEF SendTypes, Ended
<1>6. CASE NetworkFailure(n)
  BY <1>3, <1>6, BackOffMoves DEF NetworkFailure, SendTypes
<1>7. CASE AbortFetch(n)
  BY <1>4, <1>7 DEF AbortFetch, SendTypes, Ended
<1>8. CASE WakeUp(n)
  <2>1. CASE aborted
    BY <1>4, <1>8, <2>1 DEF WakeUp, SendTypes, Ended
  <2>2. CASE ~aborted
    <3>1. /\ send[n] = "sleeping"
          /\ attempt' = [attempt EXCEPT ![n] = attempt[n] + 1]
          /\ send' = [send EXCEPT ![n] = "fetching"]
      BY <1>8, <2>2 DEF WakeUp
    <3>2. attempt[n] + 1 \in 0..MaxAttempts
      BY <1>1, <1>2, <3>1 DEF SendTypes
    <3> QED BY <3>1, <3>2 DEF SendTypes
  <2> QED BY <2>1, <2>2
<1> QED BY <1>5, <1>6, <1>7, <1>8 DEF Client

\* A new sample has a number of its own, and its send is the only one.
LEMMA EmitEffect ==
  ASSUME SendInv, EmitTelemetryOnce
  PROVE  \E n \in Samples :
           /\ n \notin Taken /\ Taken' = Taken \cup {n}
           /\ sample'[n] = Snapshot(n)
           /\ \A m \in Taken : sample'[m] = sample[m]
           /\ send' = [send EXCEPT ![n] = "fetching"]
           /\ attempt' = [attempt EXCEPT ![n] = 1]
           /\ wire' = wire \cup {[n |-> n, attempt |-> 1, body |-> Snapshot(n)]}
           /\ inFlight' /\ Unsettled = {}
           /\ \E k \in 0..MaxSamples : Taken = 1..k /\ n = k + 1
<1> DEFINE n == Cardinality(Taken) + 1
<1>1. PICK k \in 0..MaxSamples : Taken = 1..k
  BY DEF SendInv, SendTypes
<1>2. Cardinality(Taken) = k
  <2>1. Cardinality(1..k) = IF 1 > k THEN 0 ELSE k - 1 + 1
    BY FS_Interval
  <2> QED BY <1>1, <2>1, UplinkAssumption
<1>3. n = k + 1 /\ n \notin Taken
  BY <1>1, <1>2
<1>4. n \in Samples /\ MayEmit
  BY DEF EmitTelemetryOnce
<1> HIDE DEF n
<1>5. /\ sample' = [m \in Taken \cup {n} |-> IF m = n THEN Snapshot(n) ELSE sample[m]]
      /\ inFlight' = TRUE
      /\ send' = [send EXCEPT ![n] = "fetching"]
      /\ attempt' = [attempt EXCEPT ![n] = 1]
      /\ wire' = wire \cup {[n |-> n, attempt |-> 1, body |-> Snapshot(n)]}
  BY DEF EmitTelemetryOnce, n
<1>6. Taken' = Taken \cup {n} /\ sample'[n] = Snapshot(n)
  BY <1>5 DEF Taken
<1>7. \A m \in Taken : sample'[m] = sample[m]
  BY <1>3, <1>5
<1>8. Unsettled = {}
  BY <1>4 DEF MayEmit, SendInv, FlightInv
<1> QED BY <1>1, <1>3, <1>4, <1>5, <1>6, <1>7, <1>8

\* Nothing has been sent.
LEMMA InitSendInv == Init => SendInv
<1> SUFFICES ASSUME Init PROVE SendInv
  OBVIOUS
<1>1. Taken = 1..0
  BY DEF Init, Constructed, Taken
<1>2. Unsettled = {}
  BY <1>1 DEF Unsettled
<1>3. MaxSamples \in Nat /\ MaxTicks \in Nat /\ MaxAttempts \in Nat
  BY UplinkAssumption
<1>4. None \notin {"sleeping"}
  BY UplinkAssumption
<1>5. SendTypes
  <2>1. \E k \in 0..MaxSamples : Taken = 1..k
    BY <1>1, <1>3
  <2>2. ticks \in 0..MaxTicks /\ attempt \in [Samples -> 0..MaxAttempts]
    BY <1>3 DEF Init, Started
  <2>3. engine = "running" /\ aborted = FALSE /\ inFlight = FALSE
    BY DEF Init, Constructed, Started
  <2>4. send = [n \in Samples |-> None]
    BY DEF Init
  <2>5. \A n \in Samples : send[n] = None /\ n \notin Taken /\ send[n] # "sleeping"
    BY <1>1, <1>4, <2>4
  <2> QED BY <2>1, <2>2, <2>3, <2>4, <2>5 DEF SendTypes
<1>6. FlightInv
  BY <1>2 DEF Init, Constructed, Started, FlightInv
<1> QED BY <1>5, <1>6 DEF SendInv

\* Every step keeps one send at a time.
LEMMA NextSendInv == SendInv /\ [Next]_vars => SendInv'
<1> SUFFICES ASSUME SendInv, [Next]_vars PROVE SendInv'
  OBVIOUS
<1>1. None \notin {"fetching", "sleeping", "accepted", "permanent_error", "exhausted"}
  BY UplinkAssumption
<1>2. CASE UNCHANGED <<sending, engine, aborted>> /\ ticks' \in 0..MaxTicks
  <2>1. UNCHANGED <<sample, inFlight, send, attempt, engine, aborted>>
    BY <1>2 DEF sending
  <2>2. Unsettled' = Unsettled /\ Taken' = Taken
    BY <2>1 DEF Unsettled, Taken
  <2>3. SendTypes'
    BY <1>2, <2>1, <2>2 DEF SendInv, SendTypes
  <2>4. FlightInv'
    BY <2>1, <2>2 DEF SendInv, FlightInv
  <2> QED BY <2>3, <2>4 DEF SendInv
<1>3. CASE OnTick
  <2>1. ticks' \in 0..MaxTicks
    BY <1>3, UplinkAssumption DEF OnTick, SendInv, SendTypes
  <2> QED BY <1>2, <1>3, <2>1 DEF OnTick, process
<1>4. ASSUME NEW q \in wire, Handle(q) PROVE SendInv'
  BY <1>2, <1>4 DEF Handle, simulation, process, SendInv, SendTypes
<1>5. CASE Shutdown \/ Exit
  <2>1. /\ UNCHANGED <<ticks, sample, inFlight, send, attempt>>
        /\ engine' \in {"stopping", "exited"} /\ aborted' \in BOOLEAN
        /\ engine' = "exited" => Unsettled = {}
    BY <1>5 DEF Shutdown, Exit, simulation, sending, AllSettled, SendInv, SendTypes
  <2>2. Unsettled' = Unsettled /\ Taken' = Taken
    BY <2>1 DEF Unsettled, Taken
  <2>3. SendTypes'
    BY <2>1, <2>2 DEF SendInv, SendTypes
  <2>4. FlightInv'
    BY <2>1, <2>2 DEF SendInv, FlightInv
  <2> QED BY <2>3, <2>4 DEF SendInv
<1>6. ASSUME NEW n \in Samples, Client(n) PROVE SendInv'
  <2>1. /\ send[n] \in {"fetching", "sleeping"} /\ SendMoves(n)
        /\ engine # "exited" /\ UNCHANGED <<ticks, engine, aborted, sample>>
    BY <1>6, ClientMoves DEF simulation, process
  <2>2. Taken' = Taken /\ n \in Taken
    BY <1>1, <2>1 DEF Taken, SendInv, SendTypes
  <2>3. n \in Unsettled
    BY <1>1, <2>1, <2>2 DEF Unsettled, Settled
  <2>4. /\ send' \in [Samples -> {None, "fetching", "sleeping"} \cup Ended]
        /\ send'[n] # None /\ \A m \in Samples : m # n => send'[m] = send[m]
    BY <1>1, <2>1 DEF SendMoves, SendInv, SendTypes, Ended
  <2>5. inFlight' \in BOOLEAN
    BY <2>1 DEF SendMoves, SendInv, SendTypes
  <2>6. SendTypes'
    BY <1>1, <1>6, <2>1, <2>2, <2>4, <2>5, ClientAttempts DEF SendInv, SendTypes
  <2>7. Unsettled = {n} /\ inFlight
    BY <2>3 DEF SendInv, FlightInv
  <2>8. \A m \in Taken : m # n => send'[m] \in Settled
    <3>1. PICK k \in 0..MaxSamples : Taken = 1..k
      BY DEF SendInv, SendTypes
    <3>2. Taken \subseteq Samples
      BY <3>1, UplinkAssumption DEF Samples
    <3> QED BY <2>4, <2>7, <3>2 DEF Unsettled
  <2>9. CASE send'[n] \in {"fetching", "sleeping"} /\ UNCHANGED inFlight
    <3>1. Unsettled' = {n}
      BY <2>2, <2>9, <2>8 DEF Unsettled, Settled
    <3> QED BY <2>1, <2>6, <2>7, <2>9, <3>1 DEF SendInv, FlightInv
  <2>10. CASE send'[n] \in Ended /\ inFlight' = FALSE
    <3>1. Unsettled' = {}
      BY <2>2, <2>10, <2>8 DEF Unsettled, Settled, Ended
    <3> QED BY <2>6, <2>10, <3>1 DEF SendInv, FlightInv
  <2> QED BY <2>1, <2>9, <2>10 DEF SendMoves, SendInv, SendTypes
<1>7. CASE EmitTelemetryOnce
  <2>1. PICK n \in Samples :
           /\ n \notin Taken /\ Taken' = Taken \cup {n}
           /\ send' = [send EXCEPT ![n] = "fetching"]
           /\ attempt' = [attempt EXCEPT ![n] = 1]
           /\ inFlight' /\ Unsettled = {}
           /\ \E k \in 0..MaxSamples : Taken = 1..k /\ n = k + 1
    BY <1>7, EmitEffect
  <2>2. UNCHANGED <<ticks, engine, aborted>> /\ engine = "running" /\ inFlight' = TRUE
    BY <1>7 DEF EmitTelemetryOnce, MayEmit, simulation, process
  <2>3. \E k \in 0..MaxSamples : Taken' = 1..k
    <3>1. PICK k \in 0..MaxSamples : Taken = 1..k /\ n = k + 1
      BY <2>1
    <3>2. k + 1 \in 0..MaxSamples /\ 1..(k + 1) = (1..k) \cup {k + 1}
      BY <3>1, UplinkAssumption DEF Samples
    <3> QED BY <2>1, <3>1, <3>2
  <2>4. SendTypes'
    BY <1>1, <2>1, <2>2, <2>3, UplinkAssumption DEF SendInv, SendTypes
  <2>5. Unsettled' = {n}
    BY <2>1 DEF Unsettled, Settled, SendInv, SendTypes
  <2>6. FlightInv'
    BY <2>2, <2>5 DEF FlightInv
  <2> QED BY <2>4, <2>6 DEF SendInv
<1>8. CASE UNCHANGED vars
  BY <1>2, <1>8 DEF vars, simulation, process, SendInv, SendTypes
<1> QED BY <1>3, <1>4, <1>5, <1>6, <1>7, <1>8 DEF Next

-----------------------------------------------------------------------------
(* What the API stores *)

\* A sample is the one of its number and within the contract.
SampleInv == \A n \in Taken : sample[n].source = n /\ sample[n].inRange

\* Every request carries its sample, and every row is one.
RequestInv == \A q \in wire : q.n \in Taken /\ q.body = sample[q.n]
RowInv == \A row \in history : row.source \in Taken /\ row = sample[row.source]

\* An answer is 202 or a failure, and true; and so is what a send has made of it.
AnswerInv ==
  \A a \in answer : /\ a.n \in Taken /\ a.status \in {"202"} \cup Retryable
                    /\ a.status = "202" => sample[a.n] \in history
AcceptInv == \A n \in Samples : send[n] = "accepted" => sample[n] \in history

StoreInv == SampleInv /\ RequestInv /\ RowInv /\ AnswerInv /\ AcceptInv /\ NeverRefused

\* The API accepts what the simulator sends, the first time and again.
LEMMA StatusAccepts ==
  ASSUME RobotInv, StoreInv, NEW q \in wire
  PROVE  Status(q.body) = "202"
<1>1. q.body.inRange /\ q.body.source = q.n
  BY DEF StoreInv, SampleInv, RequestInv
<1>2. Rows(q.body) \subseteq {q.body}
  BY <1>1 DEF Rows, StoreInv, RequestInv, RowInv
<1> QED BY <1>1, <1>2 DEF Status, RobotInv

\* A step that takes no sample, handles no request and ends no send as accepted or refused
\* keeps the store, whatever it takes from the network.
LEMMA QuietKeepsStore ==
  ASSUME StoreInv, UNCHANGED <<sample, history>>, answer' \subseteq answer,
         \A q \in wire' : q.n \in Taken /\ q.body = sample[q.n],
         \A n \in Samples : send'[n] \in {"accepted", "permanent_error"} => send'[n] = send[n]
  PROVE  StoreInv'
<1>1. Taken' = Taken
  BY DEF Taken
<1>2. NeverRefused'
  BY DEF StoreInv, NeverRefused
<1> QED BY <1>1, <1>2 DEF StoreInv, SampleInv, RequestInv, RowInv, AnswerInv, AcceptInv

\* A send that goes on or gives up is neither accepted nor refused.
LEMMA BackOffQuiet ==
  ASSUME SendTypes, NEW n \in Samples, BackOff(n) \/ Settle(n, "exhausted")
  PROVE  \A m \in Samples : send'[m] \in {"accepted", "permanent_error"} => send'[m] = send[m]
BY DEF BackOff, Settle, SendTypes

LEMMA ClientKeepsStore ==
  ASSUME SendTypes, StoreInv, NEW n \in Samples, Client(n)
  PROVE  StoreInv'
<1>1. UNCHANGED <<sample, history>> /\ Taken' = Taken
  BY ClientMoves DEF Taken
<1>2. CASE Receive(n)
  <2>1. PICK a \in answer :
          /\ a.n = n /\ answer' = answer \ {a}
          /\ \/ a.status = "202" /\ Settle(n, "accepted")
             \/ a.status \in Retryable /\ BackOff(n)
             \/ a.status # "202" /\ a.status \notin Retryable /\ Settle(n, "permanent_error")
    BY <1>2, ReceiveContinues
  <2>2. wire' = wire
    BY <1>2, ReceiveContinues
  <2>3. a.status \in {"202"} \cup Retryable /\ (a.status = "202" => sample[n] \in history)
    <3>1. a \in answer /\ a.n = n
      BY <2>1
    <3>2. AnswerInv
      BY DEF StoreInv
    <3> QED BY <3>1, <3>2 DEF AnswerInv
  <2>4. CASE BackOff(n)
    BY <1>1, <2>1, <2>2, <2>4, BackOffQuiet, QuietKeepsStore DEF StoreInv, RequestInv
  <2>5. CASE a.status = "202" /\ Settle(n, "accepted")
    <3>1. sample[n] \in history
      BY <2>3, <2>5
    <3>2. \A m \in Samples : m # n => send'[m] = send[m]
      BY <2>5 DEF Settle, SendTypes
    <3>3. send'[n] = "accepted"
      BY <2>5 DEF Settle, SendTypes
    <3>4. NeverRefused'
      BY <3>2, <3>3 DEF StoreInv, NeverRefused
    <3> QED BY <1>1, <2>1, <2>2, <3>1, <3>2, <3>4 DEF StoreInv, SampleInv, RequestInv, RowInv, AnswerInv, AcceptInv
  <2> QED BY <2>1, <2>3, <2>4, <2>5
<1>3. ASSUME Hangup(n)
      PROVE  /\ answer' \subseteq answer
             /\ \A q \in wire' : q.n \in Taken /\ q.body = sample[q.n]
  BY <1>3 DEF Hangup, StoreInv, RequestInv
<1>4. CASE NetworkFailure(n)
  BY <1>1, <1>3, <1>4, BackOffQuiet, QuietKeepsStore DEF NetworkFailure
<1>5. CASE AbortFetch(n)
  BY <1>1, <1>3, <1>5, BackOffQuiet, QuietKeepsStore DEF AbortFetch
<1>6. CASE WakeUp(n)
  <2>1. CASE aborted
    <3>1. Settle(n, "exhausted") /\ UNCHANGED <<wire, answer>>
      BY <1>6, <2>1 DEF WakeUp
    <3> QED BY <1>1, <3>1, BackOffQuiet, QuietKeepsStore DEF StoreInv, RequestInv
  <2>2. CASE ~aborted
    <3>1. /\ send[n] = "sleeping" /\ send' = [send EXCEPT ![n] = "fetching"]
          /\ wire' = wire \cup {[n |-> n, attempt |-> attempt[n] + 1, body |-> sample[n]]}
          /\ UNCHANGED answer
      BY <1>6, <2>2 DEF WakeUp, Post, Body
    <3>2. n \in Taken
      BY <3>1, UplinkAssumption DEF SendTypes
    <3>3. \A q \in wire' : q.n \in Taken /\ q.body = sample[q.n]
      BY <3>1, <3>2 DEF StoreInv, RequestInv
    <3>4. \A m \in Samples : send'[m] \in {"accepted", "permanent_error"} => send'[m] = send[m]
      BY <3>1 DEF SendTypes
    <3> QED BY <1>1, <3>1, <3>3, <3>4, QuietKeepsStore
  <2> QED BY <2>1, <2>2
<1> QED BY <1>2, <1>4, <1>5, <1>6 DEF Client

\* A request is answered with 202, and its sample is stored, or with a failure.
LEMMA HandleKeepsStore ==
  ASSUME RobotInv, StoreInv, NEW q \in wire, Handle(q)
  PROVE  StoreInv'
<1>1. Status(q.body) = "202" /\ q.body = sample[q.n] /\ q.n \in Taken
  BY StatusAccepts DEF StoreInv, RequestInv
<1>2. UNCHANGED <<sample, send>> /\ Taken' = Taken /\ wire' \subseteq wire
  BY DEF Handle, sending, Taken
<1>3. \/ history' = history \cup {q.body} /\ Respond(q, "202")
      \/ history' = history /\ Respond(q, "500")
  BY <1>1 DEF Handle
<1>4. ASSUME NEW status, Respond(q, status), NEW a \in answer'
      PROVE  a \in answer \/ (a.n = q.n /\ a.status = status)
  BY <1>4 DEF Respond
<1>5. sample[q.n].source = q.n
  BY <1>1 DEF StoreInv, SampleInv
<1>6. history \subseteq history' /\ history' \subseteq history \cup {q.body}
  BY <1>3
<1>7. RowInv'
  BY <1>1, <1>2, <1>5, <1>6 DEF StoreInv, RowInv
<1>8. AnswerInv'
  <2>1. CASE history' = history \cup {q.body} /\ Respond(q, "202")
    BY <1>1, <1>2, <1>4, <1>6, <2>1 DEF StoreInv, AnswerInv
  <2>2. CASE history' = history /\ Respond(q, "500")
    BY <1>1, <1>2, <1>4, <2>2 DEF StoreInv, AnswerInv, Retryable
  <2> QED BY <1>3, <2>1, <2>2
<1>9. NeverRefused'
  BY <1>2 DEF StoreInv, NeverRefused
<1>10. AcceptInv'
  BY <1>2, <1>6 DEF StoreInv, AcceptInv
<1>11. SampleInv' /\ RequestInv'
  BY <1>2 DEF StoreInv, SampleInv, RequestInv
<1> QED BY <1>7, <1>8, <1>9, <1>10, <1>11 DEF StoreInv

LEMMA EmitKeepsStore ==
  ASSUME RobotInv, SendInv, StoreInv, EmitTelemetryOnce
  PROVE  StoreInv'
<1>1. PICK n \in Samples :
           /\ n \notin Taken /\ Taken' = Taken \cup {n}
           /\ sample'[n] = Snapshot(n)
           /\ \A m \in Taken : sample'[m] = sample[m]
           /\ send' = [send EXCEPT ![n] = "fetching"]
           /\ wire' = wire \cup {[n |-> n, attempt |-> 1, body |-> Snapshot(n)]}
  BY EmitEffect
<1>2. UNCHANGED <<answer, history>>
  BY DEF EmitTelemetryOnce
<1>3. Snapshot(n).source = n /\ Snapshot(n).inRange
  BY LawfulMeetsContract DEF Snapshot
<1>4. SampleInv'
  BY <1>1, <1>3 DEF StoreInv, SampleInv
<1>5. RequestInv'
  BY <1>1 DEF StoreInv, RequestInv
<1>6. \A m \in Samples : /\ send'[m] = "accepted" => m # n /\ send[m] = "accepted"
                         /\ send'[m] # "permanent_error"
  BY <1>1 DEF StoreInv, NeverRefused, SendInv, SendTypes
<1>7. \A m \in Samples : send[m] = "accepted" => m \in Taken
  BY UplinkAssumption DEF SendInv, SendTypes
<1>8. AcceptInv'
  BY <1>1, <1>2, <1>6, <1>7 DEF StoreInv, AcceptInv
<1>9. RowInv'
  BY <1>1, <1>2 DEF StoreInv, RowInv
<1>10. AnswerInv'
  <2>1. AnswerInv
    BY DEF StoreInv
  <2>2. \A m \in Taken : m \in Taken' /\ sample'[m] = sample[m]
    BY <1>1
  <2> QED BY <1>2, <2>1, <2>2 DEF AnswerInv
<1>11. NeverRefused'
  BY <1>6 DEF NeverRefused
<1> QED BY <1>4, <1>5, <1>8, <1>9, <1>10, <1>11 DEF StoreInv

-----------------------------------------------------------------------------
(* The theorems *)

IInv == RobotInv /\ SendInv /\ StoreInv

\* Nothing is on its way or stored.
LEMMA InitIInv == Init => IInv
<1> SUFFICES ASSUME Init PROVE StoreInv
  BY InitRobotInv, InitSendInv DEF IInv
<1>1. Taken = {}
  BY DEF Init, Constructed, Taken
<1>2. \A n \in Samples : send[n] \notin {"accepted", "permanent_error"}
  BY UplinkAssumption DEF Init
<1> QED BY <1>1, <1>2 DEF Init, StoreInv, SampleInv, RequestInv, RowInv, AnswerInv, AcceptInv, NeverRefused

\* Every step keeps the invariant.
LEMMA NextIInv == IInv /\ [Next]_vars => IInv'
<1> SUFFICES ASSUME IInv, [Next]_vars PROVE StoreInv'
  BY NextRobotInv, NextSendInv DEF IInv
<1>1. CASE UNCHANGED <<sample, send, wire, answer, history>>
  BY <1>1 DEF IInv, StoreInv, SampleInv, RequestInv, RowInv, AnswerInv, AcceptInv, NeverRefused, Taken
<1>2. CASE OnTick \/ Shutdown \/ Exit \/ UNCHANGED vars
  BY <1>1, <1>2 DEF OnTick, Shutdown, Exit, vars, sending, network
<1>3. ASSUME NEW q \in wire, Handle(q) PROVE StoreInv'
  BY <1>3, HandleKeepsStore DEF IInv
<1>4. ASSUME NEW n \in Samples, Client(n) PROVE StoreInv'
  BY <1>4, ClientKeepsStore DEF IInv, SendInv
<1>5. CASE EmitTelemetryOnce
  BY <1>5, EmitKeepsStore DEF IInv
<1> QED BY <1>2, <1>3, <1>4, <1>5 DEF Next

\* The inductive invariant.
LEMMA Inductive == Spec => []IInv
BY InitIInv, NextIInv, PTL DEF Spec

\* Type correctness, with the laws of enforceBounds and of the clamps of physics.ts: the
\* robot stays inside its world and on its scales, whatever the generator draws.
THEOREM TypeCorrect == Spec => []TypeOK
<1>1. IInv => TypeOK
  BY DEF IInv, RobotInv, SendInv, SendTypes, TypeOK, Ended, Settled
<1> QED BY <1>1, Inductive, PTL

\* emitTelemetryOnce and stop: one send of the robot is pending at a time, inFlight says
\* so, and the process does not exit before every send is over.
THEOREM OneSend == Spec => []OneSendAtATime
<1>1. IInv => OneSendAtATime
  <2> SUFFICES ASSUME IInv PROVE OneSendAtATime
    OBVIOUS
  <2>1. CASE Unsettled = {}
    <3>1. Cardinality(Unsettled) = 0 /\ inFlight = FALSE
      BY <2>1, FS_EmptySet DEF IInv, SendInv, SendTypes, FlightInv
    <3> QED BY <2>1, <3>1 DEF OneSendAtATime
  <2>2. CASE Unsettled # {}
    <3>1. PICK n : Unsettled = {n}
      BY <2>2 DEF IInv, SendInv, FlightInv
    <3>2. Cardinality(Unsettled) = 1 /\ inFlight = TRUE
      BY <2>2, <3>1, FS_Singleton DEF IInv, SendInv, SendTypes, FlightInv
    <3> QED BY <3>2, <2>2 DEF OneSendAtATime, IInv, SendInv, FlightInv
  <2> QED BY <2>1, <2>2
<1> QED BY <1>1, Inductive, PTL

\* HttpTelemetryProducer.send: the API never refuses a sample, nor a repetition of it.
THEOREM SamplesAccepted == Spec => []NeverRefused
<1>1. IInv => NeverRefused
  BY DEF IInv, StoreInv, SampleInv, RequestInv, RowInv, AnswerInv, AcceptInv
<1> QED BY <1>1, Inductive, PTL

\* emitTelemetryOnce and send: what the API stores is what was captured, and what the
\* producer takes for accepted is stored.
THEOREM SamplesStored == Spec => []StoredAsCaptured
<1>1. IInv => StoredAsCaptured
  BY DEF IInv, StoreInv, SampleInv, RequestInv, RowInv, AnswerInv, AcceptInv, StoredAsCaptured
<1> QED BY <1>1, Inductive, PTL

\* tickRobot: no step moves a robot further than its speed allows in MAX_DELTA_SECONDS,
\* moves one that is spent or off duty, charges a battery, or turns a robot away from
\* where it is going, whatever the world, the profile and the draws of the generator.
THEOREM MotionKeepsTheLaws == Spec => MotionIsLawful
<1> DEFINE Laws ==
      LET from == robot.position
          to == robot'.position
          bearing == BearingFrom(robot, robot'.target)
      IN /\ Length(Minus([to EXCEPT !.y = from.y], from)) <= ProfileOf(robot).maxSpeed * MaxDelta
         /\ robot.batteryPercent = 0 \/ robot'.behaviorPhase # "moving" => to = from
         /\ robot'.batteryPercent <= robot.batteryPercent
         /\ Angle(robot'.headingDegrees, bearing) <= Angle(robot.headingDegrees, bearing)
<1>1. IInv /\ [Next]_vars => [Laws]_simulation
  <2> SUFFICES ASSUME IInv, [Next]_vars, NEW e \in Nat, robot' \in TickRobot(robot, e)
               PROVE  Laws
    BY StepMoves DEF IInv
  <2> DEFINE max == ProfileOf(robot).maxSpeed * MaxDelta
             from == robot.position
             to == robot'.position
             bearing == BearingFrom(robot, robot'.target)
  <2>1. Typed(robot) /\ Lawful(robot) /\ Typed(robot')
    BY NextRobotInv DEF IInv, RobotInv
  <2>2. /\ Abs(to.x - from.x) <= max /\ Abs(to.z - from.z) <= max
        /\ robot.batteryPercent = 0 \/ robot'.behaviorPhase # "moving" => to = from
        /\ robot'.batteryPercent <= robot.batteryPercent
        /\ Angle(robot'.headingDegrees, bearing) <= Angle(robot.headingDegrees, bearing)
    BY <2>1, TickMoves
  <2>3. max \in Nat
    BY <2>1, ProfileTyped, WorldAssumption DEF BehaviorProfile
  <2>4. from \in Vector /\ to \in Vector
    BY <2>1 DEF Typed
  <2> HIDE DEF max, from, to, bearing
  <2>5. Minus([to EXCEPT !.y = from.y], from) = [x |-> to.x - from.x, y |-> 0, z |-> to.z - from.z]
    BY <2>4 DEF Minus, Vector
  <2>6. Length([x |-> to.x - from.x, y |-> 0, z |-> to.z - from.z]) <= max
    BY <2>2, <2>3, <2>4 DEF Length, Larger, Abs, Vector
  <2> QED BY <2>2, <2>5, <2>6 DEF max, from, to, bearing
<1> HIDE DEF Laws
<1>2. Spec => [][Laws]_simulation
  BY <1>1, Inductive, PTL DEF Spec
<1> QED BY <1>2 DEF MotionIsLawful, Laws

==============================================================================
