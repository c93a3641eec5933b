-------------------------- MODULE MCTelemetryUplink --------------------------
(***************************************************************************)
(* A small instance of TelemetryUplink for TLC: a drone, a miner and a     *)
(* worker on a map of five by three units, with walls one unit beyond the  *)
(* nearest target, a battery that a fast robot empties in two ticks, and   *)
(* stalls of the process longer than MAX_DELTA_SECONDS.                    *)
(***************************************************************************)
EXTENDS TelemetryUplink

MCBounds == [minX |-> -2, maxX |-> 2, minZ |-> -1, maxZ |-> 1, maxAltitude |-> 2]

MCProfile(speed, turn, drain) ==
  [maxSpeed |-> speed, cruiseAltitude |-> 0, turnRate |-> turn, baseDrain |-> 5,
   movementDrain |-> drain, retargetInterval |-> 1, retargetTimes |-> {1},
   localizedRadius |-> 0, idles |-> FALSE, idleTimes |-> {}, workTimes |-> {}]

MCBehaviorProfiles ==
  [DRONE  |-> [MCProfile(2, 90, 30) EXCEPT !.cruiseAltitude = 5],
   MINER  |-> [MCProfile(1, 45, 20) EXCEPT !.localizedRadius = 1, !.workTimes = {1}],
   WORKER |-> [MCProfile(1, 90, 10) EXCEPT !.idles = TRUE, !.idleTimes = {1}]]

MCFleet ==
  {[type |-> "DRONE",  initialPosition |-> [x |-> 0, y |-> 1, z |-> 0]],
   [type |-> "MINER",  initialPosition |-> [x |-> 1, y |-> 0, z |-> 1]],
   [type |-> "WORKER", initialPosition |-> [x |-> -1, y |-> 0, z |-> 0]]}

MCNoise == {1}
MCElapsed == {1, 3}
MCSeededRobots == {"DRONE", "MINER", "WORKER"}
MCBatteries == {35}
===============================================================================
