------------------------------ MODULE HealthRules ------------------------------
(***************************************************************************)
(* The pure rules of EvaluateRobotHealth: how a reading is classified and  *)
(* which alerts a change of classification raises.  Readings are integers  *)
(* in a unit fine enough to tell both sides of a threshold apart.          *)
(***************************************************************************)
EXTENDS Integers

\* HealthDimensionStatus, and the value of a dimension nobody evaluated yet.
Levels == {"NORMAL", "WARNING", "CRITICAL"}
Undefined == "undefined"

Dims == {"battery", "temperature", "signal"}

\* HEALTH_THRESHOLDS
Thresholds ==
  [battery     |-> [warning |-> 20,  critical |-> 10],
   temperature |-> [warning |-> 80,  critical |-> 95],
   signal      |-> [warning |-> -90, critical |-> -105]]

\* Battery and signal are bad when they are low.
Below(reading, limits) ==
  IF reading < limits.critical THEN "CRITICAL"
  ELSE IF reading < limits.warning THEN "WARNING"
  ELSE "NORMAL"

\* Temperature is bad when it is high.
Above(reading, limits) ==
  IF reading > limits.critical THEN "CRITICAL"
  ELSE IF reading > limits.warning THEN "WARNING"
  ELSE "NORMAL"

Classify(reading) ==
  [battery     |-> Below(reading.battery, Thresholds.battery),
   temperature |-> Above(reading.temperature, Thresholds.temperature),
   signal      |-> Below(reading.signal, Thresholds.signal)]

\* The status of a robot is the worst of its dimensions.
OverallStatus(levels) ==
  IF \E d \in Dims : levels[d] = "CRITICAL" THEN "CRITICAL"
  ELSE IF \E d \in Dims : levels[d] = "WARNING" THEN "WARNING"
  ELSE "HEALTHY"

\* Mutant of Raises: every sample outside NORMAL alerts.
RaisesAlways(previous, next) == next # "NORMAL"

\* transitionAlert: a dimension escalates to CRITICAL or enters WARNING from a
\* better level; recovery and staying in a band raise nothing.
Raises(previous, next) ==
  \/ next = "CRITICAL" /\ previous # "CRITICAL"
  \/ next = "WARNING" /\ previous \notin {"WARNING", "CRITICAL"}

\* The alerts event e raises when its levels replace the previous ones.
AlertsFor(e, previous, next) ==
  {[event |-> e, dim |-> d, severity |-> next[d]] :
     d \in {x \in Dims : Raises(previous[x], next[x])}}
===============================================================================
