------------------------------ MODULE HealthLedger ------------------------------
(***************************************************************************)
(* What the health worker promises about its tables, with transactions and *)
(* locks left out: an event is taken into account in one step, at most     *)
(* once while its inbox row exists, and changes a robot's health only if   *)
(* it is strictly newer than what the health was evaluated from; the       *)
(* alerts of a change appear with it.  HealthEvaluation implements this    *)
(* specification.                                                          *)
(***************************************************************************)
EXTENDS HealthRules

CONSTANTS Robots, Events, RobotOf, EventRecordedAt, Reading, None

VARIABLES inbox, health, alerts

vars == <<inbox, health, alerts>>

LevelsOf(state) ==
  IF state = None THEN [d \in Dims |-> Undefined] ELSE state.levels

StateFrom(e) ==
  [levels |-> Classify(Reading[e]), status |-> OverallStatus(Classify(Reading[e])),
   from |-> e]

Init ==
  /\ inbox = {}
  /\ health = [r \in Robots |-> None]
  /\ alerts = [a \in [event : Events, dim : Dims, severity : {"WARNING", "CRITICAL"}] |-> 0]

\* The event is older than, or as old as, the health the robot already has.
Skip(e) ==
  /\ e \notin inbox
  /\ health[RobotOf[e]] # None
  /\ EventRecordedAt[e] <= EventRecordedAt[health[RobotOf[e]].from]
  /\ inbox' = inbox \cup {e}
  /\ UNCHANGED <<health, alerts>>

\* The event is newer: the robot's health and its alerts move together.
Apply(e) ==
  LET r == RobotOf[e]
      new == AlertsFor(e, LevelsOf(health[r]), Classify(Reading[e]))
  IN  /\ e \notin inbox
      /\ \/ health[r] = None
         \/ EventRecordedAt[e] > EventRecordedAt[health[r].from]
      /\ inbox' = inbox \cup {e}
      /\ health' = [health EXCEPT ![r] = StateFrom(e)]
      /\ alerts' = [a \in DOMAIN alerts |-> IF a \in new THEN alerts[a] + 1 ELSE alerts[a]]

\* Retention forgets processed markers.
Forget ==
  /\ inbox' \subseteq inbox
  /\ UNCHANGED <<health, alerts>>

Next ==
  \/ \E e \in Events : Skip(e) \/ Apply(e)
  \/ Forget

Spec == Init /\ [][Next]_vars
===============================================================================
