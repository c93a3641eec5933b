-------------------------- MODULE MCHealthEvaluation --------------------------
(***************************************************************************)
(* A small instance of HealthEvaluation for TLC.  One robot and three      *)
(* events, of which e2 and e3 carry the same timestamp, and one event the  *)
(* schema rejects.  The readings sit on both sides of the thresholds; e1   *)
(* and e3 are both critical in temperature, with no event between them     *)
(* unless e2 is applied.                                                   *)
(***************************************************************************)
EXTENDS HealthEvaluation, TLC

CONSTANTS r1, e1, e2, e3, bad

MCEvents == {e1, e2, e3, bad}

MCRobotOf == [e \in MCEvents |-> r1]

MCRecordedAt == (e1 :> 1) @@ (e2 :> 2) @@ (e3 :> 2) @@ (bad :> 4)

MCReading ==
  (e1  :> [battery |-> 9,  temperature |-> 96, signal |-> -90]) @@
  (e2  :> [battery |-> 20, temperature |-> 81, signal |-> -91]) @@
  (e3  :> [battery |-> 10, temperature |-> 97, signal |-> -106]) @@
  (bad :> [battery |-> 0,  temperature |-> 0,  signal |-> 0])
===============================================================================
