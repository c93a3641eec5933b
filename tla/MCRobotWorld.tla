----------------------------- MODULE MCRobotWorld -----------------------------
(***************************************************************************)
(* A small instance of RobotWorld for TLC, on a canvas that is either      *)
(* usable or a degenerate strip.  The robot r1 has samples enough to prune *)
(* its buffer by age and by count; the robot r2 has a single state, which  *)
(* may lack a position.  What several robots do to each other needs no     *)
(* long time, and what time does to a path needs no second robot: Scene    *)
(* bounds the first, and beyond it only runs without r2 are followed.      *)
(***************************************************************************)
EXTENDS RobotWorld, TLC

CONSTANTS r1, r2,
          MaxScene  \* bound on the clock of the runs in which r2 is listed

MCRobots == {r1, r2}
MCSamples == r1 :> 1 .. 5 @@ r2 :> {1}
MCUnplaced == {r2}

MCSizes == {[usable |-> TRUE, degenerate |-> FALSE], [usable |-> FALSE, degenerate |-> TRUE]}

\* The state constraint: r2 has not come into view, or it is early.
Scene == now <= MaxScene \/ fleet[r2] = [status |-> "unlisted", at |-> 0, positioned |-> FALSE]
===============================================================================
