------------------------------ MODULE MCReadSide ------------------------------
(***************************************************************************)
(* A small instance of ReadSide for TLC: two samples of one timestamp and  *)
(* one that comes late with an earlier one; two alerts of one moment, the  *)
(* later one with the smaller id; and two robots.                          *)
(***************************************************************************)
EXTENDS ReadSide

MCRow(list, id, at, of) == [list |-> list, id |-> id, at |-> at, of |-> of]

MCFirstRows ==
  {MCRow("robots", 1, 0, 1), MCRow("robots", 2, 0, 2), MCRow("alerts", 1, 5, 1),
   MCRow("telemetry", 1, 5, 1), MCRow("telemetry", 2, 5, 1)}

MCRows == MCFirstRows \cup
  {MCRow("telemetry", 3, 4, 1), MCRow("alerts", 0, 5, 1)}

MCQuery(list, of, order, limit) ==
  [list |-> list, of |-> of, from |-> 0, to |-> 9, order |-> order, limit |-> limit]

MCQueries ==
  {MCQuery("telemetry", 1, "asc", 1), MCQuery("telemetry", 1, "desc", 2),
   [MCQuery("telemetry", 2, "asc", 2) EXCEPT !.to = -1], MCQuery("telemetry", 3, "asc", 2),
   MCQuery("alerts", None, "desc", 1), MCQuery("robots", None, "asc", 1)}

===============================================================================
