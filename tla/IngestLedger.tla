----------------------------- MODULE IngestLedger -----------------------------
(***************************************************************************)
(* What telemetry ingest promises, with the transactions left out: a       *)
(* sample is accepted in one step, and that step writes the history row,   *)
(* the outbox row and, when the sample is newer, the robot's current       *)
(* state.  A source id whose history row is still retained is never        *)
(* accepted again.  IngestTelemetry implements this specification.         *)
(***************************************************************************)
EXTENDS Integers

CONSTANTS Robots,        \* the robots that exist
          Rows,          \* every row a request could write
          Times,         \* values of the receivedAt clock
          RecordedAt,    \* observation -> the robot-side timestamp in it
          None           \* no current state yet

VARIABLES telemetry,     \* RobotTelemetry: history rows still retained
          current,       \* RobotCurrentState: the row each robot's state is from
          outbox         \* OutboxMessage: the event of every accepted row

vars == <<telemetry, current, outbox>>

Init ==
  /\ telemetry = {}
  /\ current = [r \in Robots |-> None]
  /\ outbox = {}

SameKey(x, y) == x.robot = y.robot /\ x.source = y.source

Newest(old, x) ==
  IF old = None \/ RecordedAt[x.observation] > RecordedAt[old.observation]
  THEN x ELSE old

\* History, event and current state appear together or not at all.
Accept(x) ==
  /\ \A y \in telemetry : ~SameKey(x, y)
  /\ \A y \in outbox : y.id # x.id
  /\ telemetry' = telemetry \cup {x}
  /\ outbox' = outbox \cup {x}
  /\ current' = [current EXCEPT ![x.robot] = Newest(@, x)]

\* Retention forgets history by age of receipt; it touches nothing else.
Forget(cutoff) ==
  /\ telemetry' = {x \in telemetry : x.receivedAt >= cutoff}
  /\ UNCHANGED <<current, outbox>>

Next ==
  \/ \E x \in Rows : Accept(x)
  \/ \E t \in Times : Forget(t)

Spec == Init /\ [][Next]_vars
===============================================================================
