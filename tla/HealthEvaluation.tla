--------------------------- MODULE HealthEvaluation ---------------------------
(***************************************************************************)
(* The health worker: EvaluateRobotHealth run by every delivery that is    *)
(* being handled (the consumer prefetches, and several workers may share   *)
(* the queue), over the Prisma repositories, one READ COMMITTED            *)
(* transaction per delivery.  A delivery may be repeated, late or out of   *)
(* order.  What a transaction has written stays private until Commit and   *)
(* is dropped by Abandon.  Four PostgreSQL locks order the handlers: the   *)
(* primary key of the inbox, the Robot row (lockById), and the health row, *)
(* either as selected FOR UPDATE or as upserted.                           *)
(***************************************************************************)
EXTENDS HealthRules, FiniteSets

CONSTANTS
  Robots,
  Events,              \* published telemetry events
  Malformed,           \* events the contract's schema rejects
  RobotOf,             \* event -> robot
  EventRecordedAt,     \* event -> recordedAt of its sample
  Reading,             \* event -> its battery, temperature and signal
  Handlers,            \* deliveries being handled at the same time
  ProcessedRetention,  \* PROCESSED_MESSAGE_RETENTION_HOURS, in ticks
  MaxNow,              \* bound on the clock
  None                 \* null

Times == 0..MaxNow

ASSUME HealthAssumption ==
  /\ Malformed \subseteq Events
  /\ RobotOf \in [Events -> Robots]
  /\ EventRecordedAt \in [Events -> Int]
  /\ Reading \in [Events -> [battery : Int, temperature : Int, signal : Int]]
  /\ ProcessedRetention \in Nat \ {0}
  /\ MaxNow \in Nat
  /\ None \notin Times \cup Events
  /\ None \notin [levels : [Dims -> Levels], status : {"HEALTHY", "WARNING", "CRITICAL"},
                  from : Events]

VARIABLES
  now,          \* the wall clock of the workers
  processedAt,  \* committed ProcessedMessage rows: event -> processedAt or None
  health,       \* committed RobotHealthState: robot -> its row or None
  alerts,       \* committed Alert rows: how many of each kind
  pc,           \* handler -> its next statement, "idle" between deliveries
  event,        \* handler -> the event it handles
  previous,     \* handler -> the levels it read (existing?.xStatus)
  wins,         \* handler -> whether its upsert of the health row won
  settled,      \* what the last step did with a message at the broker
  seen,         \* history variable: events whose processing ever committed
  applied       \* history variable: those that changed a robot's health

db == <<processedAt, health, alerts, seen, applied>>
handler == <<pc, event, previous, wins>>
vars == <<now, db, handler, settled>>

Alert == [event : Events, dim : Dims, severity : {"WARNING", "CRITICAL"}]
HealthState == [levels : [Dims -> Levels], status : {"HEALTHY", "WARNING", "CRITICAL"},
                from : Events]
PreviousLevels == [Dims -> Levels \cup {Undefined}]
Unread == [d \in Dims |-> Undefined]
Settlement == [event : Events, action : {"complete", "abandon", "deadLetter"}]

Inbox == {e \in Events : processedAt[e] # None}

-----------------------------------------------------------------------------
(* The decisions of the code and of the database *)

Owning == {"owned", "locked", "stale", "evaluated", "written"}

\* w's insert of the processed marker of e is not committed yet.
HoldsInbox(w, e) == pc[w] \in Owning /\ event[w] = e

\* Mutant of HoldsRobot: lockById is not called.
HoldsNoRobot(w, r) == FALSE

\* Mutant of HoldsRobot: the Robot row stays locked by an idle session.
HoldsRobotIdle(w, r) == health[r] # None

\* w has the Robot row FOR UPDATE.
HoldsRobot(w, r) ==
  pc[w] \in {"locked", "stale", "evaluated", "written"} /\ RobotOf[event[w]] = r

\* w has the committed health row of r FOR UPDATE, or has upserted it.
HoldsHealth(w, r) ==
  /\ \/ pc[w] \in {"stale", "evaluated"} /\ health[r] # None
     \/ pc[w] = "written"
  /\ RobotOf[event[w]] = r

\* Mutant of NotNewer: an equal timestamp is evaluated again.
Older(e, state) ==
  state # None /\ EventRecordedAt[e] < EventRecordedAt[state.from]

\* Mutant of NotNewer: there is no gate.
AlwaysNewer(e, state) == FALSE

\* The chronology gate of execute: stale or equal telemetry changes nothing.
NotNewer(e, state) ==
  state # None /\ EventRecordedAt[e] <= EventRecordedAt[state.from]

LevelsOf(state) == IF state = None THEN Unread ELSE state.levels

\* nextState of execute.
StateFrom(e) ==
  [levels |-> Classify(Reading[e]), status |-> OverallStatus(Classify(Reading[e])),
   from |-> e]

-----------------------------------------------------------------------------
(* The steps of a delivery *)

\* processMessage: the message is settled as the handler answers; when that
\* fails, the catch clause abandons it, although the handler may have committed.
Settlements(answer) == {answer, "abandon"}

\* The handler answers.
Finish(w, answer) ==
  /\ pc' = [pc EXCEPT ![w] = "idle"]
  /\ event' = [event EXCEPT ![w] = None]
  /\ previous' = [previous EXCEPT ![w] = Unread]
  /\ wins' = [wins EXCEPT ![w] = FALSE]
  /\ \E action \in Settlements(answer) : settled' = [event |-> event[w], action |-> action]
  /\ UNCHANGED now

\* The handler goes on to its next statement.
Goto(w, label) ==
  /\ pc' = [pc EXCEPT ![w] = label]
  /\ settled' = None
  /\ UNCHANGED <<now, event>>

\* RobotTelemetryReceivedEventV1Schema.parse
Parses(e) == e \notin Malformed

\* The consumer delivers e, for the first time or again.
Receive(w, e) ==
  /\ pc[w] = "idle"
  /\ pc' = [pc EXCEPT ![w] = "received"]
  /\ event' = [event EXCEPT ![w] = e]
  /\ settled' = None
  /\ UNCHANGED <<now, db, previous, wins>>

\* The schema rejects the body: ZodError is permanent, before any transaction.
RejectMalformed(w) ==
  /\ pc[w] = "received"
  /\ ~Parses(event[w])
  /\ Finish(w, "deadLetter")
  /\ UNCHANGED db

\* tryBeginProcessing: the insert waits for another open insert of the same
\* event; then this delivery owns the event.
TryBeginProcessing(w) ==
  /\ pc[w] = "received"
  /\ Parses(event[w])
  /\ processedAt[event[w]] = None
  /\ \A v \in Handlers \ {w} : ~HoldsInbox(v, event[w])
  /\ Goto(w, "owned")
  /\ UNCHANGED <<db, previous, wins>>

\* Mutant of IsDuplicate: an open insert already counts as processed.
SomeoneHasIt(w) ==
  \/ processedAt[event[w]] # None
  \/ \E v \in Handlers \ {w} : HoldsInbox(v, event[w])

\* P2002: the marker of the event is committed.
IsDuplicate(w) == processedAt[event[w]] # None

\* tryBeginProcessing finds a committed marker: nothing to do.
Duplicate(w) ==
  /\ pc[w] = "received"
  /\ Parses(event[w])
  /\ IsDuplicate(w)
  /\ Finish(w, "complete")
  /\ UNCHANGED db

\* robots.lockById: waits for the Robot row.
LockById(w) ==
  /\ pc[w] = "owned"
  /\ \A v \in Handlers \ {w} : ~HoldsRobot(v, RobotOf[event[w]])
  /\ Goto(w, "locked")
  /\ UNCHANGED <<db, previous, wins>>

\* findByRobotIdForUpdate, then the gate: waits for the row if there is one.
FindForUpdate(w) ==
  LET state == health[RobotOf[event[w]]] IN
  /\ pc[w] = "locked"
  /\ state # None =>
       \A v \in Handlers \ {w} : ~HoldsHealth(v, RobotOf[event[w]])
  /\ Goto(w, IF NotNewer(event[w], state) THEN "stale" ELSE "evaluated")
  /\ previous' = [previous EXCEPT ![w] = LevelsOf(state)]
  /\ UNCHANGED <<db, wins>>

\* health.updateIfNewer and alerts.append: the WHERE clause looks at the row
\* again; the alerts are appended whatever it says.
Write(w) ==
  LET state == health[RobotOf[event[w]]] IN
  /\ pc[w] = "evaluated"
  /\ \A v \in Handlers \ {w} : ~HoldsHealth(v, RobotOf[event[w]])
  /\ Goto(w, "written")
  /\ wins' = [wins EXCEPT ![w] = ~NotNewer(event[w], state)]
  /\ UNCHANGED <<db, previous>>

\* alerts.append
AppendAlerts(new) ==
  alerts' = [a \in Alert |-> IF a \in new THEN alerts[a] + 1 ELSE alerts[a]]

\* The marker appears, with the time of its insert, which was before the commit.
Process(w) ==
  \E inserted \in 0..now : processedAt' = [processedAt EXCEPT ![event[w]] = inserted]

\* COMMIT of a stale delivery: only its marker stays.
CommitStale(w) ==
  /\ pc[w] = "stale"
  /\ Process(w)
  /\ seen' = seen \cup {event[w]}
  /\ UNCHANGED <<health, alerts, applied>>
  /\ Finish(w, "complete")

\* COMMIT of an evaluation: marker, health and alerts appear at once.
Commit(w) ==
  LET new == AlertsFor(event[w], previous[w], Classify(Reading[event[w]])) IN
  /\ pc[w] = "written"
  /\ Process(w)
  /\ health' = IF wins[w]
               THEN [health EXCEPT ![RobotOf[event[w]]] = StateFrom(event[w])]
               ELSE health
  /\ AppendAlerts(new)
  /\ seen' = seen \cup {event[w]}
  /\ applied' = IF wins[w] THEN applied \cup {event[w]} ELSE applied
  /\ Finish(w, "complete")

\* A statement fails, the transaction times out or the process dies: ROLLBACK,
\* and the message will be delivered again.
Abandon(w) ==
  /\ pc[w] # "idle"
  /\ Finish(w, "abandon")
  /\ UNCHANGED db

\* deleteProcessedMessagesBefore: processedAt < now - retention, strictly.
Expired(e, started) ==
  processedAt[e] # None /\ processedAt[e] < started - ProcessedRetention

\* The retention worker's delete; its cutoff dates from the start of its cycle.
DeleteProcessedBefore(started) ==
  /\ started <= now
  /\ \E e \in Events : Expired(e, started)
  /\ processedAt' = [e \in Events |-> IF Expired(e, started) THEN None ELSE processedAt[e]]
  /\ settled' = None
  /\ UNCHANGED <<now, health, alerts, seen, applied, handler>>

\* Time passes, up to the bound MaxNow.
Tick ==
  /\ now < MaxNow
  /\ now' = now + 1
  /\ settled' = None
  /\ UNCHANGED <<db, handler>>

-----------------------------------------------------------------------------

Init ==
  /\ now = 0
  /\ processedAt = [e \in Events |-> None]
  /\ health = [r \in Robots |-> None]
  /\ alerts = [a \in Alert |-> 0]
  /\ pc = [w \in Handlers |-> "idle"]
  /\ event = [w \in Handlers |-> None]
  /\ previous = [w \in Handlers |-> Unread]
  /\ wins = [w \in Handlers |-> FALSE]
  /\ settled = None
  /\ seen = {}
  /\ applied = {}

Step(w) ==
  \/ RejectMalformed(w)
  \/ TryBeginProcessing(w)
  \/ Duplicate(w)
  \/ LockById(w)
  \/ FindForUpdate(w)
  \/ Write(w)
  \/ CommitStale(w)
  \/ Commit(w)

Next ==
  \/ \E w \in Handlers, e \in Events : Receive(w, e)
  \/ \E w \in Handlers : Step(w) \/ Abandon(w)
  \/ \E t \in Times : DeleteProcessedBefore(t)
  \/ Tick

Spec == Init /\ [][Next]_vars

\* A handler that can take its next statement does; PostgreSQL grants locks to
\* waiters in turn, hence strong fairness.
Fairness == \A w \in Handlers : SF_vars(Step(w))

FairSpec == Spec /\ Fairness

-----------------------------------------------------------------------------
(* Properties *)

\* The evaluations of the robot of e that came earlier in recorded time.
Earlier(e) ==
  {f \in applied : RobotOf[f] = RobotOf[e] /\ EventRecordedAt[f] < EventRecordedAt[e]}

\* The levels e was compared with, if evaluations go by recorded time.
LevelsBefore(e) ==
  IF Earlier(e) = {} THEN {Unread}
  ELSE {Classify(Reading[f]) :
          f \in {g \in Earlier(e) :
                   \A h \in Earlier(e) : EventRecordedAt[h] <= EventRecordedAt[g]}}

\* lockById and the gate of execute: whatever the order, the repetition and the
\* concurrency of deliveries, and whatever retention forgot, the alert table
\* holds one alert for each transition along the applied evaluations in
\* recorded order, and nothing else.
AlertsAreTheTransitions ==
  \A a \in Alert :
    alerts[a] =
      IF /\ a.event \in applied
         /\ \E p \in LevelsBefore(a.event) :
              a \in AlertsFor(a.event, p, Classify(Reading[a.event]))
      THEN 1 ELSE 0

\* docs/adr/0012: repeated samples in a band create no new alerts.  Between two
\* critical alerts of one dimension of one robot there was an evaluation at
\* which the dimension was not critical.
CriticalStretchAlertsOnce ==
  \A a, b \in Alert :
    /\ alerts[a] > 0 /\ alerts[b] > 0
    /\ a.severity = "CRITICAL" /\ b.severity = "CRITICAL"
    /\ a.dim = b.dim /\ RobotOf[a.event] = RobotOf[b.event]
    /\ EventRecordedAt[a.event] < EventRecordedAt[b.event]
    => \E f \in applied :
         /\ RobotOf[f] = RobotOf[a.event]
         /\ EventRecordedAt[a.event] < EventRecordedAt[f]
         /\ EventRecordedAt[f] < EventRecordedAt[b.event]
         /\ Classify(Reading[f])[a.dim] # "CRITICAL"

\* updateIfNewer and the gate: a robot's health comes from one of its processed
\* events, and no processed event of the robot is newer.
HealthIsNewest ==
  /\ \A r \in Robots :
       health[r] # None => health[r].from \in applied /\ RobotOf[health[r].from] = r
  /\ \A e \in seen :
       /\ health[RobotOf[e]] # None
       /\ EventRecordedAt[health[RobotOf[e]].from] >= EventRecordedAt[e]

\* tryBeginProcessing: a delivery is completed, and so removed from the queue,
\* only when the processing of its event has committed, by this delivery or by
\* another one.
CompletedIsProcessed ==
  settled # None /\ settled.action = "complete" => settled.event \in seen

\* No deadlock among the inbox key, the Robot row and the health row: every
\* delivery that is being handled is settled.
EveryDeliverySettles == \A w \in Handlers : (pc[w] # "idle") ~> (pc[w] = "idle")

\* Concurrent evaluation is serialisable: the committed tables change as if
\* every event were taken into account in one step.
Ledger == INSTANCE HealthLedger WITH inbox <- Inbox

ImplementsLedger == Ledger!Spec
===============================================================================
