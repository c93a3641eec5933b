---------------------------- MODULE IngestTelemetry ----------------------------
(***************************************************************************)
(* POST /api/v1/telemetry: the IngestTelemetry use case, run by many       *)
(* requests at once over the Prisma repositories, each in one READ         *)
(* COMMITTED transaction.  A statement reads committed rows; what the      *)
(* transaction has written stays private to the call until Commit and is   *)
(* dropped by Fail.  Two PostgreSQL locks order concurrent calls: the      *)
(* unique index on (robotId, sourceTelemetryId) and the robot's row of     *)
(* RobotCurrentState, each held from the statement that takes it to the    *)
(* end of the transaction.  The retention worker deletes history meanwhile. *)
(***************************************************************************)
EXTENDS Integers, FiniteSets

CONSTANTS
  RobotIds,            \* robot ids a request may name
  SeededRobots,        \* those with a Robot row
  SourceIds,           \* sourceTelemetryId values
  Observations,        \* contents of a sample
  RecordedAt,          \* observation -> its recordedAt
  Ids,                 \* ulids: a row of history and its event share one
  Calls,               \* requests in flight at the same time
  TelemetryRetention,  \* TELEMETRY_RETENTION_HOURS, in ticks
  MaxNow,              \* bound on the clock
  None                 \* null

Times == 0..MaxNow

ASSUME IngestAssumption ==
  /\ SeededRobots \subseteq RobotIds
  /\ RecordedAt \in [Observations -> Int]
  /\ TelemetryRetention \in Nat \ {0}
  /\ MaxNow \in Nat

VARIABLES
  now,          \* the wall clock the API and the retention worker read
  telemetry,    \* committed rows of RobotTelemetry
  current,      \* committed RobotCurrentState: robot -> the row it holds
  outbox,       \* committed rows of OutboxMessage
  pc,           \* call -> its next statement, "idle" between requests
  request,      \* call -> the request it handles
  id,           \* call -> the ulid minted for it, None before
  newer,        \* call -> whether its upsert of the current state won
  reply,        \* the response the last step sent, None when it sent none
  committedAt   \* history variable: id -> when its transaction committed

db == <<telemetry, current, outbox, committedAt>>
call == <<pc, request, id, newer>>
vars == <<now, db, call, reply>>

Request == [robot: RobotIds, source: SourceIds, observation: Observations,
            receivedAt: Times]
Row == [id: Ids, robot: SeededRobots, source: SourceIds,
        observation: Observations, receivedAt: Times]
Answer == {"accepted", "notFound", "conflict", "uniqueViolation", "failed"}
Reply == [request: Request, answer: Answer]

\* null is none of the values it stands beside.
ASSUME NoneAssumption == None \notin Ids /\ None \notin Times /\ None \notin Row

-----------------------------------------------------------------------------
(* The decisions of the code *)

SameKey(x, y) == x.robot = y.robot /\ x.source = y.source

\* findByRobotIdAndSource: the committed history of the request's key.
FindByRobotIdAndSource(q) == {x \in telemetry : SameKey(x, q)}

\* Mutant of ObservationMatches: the replay test accepts any content.
MatchAnything(x, q) == TRUE

\* observationMatches: every field of the sample is equal.
ObservationMatches(x, q) == x.observation = q.observation

\* Mutant of StrictlyNewer: a sample with an equal timestamp replaces the state.
NewerOrEqual(o, old) ==
  old = None \/ RecordedAt[o] >= RecordedAt[old.observation]

\* The WHERE clause of updateIfNewer: EXCLUDED.recordedAt > stored.recordedAt.
StrictlyNewer(o, old) ==
  old = None \/ RecordedAt[o] > RecordedAt[old.observation]

\* Mutant of RowOf: the minted id is not written.
RowWithoutId(c) ==
  [id |-> None, robot |-> request[c].robot, source |-> request[c].source,
   observation |-> request[c].observation, receivedAt |-> request[c].receivedAt]

\* The row a call writes, once its id is minted.
RowOf(c) ==
  [id |-> id[c], robot |-> request[c].robot, source |-> request[c].source,
   observation |-> request[c].observation, receivedAt |-> request[c].receivedAt]

\* Mutant of HoldsKey: the index has no entry for an uncommitted row.
HoldsNothing(c, q) == FALSE

\* c's uncommitted insert is in the unique index under the key of q.
HoldsKey(c, q) ==
  pc[c] \in {"inserted", "upserted"} /\ SameKey(request[c], q)

\* Mutant of HoldsCurrent: updateIfNewer takes no row lock.
HoldsNoRow(c, r) == FALSE

\* Mutant of HoldsCurrent: the row lock outlives the transaction.
HoldsRowForever(c, r) ==
  pc[c] = "idle" /\ current[r] # None

\* c has upserted the current state of r and not yet committed; the row is
\* locked whether or not the WHERE clause let the update through.
HoldsCurrent(c, r) == pc[c] = "upserted" /\ request[c].robot = r

-----------------------------------------------------------------------------
(* The steps of a request *)

\* The transaction of c is over: its locks are released and it answers a.
Finish(c, a) ==
  /\ pc' = [pc EXCEPT ![c] = "idle"]
  /\ request' = [request EXCEPT ![c] = None]
  /\ id' = [id EXCEPT ![c] = None]
  /\ newer' = [newer EXCEPT ![c] = FALSE]
  /\ reply' = [request |-> request[c], answer |-> a]
  /\ UNCHANGED now

Active == {c \in Calls : pc[c] # "idle"}

\* The controller calls execute with a body the contract accepts (any other is
\* answered 400 and gets no further); receivedAt is read before the transaction.
\* The bound: no more requests than there are ids left for them.
Begin(c, r, s, o) ==
  /\ pc[c] = "idle"
  /\ Cardinality(outbox) + Cardinality(Active) < Cardinality(Ids)
  /\ pc' = [pc EXCEPT ![c] = "begun"]
  /\ request' = [request EXCEPT ![c] =
       [robot |-> r, source |-> s, observation |-> o, receivedAt |-> now]]
  /\ reply' = None
  /\ UNCHANGED <<now, db, id, newer>>

\* robots.exists is false: RobotNotFoundError.
RejectUnknownRobot(c) ==
  /\ pc[c] = "begun"
  /\ request[c].robot \notin SeededRobots
  /\ Finish(c, "notFound")
  /\ UNCHANGED db

\* The key is in history with other content: IdempotencyConflictError.
RejectConflict(c) ==
  /\ pc[c] = "begun"
  /\ request[c].robot \in SeededRobots
  /\ \E x \in FindByRobotIdAndSource(request[c]) : ~ObservationMatches(x, request[c])
  /\ Finish(c, "conflict")
  /\ UNCHANGED db

\* The key is in history with this content: the stored row is the answer.
Replay(c) ==
  /\ pc[c] = "begun"
  /\ request[c].robot \in SeededRobots
  /\ \E x \in FindByRobotIdAndSource(request[c]) : ObservationMatches(x, request[c])
  /\ Finish(c, "accepted")
  /\ UNCHANGED db

\* No history under the key: the row, its event and their ids are built.
FindNoHistory(c) ==
  /\ pc[c] = "begun"
  /\ request[c].robot \in SeededRobots
  /\ FindByRobotIdAndSource(request[c]) = {}
  /\ \E i \in Ids :
       /\ \A x \in outbox : x.id # i
       /\ \A d \in Calls : id[d] # i
       /\ id' = [id EXCEPT ![c] = i]
  /\ pc' = [pc EXCEPT ![c] = "absent"]
  /\ reply' = None
  /\ UNCHANGED <<now, db, request, newer>>

\* telemetry.append: waits while another call's insert of the key is open.
AppendTelemetry(c) ==
  /\ pc[c] = "absent"
  /\ FindByRobotIdAndSource(request[c]) = {}
  /\ \A d \in Calls \ {c} : ~HoldsKey(d, request[c])
  /\ pc' = [pc EXCEPT ![c] = "inserted"]
  /\ reply' = None
  /\ UNCHANGED <<now, db, request, id, newer>>

\* telemetry.append after another call committed the key: P2002, which no
\* layer translates, so the API answers 500 INTERNAL_ERROR.
FailUnique(c) ==
  /\ pc[c] = "absent"
  /\ FindByRobotIdAndSource(request[c]) # {}
  /\ Finish(c, "uniqueViolation")
  /\ UNCHANGED db

\* currentState.updateIfNewer: waits for the row, then compares with the
\* committed value it finds there.
UpdateIfNewer(c) ==
  /\ pc[c] = "inserted"
  /\ \A d \in Calls \ {c} : ~HoldsCurrent(d, request[c].robot)
  /\ newer' = [newer EXCEPT ![c] =
       StrictlyNewer(request[c].observation, current[request[c].robot])]
  /\ pc' = [pc EXCEPT ![c] = "upserted"]
  /\ reply' = None
  /\ UNCHANGED <<now, db, request, id>>

\* outbox.append, then COMMIT: everything the call wrote appears at once.
Commit(c) ==
  /\ pc[c] = "upserted"
  /\ telemetry' = telemetry \cup {RowOf(c)}
  /\ outbox' = outbox \cup {RowOf(c)}
  /\ current' = [current EXCEPT ![request[c].robot] =
       IF newer[c] THEN RowOf(c) ELSE @]
  /\ committedAt' = [committedAt EXCEPT ![id[c]] = now]
  /\ Finish(c, "accepted")

\* Mutant of Fail: history is written outside the transaction and survives.
FailKeepingHistory(c) ==
  /\ pc[c] # "idle"
  /\ telemetry' = IF pc[c] = "upserted" THEN telemetry \cup {RowOf(c)} ELSE telemetry
  /\ UNCHANGED <<current, outbox, committedAt>>
  /\ Finish(c, "failed")

\* A statement fails, the transaction times out or the process dies: ROLLBACK.
Fail(c) ==
  /\ pc[c] # "idle"
  /\ Finish(c, "failed")
  /\ UNCHANGED db

\* deleteTelemetryBefore: receivedAt < now - retention, strictly.
Expired(x, started) == x.receivedAt < started - TelemetryRetention

\* The retention worker's delete; its cutoff dates from the start of its cycle.
DeleteTelemetryBefore(started) ==
  /\ started <= now
  /\ \E x \in telemetry : Expired(x, started)
  /\ telemetry' = {x \in telemetry : ~Expired(x, started)}
  /\ reply' = None
  /\ UNCHANGED <<now, current, outbox, committedAt, call>>

\* Time passes, up to the bound MaxNow.
Tick ==
  /\ now < MaxNow
  /\ now' = now + 1
  /\ reply' = None
  /\ UNCHANGED <<db, call>>

-----------------------------------------------------------------------------

Init ==
  /\ now = 0
  /\ telemetry = {}
  /\ current = [r \in SeededRobots |-> None]
  /\ outbox = {}
  /\ committedAt = [i \in Ids |-> None]
  /\ pc = [c \in Calls |-> "idle"]
  /\ request = [c \in Calls |-> None]
  /\ id = [c \in Calls |-> None]
  /\ newer = [c \in Calls |-> FALSE]
  /\ reply = None

Step(c) ==
  \/ RejectUnknownRobot(c)
  \/ RejectConflict(c)
  \/ Replay(c)
  \/ FindNoHistory(c)
  \/ AppendTelemetry(c)
  \/ FailUnique(c)
  \/ UpdateIfNewer(c)
  \/ Commit(c)

Next ==
  \/ \E c \in Calls, r \in RobotIds, s \in SourceIds, o \in Observations :
       Begin(c, r, s, o)
  \/ \E c \in Calls : Step(c) \/ Fail(c)
  \/ \E t \in Times : DeleteTelemetryBefore(t)
  \/ Tick

Spec == Init /\ [][Next]_vars

\* A call that can take its next statement does; PostgreSQL grants a row lock
\* and an index entry to waiters in turn, hence strong fairness.
Fairness == \A c \in Calls : SF_vars(Step(c))

FairSpec == Spec /\ Fairness

-----------------------------------------------------------------------------
(* Properties *)

\* Every variable has its type: rows, requests and answers have their shape.
TypeOK ==
  /\ now \in Times
  /\ telemetry \subseteq Row
  /\ outbox \subseteq Row
  /\ current \in [SeededRobots -> Row \cup {None}]
  /\ committedAt \in [Ids -> Times \cup {None}]
  /\ pc \in [Calls -> {"idle", "begun", "absent", "inserted", "upserted"}]
  /\ request \in [Calls -> Request \cup {None}]
  /\ id \in [Calls -> Ids \cup {None}]
  /\ newer \in [Calls -> BOOLEAN]
  /\ reply \in Reply \cup {None}

\* IngestTelemetry.execute, by its unique index and its lookup: however calls
\* interleave, a source id is accepted again only after the first acceptance
\* has outlived its retention window; inside the window one source id means
\* one event.
AcceptedOncePerWindow ==
  \A x, y \in outbox :
    x # y /\ SameKey(x, y) =>
      \/ committedAt[y.id] > x.receivedAt + TelemetryRetention
      \/ committedAt[x.id] > y.receivedAt + TelemetryRetention

\* updateIfNewer: whatever order concurrent requests commit in, and whatever
\* retention has deleted since, a robot's current state is one of its accepted
\* samples and none of them is newer.
CurrentIsNewest ==
  /\ \A r \in SeededRobots : current[r] # None => current[r] \in outbox
  /\ \A x \in outbox :
       /\ current[x.robot] # None
       /\ RecordedAt[current[x.robot].observation] >= RecordedAt[x.observation]

\* updateIfNewer: the current state only ever moves to a strictly later
\* recordedAt; of two samples with equal timestamps the first committed stays.
CurrentNeverRegresses ==
  [][\A r \in SeededRobots :
       current'[r] # current[r] =>
         \/ current[r] = None
         \/ RecordedAt[current'[r].observation] > RecordedAt[current[r].observation]]_vars

\* The responses of the controller: 202 means that an event with exactly the
\* request's content is in the outbox; 409 and 500-for-uniqueness mean that the
\* source id was taken, 409 by other content.
AnswersAreTrue ==
  reply # None =>
    LET q == reply.request
        taken == {x \in outbox : SameKey(x, q)}
    IN  /\ reply.answer = "accepted" => \E x \in taken : x.observation = q.observation
        /\ reply.answer = "conflict" => \E x \in taken : x.observation # q.observation
        /\ reply.answer = "uniqueViolation" => taken # {}

\* No deadlock among the index entries and row locks: every request that began
\* is answered.
EveryRequestAnswered == \A c \in Calls : (pc[c] # "idle") ~> (pc[c] = "idle")

\* docs/adr/0007: "Same content -> 202 idempotent success".  A request whose
\* key is in retained history with its own content is not answered by an error
\* of the unique index.
SameContentIsAccepted ==
  reply # None /\ reply.answer = "uniqueViolation" =>
    \A x \in FindByRobotIdAndSource(reply.request) :
      x.observation # reply.request.observation

\* Concurrent ingest is serialisable: its committed tables change as if every
\* sample were accepted in one step.
Ledger == INSTANCE IngestLedger WITH Robots <- SeededRobots, Rows <- Row

ImplementsLedger == Ledger!Spec
===============================================================================
