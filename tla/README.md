# Verification of planetary-robotics-command

This directory holds TLA+ models of the program, the TLC runs that check them on small
instances, and TLAPS proofs of the properties that matter most. The reference is always the
source: each definition names, in `PROJECT.json` under `map`, the lines it stands for.

    cd tla
    tlc -workers 2 -config IngestTelemetry.cfg MCIngestTelemetry     # one run
    tlapm IngestTelemetryProofs.tla                                  # one set of proofs

Contents: [1 the system](#1-the-system), [2 the modules](#2-the-modules),
[3 the runs](#3-the-runs), [4 fairness](#4-fairness), [5 proofs](#5-proofs),
[6 divergences found](#6-divergences-found), [7 assumptions](#7-assumptions-and-what-is-left-out),
[8 plan](#8-plan).

## 1 The system

    robot-simulator --HTTP--> api ==one transaction==> PostgreSQL: telemetry, current state, outbox
                                                             |
                                                     outbox-publisher (claims, sends, marks)
                                                             |
                                             broker: RabbitMQ (prod) or Service Bus (dev)
                                                   |                            |
                                             health queue                realtime queue
                                                   |                            |
                                             health-worker             realtime-gateway
                                     inbox, health, alerts in PostgreSQL        | WebSocket
                                                                       Angular dashboard <--HTTP-- api
    retention-worker deletes old telemetry, published outbox rows and inbox rows

Every arrow can repeat or drop what it carries, every process can stop at any point and is
restarted by its container, and no two of them share anything but PostgreSQL rows and messages.

| Component (source) | State it keeps | Operations | What is hard | What makes it correct |
|---|---|---|---|---|
| Telemetry ingest (`libs/application/.../ingest-telemetry.ts`, Prisma repositories) | history, current state, outbox rows; per request: receivedAt, minted id, open transaction | look up the source id, insert history, upsert the state if newer, append the event, commit | concurrent requests with one source id or one robot; a failing statement; replays after retention | one event per source id and window; the state is the newest sample; the answer is true; the three writes are one |
| Outbox and outbox-publisher (`outbox-repository.ts`, `apps/outbox-publisher`) | row: publishedAt, claimedUntil, attempts, error; per process: claimed batch, channel | claim a batch, send, mark, record a failure, sleep | several processes, expiring claims, crash between send and mark, unconfirmed sends | no event lost, no row worked on twice within claims, published stays published, everything published in the end |
| RabbitMQ consumer (`libs/infrastructure/messaging/rabbitmq`) | work, retry and dead-letter queue of a role; delivery count in a header; per process: unsettled deliveries | deliver, run the handler, settle by ack, nack or retry copy + ack | crash between the two frames of a retry, requeue, count at its maximum | no message lost, dead letters only with cause, queues drain |
| Service Bus consumer (`.../azure-service-bus`) | peek-locked messages | deliver, complete, abandon, dead-letter | completion that fails after the handler committed | a failed settlement is a redelivery, not a loss |
| Health evaluation (`evaluate-robot-health.ts`, `apps/health-worker`) | inbox, health row per robot, alerts; per delivery: open transaction, levels read | insert the inbox marker, lock the robot, read the health row, classify, upsert, append alerts | duplicates, reordering, two first evaluations, inbox rows deleted by retention | alerts are exactly the transitions along recorded time; health is the newest; completed means processed |
| Retention worker (`apps/retention-worker`, `cleanup-retained-data.ts`) | cutoffs of the cycle | three deletes, interruptible sleep | deletes race everything above | nothing unpublished or still needed is deleted |
| Realtime gateway (`apps/realtime-gateway`) | open sockets | broadcast, settle, shut down | a client that throws or leaves while sending | each open client is tried; the message is settled |
| HTTP producer, simulation (`libs/infrastructure/http/telemetry-producer`, `libs/simulation`) | robots, timers, one sample in flight per robot | step, send with timeouts and retries, stop | lost responses, stop during a send | a retried sample is one event and never a conflict; one send of a robot at a time; a stop ends in an exit; no robot leaves its world |
| Dashboard live link and fleet state (`apps/dashboard-angular/.../features`) | snapshot, robots, selection, connection state, reconnect timer | connect, reconnect, merge snapshot and updates, select | callbacks of replaced sockets, slow snapshots | a robot never goes back in recordedAt; one socket, one timer; a link that is wanted comes up |
| Visualization (`.../visualization`) | interpolation buffers, who drives the camera, registry of objects, hover and selection | push and prune samples, fit, focus, follow, synchronise, destroy | samples out of order, effects before the scene is built or after it is destroyed, animation against user | the scene is the fleet; no robot moves back on the screen; the camera has one master |
| API reads and pagination | none (cursor in the client) | list pages by (time, id) | inserts and deletes between pages | no retained row is skipped or repeated |
| Schemas, error mapping, generated client, templates, meshes | none | stateless | | see section 7 |

`PROJECT.json` lists the files of each component, and under `hazards` everything in this code
that a test would hardly reach, at its line, with the properties that watch it.

## 2 The modules

| Module | Models | Composed with |
|---|---|---|
| `IngestTelemetry` | any number of requests in the ingest transaction, retention of history | refines `IngestLedger` |
| `IngestLedger` | what ingest promises: a sample is accepted, with state and event, in one step | |
| `HealthRules` | thresholds, classification, overall status, transition alerts (pure operators) | used by the next two |
| `HealthEvaluation` | any number of deliveries in the evaluation transaction, the inbox, its retention | refines `HealthLedger` |
| `HealthLedger` | what evaluation promises: an event is skipped or applied in one step | |
| `OutboxRelay` | publisher processes, claims, both broker adapters, crashes, retention of the outbox | reads the rows ingest commits (`Append`) |
| `RabbitDelivery` | queues and consumers of one role | delivers what the relay publishes (`Publish`), to a handler that may answer anything |
| `FleetLink` | the dashboard's WebSocket adapter, realtime and fleet facades and shell; the gateway, its clients and its broadcast; `GET /fleet` | receives what any ingest and any delivery may produce |
| `RobotPhysics` | one physics step of a robot (pure operators with a set of outcomes) | used by the next |
| `TelemetryUplink` | the simulator process: engine, physics tick, HTTP producer, shutdown; the API as its contract, its idempotency rule and its error mapping | produces what `IngestTelemetry` takes |
| `InterpolationBuffer` | samples of a robot and the pose at a moment (pure operators) | used by the next |
| `RobotWorld` | the 3D view: host component and effects, scene life cycle, objects, hover, selection, camera | shows the fleet `FleetLink` keeps, of which it assumes `NeverRegresses` |
| `ReadSide` | the three paginated lists and the retention worker | reads and empties the tables the other modules write |
| `...Proofs` (ingest, health, relay, queues, fleet link, uplink, robot world, read side) | theorems and proofs | extend their modules |
| `MC...` | values for TLC | |

The components meet at narrow interfaces, and each module leaves its neighbour as free as the
code does: the relay sees rows appear in any order, the queue may carry an event more than once, the
queue's handler gives any answer, and `HealthEvaluation` receives any event at any time, again and
again. What is shown of one component therefore mostly does not lean on the good behaviour of another. Two exceptions: `FleetLink` takes it that every event
reaches the gateway in the end, once or more often (finding 2 of section 6 is that RabbitMQ may lose one; `ReloadCatchesUp` then speaks of what did arrive), and
`RobotWorld` shows a fleet that obeys `NeverRegresses` of `FleetLink`.

### Ingest

A request is a call `c` with a program counter `pc[c]`, whose labels are the statements of
`IngestTelemetry.execute`: `begun` (receivedAt taken, transaction open), `absent` (no history under the key,
ids minted), `inserted` (row in the unique index), `upserted` (current state written or found newer), then
`Commit`. Each action is one statement, together with the branch the code takes on its answer.
Reads see committed tables (READ COMMITTED); what a call has written is not in the tables until `Commit`, so
`Fail`, which may strike at every statement, only releases locks. Two locks matter: the entry of the unique index
(`HoldsKey`) and the row of `RobotCurrentState` (`HoldsCurrent`), which `INSERT ... ON CONFLICT`
takes even when its WHERE clause refuses the update. `outbox.append` and COMMIT are one action because nothing
can be observed between them: a failure of either is `Fail`.

`telemetry`, `current` and `outbox` hold one kind of row; the outbox is never emptied here, so it is also the
record of everything that was ever accepted.

### Health

The same way, for the handler of the health worker. `TryBeginProcessing` inserts the inbox marker and waits
for another open insert of the same event; `Duplicate` is its unique violation (the failed insert aborts the
PostgreSQL transaction, the code returns without another statement and its COMMIT acts as a rollback; the
message is completed). A marker's `processedAt` is the time of its insert, so any time up to the commit that makes it visible. `LockById` takes the Robot row, `FindForUpdate` reads the health row and
decides by the chronology gate, `Write` is `updateIfNewer` followed by the alerts. Settlement is recorded in `settled`
for the step that decides it: as the handler answered, or, when `completeMessage` or `deadLetterMessage` of Service Bus fails and the catch clause abandons
the message, as `abandon` although the handler may have committed. `AlertsAreTheTransitions` is the strong property here: the alert table, with
multiplicities, is a function of the applied evaluations in recorded order.

### Outbox relay

Timestamps appear as remaining time (`lease`, `left`), which keeps the states finite without a bound on the clock.
`lease[e]` is the row's claim, `left[p]` what publisher `p`'s own clock would say of it; the code never compares
the two, and the properties do. A publisher walks through its batch in `createdAt` order: `working`, then
`sent` or `threw`, then the record of the outcome. Row order is the order of `createdAt` (the receivedAt read
before the ingest transaction); `Append` commits rows in any order. `BrokerConfirms` selects the adapter. With RabbitMQ, `publish`
returns when the message is in the buffer of the socket; `Flush` gets it to the broker, `Crash` and
`CloseChannel` lose it. A connection that breaks emits an error nobody listens to, which ends the process,
so it is a `Crash`; an orderly close by the broker emits none and leaves a dead channel in the adapter's cache.

A call that throws may have taken effect all the same, and the code cannot tell: the broker may have stored the message (`SendFails`), and each statement may be committed with only
its answer lost. Then `ClaimLost` claims rows that nobody works on until the claim expires; after `MarkFails` the publisher takes a published row for unpublished and records a failure on it (harmless, since
`recordPublishFailure` leaves `publishedAt` alone); after `RecordFails` the row is free though the batch is dropped. So `ClaimHeld` has an exception, `PublishedUnawares`: the row at hand may be published
already, by the publisher's own statement. It still says that nobody *else* settles a row within its claim.

### RabbitMQ delivery

A message is a copy of an event, at a place (work queue, held by a consumer, retry queue, dead-letter queue) with a
delivery count. A settlement writes frames to the consumer's socket (`Frames`: for a retry, the new copy and then the
acknowledgement); frames of one channel arrive in order, one per step, and `Crash` drops those not yet received and requeues what
was held. `planSettlement` is translated as it stands, count at the maximum included. Copies are interchangeable, so
a new one takes the name `NextFree`.

### Fleet link

One dashboard and what feeds it. A robot's current state is known by its `recordedAt`, with 0 for null. Each callback of the browser is one
action, as nothing interrupts it: `SocketOpens`, `MessageArrives`, `SocketCloses`, `TimerFires`, `ApplySnapshot` and `FailLoad` for the
responses, and `Mount` and `Destroy` for the shell that owns the facades. The shell's own load and the reload after a
reconnect are two requests that may be under way together (`load`, `answer`); a new reload cancels the one before it (`switchMap`), a response
is made of two reads (`ServeRobots`, `ServeStates`), because `findMany` selects a relation in a statement of its own. A socket has a phase of its
own, seen from the gateway (`accepted`) before the browser sees it (`open`), so messages may wait in it before `onopen`; one that is
being closed stays around without callbacks. The gateway's queue (`stream`) is a set: any order, and an
event may come again. What the gateway sends to a socket that goes away is lost. A client that cannot be sent to
is dropped (`Drop`; its browser is told later), the others get the message; `GatewayRestarts` drops all clients at once.

`synced` is a history variable: the reload asked for when the present socket opened has been applied. The delay
and the attempt counter of the reconnect, the `realtime.ready` message, malformed messages, which are ignored, and `loadedAt` are left out, and so are
the signals for loading and errors, which change a text only.

### Simulator and uplink

`TelemetryUplink` is a robot in its process. `OnTick` is the physics timer, `EmitTelemetryOnce` the telemetry timer up to the first
`fetch`, with the backpressure of `inFlight`; `Receive`, `NetworkFailure`, `AbortFetch` and `WakeUp` are the continuations of `send()`; `Shutdown` is the signal
handler up to its `await`, `Exit` what follows it. A request in `wire` may be handled after its attempt was given up, or never: a `Hangup`
leaves it or takes it away. So a sample may be stored although its producer saw a failure, and stored by an earlier attempt than the one that is answered.
The API is `Status`: contract, unknown robot, idempotent repetition or conflict, and "500" whenever the transaction fails; that these answers are what
concurrent requests get is the business of `IngestTelemetry`. The robots share nothing but the generator, whose draws are choices, so one robot of any type stands for the fleet.

`RobotPhysics` follows `physics.ts` statement by statement over coarse integers: lengths in the maximum norm, bearings rounded to the eight winds,
controllers with a gain of one. A step has a set of outcomes, one for each thing the generator may draw. Its properties are therefore about order and
limits (clamps, walls, drained batteries, turns), not about trigonometry.

### Robot world

A callback of the browser runs to completion, so each is one action, and each method of `ThreeRobotWorld` an operator from the world's record to the world's
record. Angular runs the host's effects some time after the signals change (`dirty`), and `Boot` builds the scene after the first rendering, so fleet,
selection, clicks and sizes reach the world in every order, with and without a scene. A robot is *listed* when `FleetFacade.robots()` has it, and *known* when it is listed with a current state. A listed robot without one
can be selected, in the page or by an alert, but has no object in the scene (`mapFleetToWorldRobots` filters it), so a selection may wait for its robot to come into view. What the facade may show next of a robot is what `FleetLink` shows of it. The camera is what it was last told to look at
(`view`) and who drives it (`active`: an animation, `followed`: a robot).
The pointer meets what was last put into the pick list (`drawn`); a label lets go of the hover only if its own robot has it. A click on a robot, by body or label, selects and
focuses it, and a click on the selected one opens or closes the inspection drawer (`drawer`), which an alert and Escape change too.

The buffer is an array in ascending order without equal times, hence a set. A pose is the two samples it lies between and the moment; `seen` is a history
variable, the samples the buffer has accepted, against which pruning is judged. `PairKept` says when pruning is harmless: no gap in the samples is longer than what
`MAX_AGE_MS` leaves beyond the delay, and fewer than `MAX_SAMPLES` of them fall into one delay (`Regular`). Without the second condition the limit on the number of samples can take the one the frame needs.

### Read side and retention

A client walks through a list page by page. A page is one statement; between two pages the client holds nothing but the cursor, the key of the last row *by value*, and rows are added (late
timestamps included, and with any `receivedAt` up to now, as it is read before the transaction) and expire. `ListRobotTelemetry` looks for the robot in a statement of its own (`CheckRobot`). The retention worker runs
its three deletes one after the other with the cutoff of the cycle's start; a failure skips the rest of the cycle, a stop is seen at the end of it or ends the pause.
`kept` and `ever` are history variables, the rows that were there all along the walk and at some time of it. `KeyAssumption` is the primary keys: two rows of a list
have different ids. It is what makes the order of a list total, and so the cursor enough.

## 3 The runs

| Run | Question | Bounds |
|---|---|---|
| `ingest` | all safety properties of ingest, its refinement and its progress | 2 requests at a time, 2 ids, 2 source ids, 1 known and 1 unknown robot, 3 samples of which 2 share a timestamp, clock 0..2 |
| `ingest_retry` | what a retry that overlaps its original is answered (violation) | 1 robot, clock 0 |
| `health` | all properties of evaluation, its refinement, and that every delivery is settled | 2 handlers, 1 robot, 3 events of which 2 share a timestamp and a malformed one, clock 0..2 |
| `outbox_service_bus` | loss, claims, finality and eventual publication on Service Bus | 2 publishers, 2 rows, batch of 2, claim and retention of 1 tick |
| `outbox_rabbit` | where RabbitMQ can lose events, and nowhere else | as above; states are told apart by a view without `error` and `overrun`, which no action reads and the property does not mention |
| `outbox_rabbit_loss` | at-least-once on RabbitMQ (violation) | 1 publisher, 1 row |
| `outbox_rabbit_stuck` | eventual publication on RabbitMQ (violation) | 1 publisher, 1 row |
| `rabbit_delivery` | loss, dead letters and draining of one role's queues | 2 consumers, prefetch 2, 1 good and 1 unparsable event, 3 deliveries, 4 copies, 1 crash |
| `fleet_link` | one link, no regress, nothing missed after a reload, the link comes up | 2 mounts of the shell, 2 sockets alive, 1 robot with samples and 1 added later, 1 message in a socket |
| `uplink` | what is sent is lawful, never refused, stored as captured; one send at a time; a stop ends | a drone, miner or worker on a map of 5 by 3, 2 ticks, 2 samples, 2 attempts |
| `robot_world` | the scene is the fleet and the selection, no robot moves back, pruning, the camera | a robot with 5 samples and one with 1 state that may lack a position, each unlisted, listed or known; buffer of 3 samples or an age of 3, delay of 2, clock 1..5, but 1..2 once the second robot is listed; two sizes of the canvas |
| `read_side` | walks are complete under inserts and deletes; retention catches up | 7 rows of which 5 are there from the start, 6 queries, retention 0, clock 0..1 |

Why these bounds are enough to be of interest:

* *Clock 0..2 with a retention of one tick*: the code deletes rows *strictly* older than the cutoff,
  so tick 2 is the first at which a row of tick 0 goes, and a replay of it is accepted again. The cutoff is taken at the start of a cycle
  and used later, so `DeleteTelemetryBefore` and `DeleteProcessedBefore` choose any earlier start.
* *Two requests, two handlers, two publishers*: each lock has a holder and a waiter. A third waiter changes only
  who is next; the proofs cover every number.
* *Two timestamps, of which one is shared*: the gates compare `<=`, `<` and `>`; equality and both orders occur, with a third sample before, between or after the two. The readings of `MCHealthEvaluation` sit on and next to the thresholds, and
  one dimension gets worse while another gets better.
* *A claim of one tick*: a claim is live or past. Overrun, takeover by the second publisher, and the late
  outcome of the first on a row the second has claimed or published all occur (`overrun` marks them).
* *Three deliveries*: a first, a middle and a last one, with a crash between the two frames of a retry, which duplicates the message.
  `Copies` bounds the messages on the broker; a retry waits when no name is free, and `QueuesDrain` shows it never
  waits for good. `MaxCrashes` is 1 because each crash only repeats a delivery; `MaxPublishes` is 1
  because a second copy already arises from a crash.
* *Two sockets, two mounts, two samples*: a socket being closed beside its successor, a reconnect and a second mount, a snapshot before, between and after the
  two samples. The robot that is added later has no samples, so that snapshots differ in the robots they list; messages for a robot
  not listed yet occur with the first one. Free sockets are interchangeable, so `OpenSocket` takes a fixed one. One message in a socket is enough for
  one that waits while a snapshot is applied; `Broadcast` waits for room.
* *Two ticks of 1 or 3, two samples, two attempts*: a stall beyond `MAX_DELTA_SECONDS`, a battery that runs empty, a wall one step away, and a target reached all occur in two ticks; a sample
  taken after the robot moved differs from the one before it; a first attempt may be answered, lost, late, or handled after the second.
* *A buffer of three samples, ages up to 3 and a delay of 2*: pruning by age and pruning by number both bite, the frame lies before, on, between and behind the samples, which come with and without gaps.
* *Two robots only while the clock is at 1 or 2* (the state constraint `Scene`): what robots do to each other (one is hovered, selected, followed or gone while the other is not, a selection of a robot that is
  listed but not known yet) needs no long time, and the path of an object depends on no other object, so beyond that only runs in which the second robot has not come are followed. The proofs need no such bound.
  A robot without a position comes into view later than its object, and a fleet arrives before and after `Boot`.
* *Equal timestamps, a late row, pages of one and two rows*: the cursor of a row that has been deleted, ties on it, and a row that is committed with an earlier timestamp than the cursor
  all occur; the queries include an unknown robot, an inverted range and a foreign cursor. Retention 0 deletes what is one tick old.

`CHECK_DEADLOCK FALSE` is set where the bounds make the system stop: ids used up, clock at its end, every message settled, the process or the scene gone.
Each property of a passing run has a mutant in `PROJECT.json`: an edit of one definition, such as a dropped lock, a `<=` for `<` or swapped frames,
under which TLC finds the property violated.

## 4 Fairness

* Requests and handlers: strong fairness of the next statement of each. PostgreSQL queues waiters on a row or
  an index entry, so a waiter is not overtaken for ever, though a statement is enabled and disabled by others in between.
  `Fail` and `Abandon` have none: nothing is assumed to fail.
* Relay: the loop and the container restart go on (weak fairness); a claim, a send and a mark that are possible over and over
  succeed at some point (strong fairness), since crashes, failing calls and rows skipped as locked come and go. Without
  that assumption nothing could be promised, as the database might be away for ever.
* Queues: consumers take, handle and settle deliveries, TTLs expire, containers restart. The *answer* of the handler is left open, so
  a handler that always abandons is among the behaviours in which the queues drain.
* Fleet link: a closing socket goes away (weak fairness); of attempts to create, accept and open the wanted socket that are made again and
  again, one succeeds (strong fairness), without which a network that is down for good would refute any such property. The code's part is that it goes on trying.
* Uplink: a send that can go on does (timers fire, and a `fetch` ends, as Node's has timeouts of its own), and a promise that is settled resumes who awaits it (weak fairness).
  No fairness for the API: it may stay silent, and the attempts run out.
* Read side: the retention worker goes on (weak fairness), and a delete that is tried again and again succeeds at some point (strong fairness), since a database that fails for ever lets nothing be deleted.

The liveness finding on RabbitMQ uses the same assumptions as the passing run on Service Bus.

## 5 Proofs

All theorems hold for every value of the constants under the named assumptions of the modules (`IngestAssumption`, `NoneAssumption`, `HealthAssumption`,
`OutboxAssumption`, `RabbitAssumption`, `FleetAssumption` of `FleetLink` and of `TelemetryUplink`, `UplinkAssumption`, `WorldAssumption` of `RobotPhysics` and of `RobotWorld`, `ProfileAssumption`, `BufferAssumption`,
`ReadSideAssumption`, `KeyAssumption`), which TLC evaluates in the runs. They say that sets are what they seem, that `None` is none of their members and that limits are numbers; none bounds the number of robots, events, processes, sockets or samples (the rows of `ReadSide` are finitely many, as in any table).
The world's walls enclose something, and the simulated fleet is of seeded robots that start inside them (`DEFAULT_FLEET` of `fleet.ts` repeats the ten robots of `seed.ts`, which it does not import).

**`IngestTelemetryProofs`**: `TypeCorrect`, `IngestOnce` (`AcceptedOncePerWindow`), `CurrentNewest` (`CurrentIsNewest`), `CurrentMovesForward` (`CurrentNeverRegresses`),
`AnswersTrue` (`AnswersAreTrue`) and `Refinement` (`Spec => Ledger!Spec`): every safety property of ingest. None of the properties is inductive: each depends on what open transactions hold.
`IInv` adds

* `CallInv`: what a call at a label has (a minted id, a known robot, a receivedAt not in the future);
* `IdInv`: ids of the outbox and of open calls are all different, and accepted rows have a commit time;
* `KeyInv`: two open inserts never have the same key, and while an insert is open no retained row has its key. That the lookup
  found nothing earlier is worth nothing; that the *index entry* is held is what carries `AcceptedOncePerWindow`;
* `GateInv`: a call that has upserted the current state still knows whether it wins, because the row lock keeps
  the committed state as it was compared.

Each has a lemma per action. `Refinement` maps `Commit` to `Accept`, `DeleteTelemetryBefore` to `Forget` and every other step to a stutter.

**`HealthEvaluationProofs`**: `TypeCorrect`, `HealthNewest`, `CompletedProcessed`, `AlertsAreTransitions`, `OneAlertPerStretch` and `Refinement`. `InboxInv`: no two open transactions own one event,
and an owned event has no committed marker. `RobotInv`: no two have the row of one robot. `GateInv`: while a transaction has it, the health row is as it was read, levels included, so the
evaluation that commits is newer than every event seen of its robot. `RecordInv` ties a health row to the event it comes from. So the evaluations of a robot are applied in recorded
order, and `AlertsAreTheTransitions` is kept by each `Commit`; `OneAlertPerStretch` is a consequence of it and not of the steps.

**`OutboxRelayProofs`**: `TypeCorrect`; `OnlyBuffersLeak` (`LostOnlyUnflushed`) and, under `BrokerConfirms`, `NothingLostWhenConfirmed`
(`NoEventLost`) from `EventInv`, which adds that a publisher that says `sent` has its row at the broker or in a buffer; `ClaimsHold` (`ClaimHeld`) and
`ClaimsExclude` (`ClaimExclusive`) from `ClaimInv`: the two must be proved together, since a row can only be claimed a second time
when its lease is over, which `ClaimHeld` ties to the first publisher's own clock. A publisher that has published its row unawares (`UnawareStep`) needs nothing of the lease: a published row
is claimable no more, so what others claim is no row of its batch (`ClaimableIsFree`), and what it settles is no row of theirs (`OthersUnharmed`); `PublishedStaysPublished` (`PublishedIsFinal`).

**`RabbitDeliveryProofs`**: `TypeCorrect`, `NothingLost` (`NoMessageLost`) and `NoEarlyDeadLetter` (`DeadLetterJustified`). `FrameInv`: the frames under way in a channel are about messages its
consumer holds and has handled, and two about one message are its retry and then its acknowledgement. `LossInv`: an event not completed has a copy that no frame on
its way is about to remove without leaving another. `CountInv`: a copy's count is never ahead of the attempts made, the frames' counts included.

**`FleetLinkProofs`**: `TypeCorrect`, `ShownLatest` (`ShownIsLatest`), `LinkIsOne` (`OneLink`), `StateNeverRegresses` (`NeverRegresses`) and `ReloadMissesNothing` (`ReloadCatchesUp`). `LinkInv`: only the current socket is
listened to, a wanted link has a socket or a timer, `CONNECTED` is an open socket. `BoundInv`: nothing under way is newer than `current`. `CatchInv`: while the gateway has the socket, what the reload's answer lacks of a robot's newest state is
already shown, waiting in the socket or still in the queue.

**`TelemetryUplinkProofs`**: `TypeCorrect`, which holds the robot inside its world and on its scales, `OneSend` (`OneSendAtATime`), `SamplesAccepted` (`NeverRefused`), `SamplesStored`
(`StoredAsCaptured`) and `MotionKeepsTheLaws` (`MotionIsLawful`). `TickLawful` goes through `tickRobot` operator by operator: each keeps the robot typed, and only after the last (`enforceBounds`) and the clamps of battery and signal
is it lawful, wherever the move has brought it. `FlightInv`: the one unsettled send is the one `inFlight` stands for. `StoreInv`: every request on its way carries the sample of its number, within the contract,
so that the row of a source id, if there is one, is the very body that arrives; hence no 400, 404 or 409, and a 202 not yet read is true.

`MotionIsLawful` is put together from what each statement of a step keeps (`PhaseKeeps`, `SteerKeeps`, `MoveKeeps`, `BoundsKeep`, `BatteryDrains`, `SignalKeeps`). It needs that the robot was *inside* its world: from there a bounce
ends no further away than the move would have (`BounceNear`), and a robot that halts is not moved by `enforceBounds`. `TurnsToward` is the law of `approachHeading`, with turns across north and a limit that may be more than half a turn.

**`RobotWorldProofs`**: `SceneIsTheHosts` (`SceneMatchesHost`), `PosesAreKept` (`PairKept`), `NeverBack` (`RenderedNeverGoesBack`) and `CameraStaysTheUsers` (`CameraIsTheUsers`): all properties of the module. The invariant has four parts.

* `HostInv`: what is selected is listed, a scene that no fleet effect is owed to shows the robots that are known, and a pending fleet is not newer than the facade's. The last is needed because `Boot` synchronises twice, with what was pending and with what is shown now,
  and a buffer refuses what is older than its newest sample: were the pending fleet newer, the scene would keep showing it.
* `Looks`: the flags of the objects are those of the world, also for an object that is created while it is hovered or selected.
* `Camera`: one master; and a fit belongs to a scene that was framed once (`hasFit => fitted`), which is why a later synchronisation does not frame it again.
* `Kept`, for each object: its buffer ends with the newest sample it has seen and has no holes before it (`Suffix`), reaches back over the delay if the samples are regular (`Reaches`), and its pose is not ahead of what a frame would draw now.
  The last part is what `RenderedNeverGoesBack` rests on: neither property can be had from the buffer alone, as time passes between two frames while samples come and go.

`SamePose` is the lemma behind `PairKept`: a buffer that reaches back to a sample not after the moment shows what all samples together show.

**`ReadSideProofs`**: `WalksAreComplete` (`WalkIsComplete`), without induction over the rows: what there are first and last rows of is shown by taking a smallest of finitely many finite sets (`SmallestSet`).
`OrderIsTotal` and `OrderIsTransitive` are where the primary key at the end of `orderBy` comes in; `PageLaws` says what `take` returns (a beginning of the list, no longer than the limit, all of it if there is no more).
In `WalkOK`, the cursor of a walk is the *key* of a row `m` that was listed and may be gone by now; all rows listed are up to `m`, and all that is owed (rows there all along and not listed yet) comes after it (`Reached`).
An insert does not change what is owed (`WalkSurvivesInsert`), a delete only lessens it (`WalkSurvivesDelete`), and a page moves `m` on to its own last row (`PagedOn`). That a walk under way is not refused needs that its robot
stays known, as retention deletes no robots.

Model-checked only, because liveness is out of the prover's reach: `EveryRequestAnswered`, `EveryDeliverySettles`, `EventualPublication`, `QueuesDrain`, `LinkComesUp`, `ShutdownCompletes`
and `RetentionCatchesUp`. Every other property of a passing run is a theorem.

## 6 Divergences found

Each is a run that TLC must find violated, with the text it contradicts in `PROJECT.json` under `findings`.

1. `ingest_retry`: a retry that looks its source id up before the original commits is answered 500 (unique violation), where ADR 0007 says 202.
2. `outbox_rabbit_loss`: the RabbitMQ adapter does not wait for a publisher confirm, so a row is marked as published and its event
   lost with the socket buffer; the architecture document promises at-least-once.
3. `outbox_rabbit_stuck`: the adapter's cached channel is never replaced after an orderly close by the broker, so nothing is published until a restart;
   ADR 0008 promises durable eventual publication.

## 7 Assumptions and what is left out

* ULIDs do not collide. All processes read one clock (`now`); clock skew is not modelled.
* PostgreSQL gives what READ COMMITTED, its unique indexes and row locks promise. The foreign key of history on `Robot` makes an
  ingest insert take a share lock on the Robot row, which conflicts with `lockById`'s `FOR UPDATE`, so each may wait for the other. No cycle arises, and the wait is left out: health holds nothing ingest ever waits
  for when it waits there (only its own inbox entry), and once it has the Robot row it waits for nothing ingest holds.
* A statement whose call threw has taken effect by then or never does: none is committed after the process has acted on its failure.
* A body the contract rejects is answered 400 before the use case runs; the check of `schemaVersion` inside it cannot fail then.
* RabbitMQ keeps stored messages through its own restarts (durable queues, persistent messages) and delivers frames of a channel in order.
* The dashboard reconciles after a *re*connect only (ADR 0022 says so): a sample that falls between the read of the first snapshot and the opening of the first socket is
  shown when the robot's next sample arrives. `ReloadCatchesUp` is therefore stated for a connection whose reload was applied, and for robots that every
  snapshot lists: a first snapshot that is answered after a reload drops a robot added in between, until the next load.
* Clocks do not go back: `Date.now()` in the browser and in the processes only grows.
* `FleetLink` has one dashboard with several sockets; other clients of the gateway matter to it only through `Drop`. Malformed events, which the gateway
  dead-letters, and the order of its shutdown steps are not in it.
* `RabbitDelivery`: a connection goes down with its process. A consumer that is idle on a channel the broker closed in an orderly way (the one hazard without a property), and the order of shutdown
  steps, are not in it. That a delivery requeued by a crash keeps its count, so that a handler may run more often than the maximum, is in the model but no run is about it.
* Physics is discrete (section 2); temperature and the smoothing of the noise, which no decision reads, are left out. What is shown of walls, clamps and turns holds of the order of the
  statements, not of floating-point rounding.
* The arithmetic of camera, poses and picking, meshes and the text of labels are left out of `RobotWorld`.
* Contents are abstract: a sample is a value with a timestamp, an alert its event, dimension and severity. Alert texts and logging are left out.
* Not modelled, because there is no state to check: the generated API client, meshes and materials, templates and formatting, `GET /robots/:id` and the health endpoint (single reads),
  `AlertsFacade` (one load), OpenAPI schemas other than the ranges of a telemetry request, column mappers and the seed. Deployment appears only through its restart policy and delivery limits.

Hazards that are covered in part: the window of a source id is counted from `receivedAt`, so it may be over sooner after a slow commit than its length says; a message
that RabbitMQ has although `publish` threw is judged in `HealthEvaluation`, where duplicates arrive; and the thresholds themselves are translated (`Classify` is in the model, its ledger and the properties), so no property would notice a wrong one: that is for unit tests.

## 8 Plan

Done, in this order: ingest and its ledger, health and its ledger, the relay, one role's queues, the fleet link with the gateway's clients, the simulator with its uplink, the 3D view, the
read side and retention; the proofs of ingest, health, relay, queues, fleet link, uplink with its physics, 3D view and read side.

Left, by importance:

* `TelemetryPipeline`, which composes relay, queue, health and gateway and is checked for the end-to-end statement: every accepted sample is reflected in health and was
  offered to each client connected throughout. Its parts are proved against neighbours that may do anything, so it would mostly show that their assumptions fit.
* The idle consumer on a dead channel, and the shutdown order of gateway and workers, in `RabbitDelivery`.
