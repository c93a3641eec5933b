------------------------------- MODULE ReadSide -------------------------------
(***************************************************************************)
(* The API's lists (GET /robots, /robots/:id/telemetry, /alerts) and the   *)
(* retention worker that deletes rows under them.  A client walks a list   *)
(* page by page; a page is one statement, and the cursor between two pages *)
(* is the key of the last row, by value.  Meanwhile rows are added, old    *)
(* ones with late timestamps too, and the worker deletes what has expired, *)
(* one table after the other.                                              *)
(*                                                                         *)
(* A row is its list, its id, the timestamp its list is ordered by (0 for  *)
(* robots) and what it is filtered by: the robot of a sample or an alert,  *)
(* the type of a robot.  The receivedAt retention goes by is beside it.    *)
(* The other two tables the worker empties belong to the outbox and to     *)
(* the inbox of the health-worker; here their deletes only take their turn. *)
(***************************************************************************)
EXTENDS Integers, Sequences, FiniteSets

CONSTANTS
  Rows,        \* rows there may be
  FirstRows,   \* those there from the start
  Queries,     \* what a client asks for
  Retention,   \* telemetryRetentionMs
  MaxNow,      \* bound on the clock
  None

Deletes == {"telemetry", "processed", "outbox"}

Row == [list : {"robots", "alerts", "telemetry"}, id : Int, at : Int, of : Int]

\* The query parameters the controller has parsed; None stands for a filter
\* that is not given.
Query == [list : {"robots", "alerts", "telemetry"}, of : Int \cup {None},
          from : Int, to : Int, order : {"asc", "desc"}, limit : Nat \ {0}]

\* The key of a row, which only its own list can decode.
Cursor == [list : {"robots"}, id : Int]
          \cup [list : {"telemetry", "alerts"}, at : Int, id : Int]

ASSUME ReadSideAssumption ==
  /\ Rows \subseteq Row /\ IsFiniteSet(Rows)
  /\ FirstRows \subseteq Rows
  /\ Queries \subseteq Query
  /\ Retention \in Nat /\ MaxNow \in Nat
  /\ None \notin Int \cup Cursor

\* The primary keys of the tables.
ASSUME KeyAssumption == \A x, y \in Rows : x.list = y.list /\ x.id = y.id => x = y

VARIABLES now,      \* the clock
          table,    \* the rows there are
          receivedAt,   \* row -> when its request came in, None before its commit
          walk,     \* a client's walk through a list
          kept,     \* history variable: rows that were there all along the walk
          ever,     \* history variable: rows that were there at some time of it
          worker    \* the retention worker: where it is, the time its cycle
                    \* began, whether it is stopping

database == <<table, receivedAt>>
history == <<kept, ever>>
vars == <<now, database, walk, history, worker>>

-----------------------------------------------------------------------------
(* The repositories *)

Precedes(x, y) == x.at < y.at \/ (x.at = y.at /\ x.id < y.id)

\* orderBy of findAll, list and findByRobotId
Before(q, x, y) ==
  \/ q.list = "robots" /\ x.id < y.id
  \/ q.list = "telemetry" /\ q.order = "asc" /\ Precedes(x, y)
  \/ q.list = "telemetry" /\ q.order = "desc" /\ Precedes(y, x)
  \/ q.list = "alerts" /\ Precedes(y, x)

\* Mutant of After: the cursor is compared by its timestamp alone.
AfterInTime(q, cursor, row) ==
  cursor = None \/ (IF q.order = "asc" THEN cursor.at < row.at ELSE row.at < cursor.at)

\* where's AND: behind the cursor, by timestamp and then by id.
After(q, cursor, row) == cursor = None \/ Before(q, cursor, row)

\* robots.findAll, the rows its where lets through
FindAll(q, cursor) ==
  {row \in table : row.list = "robots" /\ q.of \in {None, row.of}
                  /\ (cursor = None \/ cursor.id < row.id)}

\* alerts.list
List(q, cursor) ==
  {row \in table : row.list = "alerts" /\ q.of \in {None, row.of} /\ After(q, cursor, row)}

\* telemetry.findByRobotId
FindByRobotId(q, cursor) ==
  {row \in table : row.list = "telemetry" /\ row.of = q.of
                  /\ q.from <= row.at /\ row.at <= q.to /\ After(q, cursor, row)}

\* robots.exists
Exists(id) == \E row \in table : row.list = "robots" /\ row.id = id

\* orderBy and take: the rows before which there are fewer than n.
Take(q, rows, n) == {row \in rows : Cardinality({x \in rows : Before(q, x, row)}) < n}

Last(q, page) == CHOOSE row \in page : \A x \in page : x = row \/ Before(q, x, row)

\* One row more than the page shows that there is another page.
HasMore(q, rows) == Cardinality(Take(q, rows, q.limit + 1)) > q.limit

-----------------------------------------------------------------------------
(* The cursors *)

RobotCursor(row) == [list |-> "robots", id |-> row.id]

TelemetryCursor(row) == [list |-> "telemetry", at |-> row.at, id |-> row.id]

AlertCursor(row) == [list |-> "alerts", at |-> row.at, id |-> row.id]

Decodes(q, cursor) == cursor = None \/ cursor.list = q.list

-----------------------------------------------------------------------------
(* The use cases *)

\* ApplicationError: the walk ends with its code.
Refuse(code) == walk' = [walk EXCEPT !.stage = "refused", !.error = code]

\* The page of the rows found, and the cursor of its last one if there are more;
\* cursors are what each row would give.
Page(found, cursors) ==
  LET q == walk.query
      page == Take(q, found, q.limit)
  IN walk' = [walk EXCEPT
       !.pages = Append(@, page),
       !.stage = IF HasMore(q, found) THEN "between" ELSE "done",
       !.cursor = IF HasMore(q, found) THEN cursors[Last(q, page)] ELSE None]

ListRobots ==
  /\ walk.stage = "reading" /\ walk.query.list = "robots"
  /\ IF Decodes(walk.query, walk.cursor)
     THEN Page(FindAll(walk.query, walk.cursor),
               [row \in table |-> RobotCursor(row)])
     ELSE Refuse("INVALID_CURSOR")
  /\ UNCHANGED <<now, database, history, worker>>

ListAlerts ==
  /\ walk.stage = "reading" /\ walk.query.list = "alerts"
  /\ IF Decodes(walk.query, walk.cursor)
     THEN Page(List(walk.query, walk.cursor),
               [row \in table |-> AlertCursor(row)])
     ELSE Refuse("INVALID_CURSOR")
  /\ UNCHANGED <<now, database, history, worker>>

\* ListRobotTelemetry looks for the robot in a statement of its own, and only
\* then at the range.
CheckRobot ==
  /\ walk.stage = "checking"
  /\ \/ ~Exists(walk.query.of) /\ Refuse("ROBOT_NOT_FOUND")
     \/ /\ Exists(walk.query.of) /\ walk.query.from > walk.query.to
        /\ Refuse("INVALID_TIME_RANGE")
     \/ /\ Exists(walk.query.of) /\ walk.query.from <= walk.query.to
        /\ walk' = [walk EXCEPT !.stage = "reading"]
  /\ UNCHANGED <<now, database, history, worker>>

ListRobotTelemetry ==
  /\ walk.stage = "reading" /\ walk.query.list = "telemetry"
  /\ IF Decodes(walk.query, walk.cursor)
     THEN Page(FindByRobotId(walk.query, walk.cursor),
               [row \in table |-> TelemetryCursor(row)])
     ELSE Refuse("INVALID_CURSOR")
  /\ UNCHANGED <<now, database, history, worker>>

-----------------------------------------------------------------------------
(* The client and the controller *)

\* GET /robots
GetRobots(q, cursor, pages) ==
  /\ q.list = "robots"
  /\ walk' = [walk EXCEPT !.stage = "reading", !.query = q, !.cursor = cursor,
                         !.pages = pages, !.error = None]

\* GET /alerts
GetAlerts(q, cursor, pages) ==
  /\ q.list = "alerts"
  /\ walk' = [walk EXCEPT !.stage = "reading", !.query = q, !.cursor = cursor,
                         !.pages = pages, !.error = None]

\* GET /robots/:robotId/telemetry
GetRobotTelemetry(q, cursor, pages) ==
  /\ q.list = "telemetry"
  /\ walk' = [walk EXCEPT !.stage = "checking", !.query = q, !.cursor = cursor,
                         !.pages = pages, !.error = None]

Get(q, cursor, pages) ==
  \/ GetRobots(q, cursor, pages)
  \/ GetAlerts(q, cursor, pages)
  \/ GetRobotTelemetry(q, cursor, pages)

\* A client begins a walk.
Ask(q) ==
  /\ walk.stage \in {"idle", "done", "refused"}
  /\ Get(q, None, <<>>)
  /\ kept' = table /\ ever' = table
  /\ UNCHANGED <<now, database, worker>>

\* It asks for the next page, or sends the cursor to another list.
AskNext ==
  /\ walk.stage = "between"
  /\ \/ Get(walk.query, walk.cursor, walk.pages) /\ UNCHANGED history
     \/ /\ \E q \in Queries : q.list # walk.query.list /\ Get(q, walk.cursor, <<>>)
        /\ kept' = table /\ ever' = table
  /\ UNCHANGED <<now, database, worker>>

-----------------------------------------------------------------------------
(* The writers *)

Tick ==
  /\ now < MaxNow
  /\ now' = now + 1
  /\ UNCHANGED <<database, walk, history, worker>>

\* A row is committed.  Its receivedAt was read before the transaction began, so
\* a row may have expired when it appears.
Insert(row) ==
  /\ receivedAt[row] = None
  /\ table' = table \cup {row}
  /\ \E received \in 0..now : receivedAt' = [receivedAt EXCEPT ![row] = received]
  /\ ever' = ever \cup {row}
  /\ UNCHANGED <<now, walk, kept, worker>>

-----------------------------------------------------------------------------
(* The retention worker *)

\* The next cycle, unless the worker is stopping.
BeginCycle ==
  /\ worker.at = "cycle"
  /\ worker' = IF worker.stopping THEN [worker EXCEPT !.at = "exited"]
               ELSE [worker EXCEPT !.at = "telemetry", !.began = now]
  /\ UNCHANGED <<now, database, walk, history>>

\* Mutant of Pause: a failed cycle is the last one.
PauseForGood == [worker EXCEPT !.at = "exited"]

\* After the last delete or a failed one: the end, or the pause.
Pause == [worker EXCEPT !.at = IF worker.stopping THEN "exited" ELSE "sleeping"]

\* deleteTelemetryBefore's where.
Expired(row, time) ==
  row.list = "telemetry" /\ receivedAt[row] < time - Retention

\* A delete of the cycle succeeds; the cutoff is of the time the cycle began.
DeleteExpired(t) ==
  /\ worker.at = t
  /\ LET gone == IF t = "telemetry" THEN {row \in table : Expired(row, worker.began)} ELSE {}
     IN table' = table \ gone /\ kept' = kept \ gone
  /\ worker' = CASE t = "telemetry" -> [worker EXCEPT !.at = "processed"]
                 [] t = "processed" -> [worker EXCEPT !.at = "outbox"]
                 [] t = "outbox"    -> Pause
  /\ UNCHANGED <<now, receivedAt, walk, ever>>

\* A delete fails: the rest of the cycle is skipped.
DeleteFails ==
  /\ worker.at \in Deletes
  /\ worker' = Pause
  /\ UNCHANGED <<now, database, walk, history>>

\* The pause ends, by its timer or by the abort.
WakeUp ==
  /\ worker.at = "sleeping"
  /\ worker' = [worker EXCEPT !.at = "cycle"]
  /\ UNCHANGED <<now, database, walk, history>>

\* SIGINT or SIGTERM
RequestStop ==
  /\ ~worker.stopping
  /\ worker' = [worker EXCEPT !.stopping = TRUE]
  /\ UNCHANGED <<now, database, walk, history>>

-----------------------------------------------------------------------------

Init ==
  /\ now = 0
  /\ table = FirstRows
  /\ receivedAt = [row \in Rows |-> IF row \in FirstRows THEN 0 ELSE None]
  /\ walk = [stage |-> "idle", query |-> CHOOSE q \in Queries : TRUE, cursor |-> None,
             pages |-> <<>>, error |-> None]
  /\ kept = {} /\ ever = {}
  /\ worker = [at |-> "cycle", began |-> 0, stopping |-> FALSE]

Worker == BeginCycle \/ (\E t \in Deletes : DeleteExpired(t)) \/ DeleteFails \/ WakeUp

Next ==
  \/ (\E q \in Queries : Ask(q)) \/ AskNext
  \/ ListRobots \/ ListAlerts \/ CheckRobot \/ ListRobotTelemetry
  \/ Tick \/ (\E row \in Rows : Insert(row))
  \/ Worker \/ RequestStop

Spec == Init /\ [][Next]_vars

\* The worker goes on, and a statement that is tried again and again succeeds.
Fairness == WF_vars(Worker) /\ SF_vars(DeleteExpired("telemetry"))

FairSpec == Spec /\ Fairness

-----------------------------------------------------------------------------
(* Properties *)

Listed == UNION {walk.pages[i] : i \in DOMAIN walk.pages}

\* What a walk is to list.
Wanted(q, row) ==
  /\ row.list = q.list
  /\ q.of \in {None, row.of}
  /\ q.list = "telemetry" => q.from <= row.at /\ row.at <= q.to

\* findByRobotId, list, findAll and their cursors: however rows come and go
\* between two pages, with equal timestamps and late ones, and although the row
\* of the cursor itself may be gone, a walk lists rows in order, none twice, only
\* what matches and was there, and when it ends every matching row that was
\* there all along.  A walk that has begun is not refused.
WalkIsComplete ==
  LET q == walk.query IN
  /\ \A i, j \in DOMAIN walk.pages : i < j =>
       \A x \in walk.pages[i], y \in walk.pages[j] : Before(q, x, y)
  /\ \A i \in DOMAIN walk.pages : Cardinality(walk.pages[i]) <= q.limit
  /\ \A row \in Listed : row \in ever /\ Wanted(q, row)
  /\ walk.stage = "done" => \A row \in kept : Wanted(q, row) => row \in Listed
  /\ walk.stage = "refused" => walk.pages = <<>>

\* CleanupRetainedData and its worker: what has expired is deleted, although a
\* failing statement ends its cycle, unless the worker is told to stop; and a
\* stop that was asked for ends in an exit.
RetentionCatchesUp ==
  /\ \A row \in {x \in Rows : x.list = "telemetry"} :
       (row \in table /\ Expired(row, now))
         ~> (row \notin table \/ worker.stopping)
  /\ worker.stopping ~> (worker.at = "exited")
===============================================================================
