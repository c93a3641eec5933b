------------------------- MODULE IngestTelemetryProofs -------------------------
(***************************************************************************)
(* Proofs about IngestTelemetry, for any number of robots, source ids,     *)
(* samples and concurrent requests and for any retention window: the       *)
(* types, the safety invariants, and that concurrent ingest implements     *)
(* IngestLedger.                                                           *)
(***************************************************************************)
EXTENDS IngestTelemetry, TLAPS

\* Calls whose transaction has minted an id, and those that hold the key.
Minted == {c \in Calls : pc[c] \in {"absent", "inserted", "upserted"}}
Inserted == {c \in Calls : pc[c] \in {"inserted", "upserted"}}
Upserted == {c \in Calls : pc[c] = "upserted"}

\* The part of a request's progress that the types leave open.
CallInv ==
  /\ \A c \in Calls : pc[c] # "idle" => request[c] \in Request
  /\ \A c \in Minted : request[c].robot \in SeededRobots /\ id[c] \in Ids

\* An id names one call or one committed event, and never a second one.
IdInv ==
  /\ \A c \in Calls : id[c] # None => c \in Minted
  /\ \A c, d \in Minted : c # d => id[c] # id[d]
  /\ \A c \in Minted : \A x \in outbox : x.id # id[c]
  /\ \A x, y \in outbox : x.id = y.id => x = y
  /\ \A x \in outbox : committedAt[x.id] \in Times

\* What the unique index guarantees to the call that has its entry, and what
\* has happened to an event without history: it has outlived its window.
KeyInv ==
  /\ telemetry \subseteq outbox
  /\ \A x \in outbox \ telemetry : now > x.receivedAt + TelemetryRetention
  /\ \A c \in Inserted : \A x \in telemetry : ~SameKey(x, request[c])
  /\ \A c, d \in Inserted : c # d => ~SameKey(request[c], request[d])

\* What the row lock of the current state guarantees to its holder: the gate's
\* verdict is about the state that is still committed.
GateInv ==
  /\ \A c, d \in Upserted : c # d => request[c].robot # request[d].robot
  /\ \A c \in Upserted :
       newer[c] = StrictlyNewer(request[c].observation, current[request[c].robot])

IInv ==
  /\ TypeOK
  /\ CallInv
  /\ IdInv
  /\ KeyInv
  /\ GateInv
  /\ AcceptedOncePerWindow
  /\ CurrentIsNewest

-----------------------------------------------------------------------------
(* Types *)

\* The initial state has the declared types.
LEMMA InitTypes == Init => TypeOK /\ CallInv
BY IngestAssumption DEF Init, TypeOK, CallInv, Minted, Times

\* Ending a transaction keeps the types of the call's own variables.
LEMMA FinishTypes ==
  ASSUME TypeOK, CallInv, NEW c \in Calls, pc[c] # "idle", NEW a \in Answer, Finish(c, a)
  PROVE  /\ now' \in Times
         /\ pc' \in [Calls -> {"idle", "begun", "absent", "inserted", "upserted"}]
         /\ request' \in [Calls -> Request \cup {None}]
         /\ id' \in [Calls -> Ids \cup {None}]
         /\ newer' \in [Calls -> BOOLEAN]
         /\ reply' \in Reply
         /\ CallInv'
<1>1. request[c] \in Request
  BY DEF CallInv
<1>2. reply' \in Reply
  BY <1>1 DEF Finish, Reply
<1>3. /\ now' \in Times
      /\ pc' \in [Calls -> {"idle", "begun", "absent", "inserted", "upserted"}]
      /\ request' \in [Calls -> Request \cup {None}]
      /\ id' \in [Calls -> Ids \cup {None}]
      /\ newer' \in [Calls -> BOOLEAN]
  BY DEF Finish, TypeOK
<1>4. \A d \in Calls : d # c => pc'[d] = pc[d] /\ request'[d] = request[d] /\ id'[d] = id[d]
  BY DEF Finish, TypeOK
<1>5. pc'[c] = "idle"
  BY DEF Finish, TypeOK
<1>6. CallInv'
  BY <1>4, <1>5 DEF CallInv, Minted
<1> QED BY <1>2, <1>3, <1>6

\* The row a call commits has the type of a row.
LEMMA RowOfType ==
  ASSUME CallInv, NEW c \in Minted
  PROVE  RowOf(c) \in Row
<1>1. request[c] \in Request /\ request[c].robot \in SeededRobots /\ id[c] \in Ids
  BY DEF CallInv, Minted
<1> QED BY <1>1 DEF RowOf, Row, Request

\* Every step keeps the types.
LEMMA NextTypes == TypeOK /\ CallInv /\ [Next]_vars => TypeOK' /\ CallInv'
<1> SUFFICES ASSUME TypeOK, CallInv, [Next]_vars PROVE TypeOK' /\ CallInv'
  OBVIOUS
<1>1. ASSUME NEW c \in Calls, NEW r \in RobotIds, NEW s \in SourceIds,
             NEW o \in Observations, Begin(c, r, s, o)
      PROVE  TypeOK' /\ CallInv'
  <2>1. [robot |-> r, source |-> s, observation |-> o, receivedAt |-> now] \in Request
    BY DEF TypeOK, Request
  <2>2. TypeOK'
    BY <1>1, <2>1 DEF Begin, TypeOK, db
  <2>3. CallInv'
    BY <1>1, <2>1 DEF Begin, TypeOK, CallInv, Minted
  <2> QED BY <2>2, <2>3
<1>2. ASSUME NEW c \in Calls, NEW a \in Answer, pc[c] # "idle", Finish(c, a), UNCHANGED db
      PROVE  TypeOK' /\ CallInv'
  BY <1>2, FinishTypes DEF TypeOK, db
<1>3. ASSUME NEW c \in Calls, FindNoHistory(c)
      PROVE  TypeOK' /\ CallInv'
  <2>1. PICK i \in Ids : id' = [id EXCEPT ![c] = i]
    BY <1>3 DEF FindNoHistory
  <2>2. TypeOK'
    BY <1>3, <2>1 DEF FindNoHistory, TypeOK, db
  <2>3. CallInv'
    BY <1>3, <2>1 DEF FindNoHistory, TypeOK, CallInv, Minted
  <2> QED BY <2>2, <2>3
<1>4. ASSUME NEW c \in Calls, AppendTelemetry(c)
      PROVE  TypeOK' /\ CallInv'
  <2>1. TypeOK'
    BY <1>4 DEF AppendTelemetry, TypeOK, db
  <2>2. CallInv'
    BY <1>4 DEF AppendTelemetry, TypeOK, CallInv, Minted
  <2> QED BY <2>1, <2>2
<1>5. ASSUME NEW c \in Calls, UpdateIfNewer(c)
      PROVE  TypeOK' /\ CallInv'
  <2>1. StrictlyNewer(request[c].observation, current[request[c].robot]) \in BOOLEAN
    BY DEF StrictlyNewer
  <2>2. TypeOK'
    BY <1>5, <2>1 DEF UpdateIfNewer, TypeOK, db
  <2>3. CallInv'
    BY <1>5 DEF UpdateIfNewer, TypeOK, CallInv, Minted
  <2> QED BY <2>2, <2>3
<1>6. ASSUME NEW c \in Calls, Commit(c)
      PROVE  TypeOK' /\ CallInv'
  <2>1. c \in Minted /\ RowOf(c) \in Row /\ id[c] \in Ids /\ request[c].robot \in SeededRobots
    BY <1>6, RowOfType DEF Commit, Minted, CallInv
  <2>2. /\ telemetry' \subseteq Row
        /\ outbox' \subseteq Row
        /\ current' \in [SeededRobots -> Row \cup {None}]
        /\ committedAt' \in [Ids -> Times \cup {None}]
    BY <1>6, <2>1 DEF Commit, TypeOK
  <2> QED BY <1>6, <2>2, FinishTypes DEF Commit, TypeOK, Answer
<1>7. ASSUME NEW t \in Times, DeleteTelemetryBefore(t)
      PROVE  TypeOK' /\ CallInv'
  BY <1>7 DEF DeleteTelemetryBefore, TypeOK, CallInv, Minted, call
<1>8. CASE Tick
  BY <1>8, IngestAssumption DEF Tick, TypeOK, CallInv, Minted, db, call, Times
<1>9. CASE UNCHANGED vars
  BY <1>9 DEF vars, db, call, TypeOK, CallInv, Minted
<1> QED
  BY <1>1, <1>2, <1>3, <1>4, <1>5, <1>6, <1>7, <1>8, <1>9
  DEF Next, Step, RejectUnknownRobot, RejectConflict, Replay, FailUnique, Fail, Answer

\* The types hold in every reachable state.
THEOREM TypeCorrect == Spec => []TypeOK
<1>1. Init => TypeOK /\ CallInv
  BY InitTypes
<1> QED BY <1>1, NextTypes, PTL DEF Spec

-----------------------------------------------------------------------------
(* What the steps do to the sets of calls *)

\* A call that ends, or begins, leaves the sets the invariants speak of.
LEMMA EndStep ==
  ASSUME TypeOK, NEW c \in Calls, NEW a \in Answer, Finish(c, a)
  PROVE  /\ Minted' = Minted \ {c}
         /\ Inserted' = Inserted \ {c}
         /\ Upserted' = Upserted \ {c}
         /\ id'[c] = None
         /\ \A d \in Calls \ {c} :
              request'[d] = request[d] /\ id'[d] = id[d] /\ newer'[d] = newer[d]
BY DEF Finish, TypeOK, Minted, Inserted, Upserted

LEMMA BeginStep ==
  ASSUME TypeOK, NEW c \in Calls, NEW r \in RobotIds, NEW s \in SourceIds,
         NEW o \in Observations, Begin(c, r, s, o)
  PROVE  /\ Minted' = Minted /\ Inserted' = Inserted /\ Upserted' = Upserted
         /\ c \notin Minted /\ id' = id /\ newer' = newer
         /\ \A d \in Calls \ {c} : request'[d] = request[d]
BY DEF Begin, TypeOK, Minted, Inserted, Upserted

-----------------------------------------------------------------------------
(* The parts of the invariant *)

LEMMA InitParts == Init => IdInv /\ KeyInv /\ GateInv /\ AcceptedOncePerWindow /\ CurrentIsNewest
BY DEF Init, IdInv, KeyInv, GateInv, AcceptedOncePerWindow, CurrentIsNewest,
       Minted, Inserted, Upserted

\* Ids stay fresh: a call mints one that nobody has and hands it to its row.
LEMMA IdStep == TypeOK /\ CallInv /\ IdInv /\ [Next]_vars => IdInv'
<1> SUFFICES ASSUME TypeOK, CallInv, IdInv, [Next]_vars PROVE IdInv'
  OBVIOUS
<1>1. ASSUME NEW c \in Calls, NEW r \in RobotIds, NEW s \in SourceIds,
             NEW o \in Observations, Begin(c, r, s, o)
      PROVE  IdInv'
  <2>1. Minted' = Minted /\ id' = id /\ outbox' = outbox /\ committedAt' = committedAt
    BY <1>1, BeginStep DEF Begin, db
  <2> QED BY <2>1 DEF IdInv
<1>2. ASSUME NEW c \in Calls, NEW a \in Answer, Finish(c, a), UNCHANGED db
      PROVE  IdInv'
  <2>1. /\ Minted' = Minted \ {c}
        /\ id'[c] = None
        /\ \A d \in Calls \ {c} : id'[d] = id[d]
        /\ outbox' = outbox /\ committedAt' = committedAt
    BY <1>2, EndStep DEF db
  <2> QED BY <2>1 DEF IdInv, Minted
<1>3. ASSUME NEW c \in Calls, FindNoHistory(c)
      PROVE  IdInv'
  <2>1. PICK i \in Ids :
          /\ \A x \in outbox : x.id # i
          /\ \A d \in Calls : id[d] # i
          /\ id' = [id EXCEPT ![c] = i]
    BY <1>3 DEF FindNoHistory
  <2>2. Minted' = Minted \cup {c} /\ outbox' = outbox /\ committedAt' = committedAt
    BY <1>3 DEF FindNoHistory, Minted, TypeOK, db
  <2>3. id'[c] = i /\ \A d \in Calls \ {c} : id'[d] = id[d]
    BY <2>1 DEF TypeOK
  <2> QED BY <2>1, <2>2, <2>3 DEF IdInv, Minted
<1>4. ASSUME NEW c \in Calls, AppendTelemetry(c) \/ UpdateIfNewer(c)
      PROVE  IdInv'
  <2>1. Minted' = Minted /\ id' = id /\ outbox' = outbox /\ committedAt' = committedAt
    BY <1>4 DEF AppendTelemetry, UpdateIfNewer, Minted, TypeOK, db
  <2> QED BY <2>1 DEF IdInv
<1>5. ASSUME NEW c \in Calls, Commit(c)
      PROVE  IdInv'
  <2>1. c \in Minted /\ id[c] \in Ids /\ RowOf(c).id = id[c]
    BY <1>5 DEF Commit, Minted, CallInv, RowOf
  <2>2. /\ Minted' = Minted \ {c}
        /\ id'[c] = None
        /\ \A d \in Calls \ {c} : id'[d] = id[d]
    BY <1>5, EndStep DEF Commit, Answer
  <2>3. outbox' = outbox \cup {RowOf(c)}
    BY <1>5 DEF Commit
  <2>4. committedAt'[id[c]] = now /\ \A i \in Ids : i # id[c] => committedAt'[i] = committedAt[i]
    BY <1>5, <2>1 DEF Commit, TypeOK
  <2>5. \A x \in outbox : x.id # id[c] /\ x.id \in Ids
    BY <2>1 DEF IdInv, TypeOK, Row
  <2>6. \A x \in outbox' : committedAt'[x.id] \in Times
    BY <2>1, <2>3, <2>4, <2>5 DEF IdInv, TypeOK
  <2>7. \A x, y \in outbox' : x.id = y.id => x = y
    BY <2>1, <2>3, <2>5 DEF IdInv
  <2>8. \A d \in Minted' : \A x \in outbox' : x.id # id'[d]
    BY <2>1, <2>2, <2>3 DEF IdInv, Minted
  <2>9. \A d, e \in Minted' : d # e => id'[d] # id'[e]
    BY <2>2 DEF IdInv, Minted
  <2>10. \A d \in Calls : id'[d] # None => d \in Minted'
    BY <2>2 DEF IdInv
  <2> QED BY <2>6, <2>7, <2>8, <2>9, <2>10 DEF IdInv
<1>6. CASE UNCHANGED <<outbox, committedAt, call>>
  BY <1>6 DEF IdInv, Minted, call
<1> QED
  BY <1>1, <1>2, <1>3, <1>4, <1>5, <1>6
  DEF Next, Step, RejectUnknownRobot, RejectConflict, Replay, FailUnique, Fail, Answer,
      DeleteTelemetryBefore, Tick, vars, db

\* The key of an open insert stays free of history and of other inserts; an
\* event leaves history only when its window has passed.
LEMMA KeyStep == TypeOK /\ CallInv /\ KeyInv /\ [Next]_vars => KeyInv'
<1> SUFFICES ASSUME TypeOK, CallInv, KeyInv, [Next]_vars PROVE KeyInv'
  OBVIOUS
<1>1. ASSUME NEW c \in Calls, NEW r \in RobotIds, NEW s \in SourceIds,
             NEW o \in Observations, Begin(c, r, s, o)
      PROVE  KeyInv'
  <2>1. c \notin Inserted
    BY <1>1 DEF Begin, Inserted
  <2> QED BY <1>1, <2>1, BeginStep DEF Begin, KeyInv, db, Inserted
<1>2. ASSUME NEW c \in Calls, NEW a \in Answer, Finish(c, a), UNCHANGED db
      PROVE  KeyInv'
  <2>1. now' = now
    BY <1>2 DEF Finish
  <2> QED BY <1>2, <2>1, EndStep DEF KeyInv, db, Inserted
<1>3. ASSUME NEW c \in Calls, FindNoHistory(c) \/ UpdateIfNewer(c)
      PROVE  KeyInv'
  <2>1. Inserted' = Inserted /\ request' = request /\ now' = now
        /\ telemetry' = telemetry /\ outbox' = outbox
    BY <1>3 DEF FindNoHistory, UpdateIfNewer, Inserted, TypeOK, db
  <2> QED BY <2>1 DEF KeyInv
<1>4. ASSUME NEW c \in Calls, AppendTelemetry(c)
      PROVE  KeyInv'
  <2>1. Inserted' = Inserted \cup {c} /\ request' = request /\ now' = now
        /\ telemetry' = telemetry /\ outbox' = outbox
    BY <1>4 DEF AppendTelemetry, Inserted, TypeOK, db
  <2>2. \A x \in telemetry : ~SameKey(x, request[c])
    BY <1>4 DEF AppendTelemetry, FindByRobotIdAndSource
  <2>3. \A d \in Inserted : d # c => ~SameKey(request[d], request[c])
    BY <1>4 DEF AppendTelemetry, HoldsKey, Inserted
  <2>4. \A d \in Inserted : d # c => ~SameKey(request[c], request[d])
    BY <2>3 DEF SameKey
  <2> QED BY <2>1, <2>2, <2>3, <2>4 DEF KeyInv
<1>5. ASSUME NEW c \in Calls, Commit(c)
      PROVE  KeyInv'
  <2>1. c \in Inserted /\ RowOf(c).robot = request[c].robot /\ RowOf(c).source = request[c].source
    BY <1>5 DEF Commit, Inserted, RowOf
  <2>2. /\ telemetry' = telemetry \cup {RowOf(c)}
        /\ outbox' = outbox \cup {RowOf(c)}
        /\ now' = now
    BY <1>5 DEF Commit, Finish
  <2>3. /\ Inserted' = Inserted \ {c}
        /\ \A d \in Calls \ {c} : request'[d] = request[d]
    BY <1>5, EndStep DEF Commit, Answer
  <2>4. \A d \in Inserted' : ~SameKey(RowOf(c), request[d])
    BY <2>1, <2>3 DEF KeyInv, SameKey
  <2>5. \A d \in Inserted' : d \in Calls /\ request'[d] = request[d]
    BY <2>3 DEF Inserted
  <2> QED BY <2>2, <2>3, <2>4, <2>5 DEF KeyInv
<1>6. ASSUME NEW t \in Times, DeleteTelemetryBefore(t)
      PROVE  KeyInv'
  <2>1. /\ telemetry' = {x \in telemetry : ~Expired(x, t)}
        /\ t <= now /\ now' = now /\ outbox' = outbox
        /\ Inserted' = Inserted /\ request' = request
    BY <1>6 DEF DeleteTelemetryBefore, call, Inserted
  <2>2. \A x \in outbox : x.receivedAt \in Int
    BY DEF TypeOK, Row, Times
  <2>3. t \in Int /\ now \in Int /\ TelemetryRetention \in Int
    BY IngestAssumption DEF TypeOK, Times
  <2>4. ASSUME NEW x \in telemetry, Expired(x, t) PROVE now > x.receivedAt + TelemetryRetention
    BY <2>1, <2>2, <2>3, <2>4 DEF Expired, KeyInv
  <2> QED BY <2>1, <2>4 DEF KeyInv
<1>7. CASE Tick
  <2>1. /\ telemetry' = telemetry /\ outbox' = outbox /\ now' = now + 1
        /\ Inserted' = Inserted /\ request' = request
    BY <1>7 DEF Tick, db, call, Inserted
  <2>2. \A x \in outbox : x.receivedAt \in Int
    BY DEF TypeOK, Row, Times
  <2>3. now \in Int /\ TelemetryRetention \in Int
    BY IngestAssumption DEF TypeOK, Times
  <2> QED BY <2>1, <2>2, <2>3 DEF KeyInv
<1>8. CASE UNCHANGED vars
  BY <1>8 DEF KeyInv, Inserted, vars, db, call
<1> QED
  BY <1>1, <1>2, <1>3, <1>4, <1>5, <1>6, <1>7, <1>8
  DEF Next, Step, RejectUnknownRobot, RejectConflict, Replay, FailUnique, Fail, Answer

\* Only the holder of the row lock changes a robot's state, so the verdict of
\* the gate stays true until it is acted on.
LEMMA GateStep == TypeOK /\ CallInv /\ GateInv /\ [Next]_vars => GateInv'
<1> SUFFICES ASSUME TypeOK, CallInv, GateInv, [Next]_vars PROVE GateInv'
  OBVIOUS
<1>1. ASSUME NEW c \in Calls, NEW r \in RobotIds, NEW s \in SourceIds,
             NEW o \in Observations, Begin(c, r, s, o)
      PROVE  GateInv'
  <2>1. c \notin Upserted
    BY <1>1 DEF Begin, Upserted
  <2>2. Upserted' = Upserted /\ newer' = newer /\ current' = current
        /\ \A d \in Upserted : request'[d] = request[d]
    BY <1>1, <2>1, BeginStep DEF Begin, db, Upserted
  <2> QED BY <2>2 DEF GateInv
<1>2. ASSUME NEW c \in Calls, NEW a \in Answer, Finish(c, a), UNCHANGED db
      PROVE  GateInv'
  <2>1. /\ Upserted' = Upserted \ {c}
        /\ current' = current
        /\ \A d \in Upserted' : request'[d] = request[d] /\ newer'[d] = newer[d]
    BY <1>2, EndStep DEF db, Upserted
  <2> QED BY <2>1 DEF GateInv
<1>3. ASSUME NEW c \in Calls, FindNoHistory(c) \/ AppendTelemetry(c)
      PROVE  GateInv'
  <2>1. Upserted' = Upserted /\ request' = request /\ newer' = newer /\ current' = current
    BY <1>3 DEF FindNoHistory, AppendTelemetry, Upserted, TypeOK, db
  <2> QED BY <2>1 DEF GateInv
<1>4. ASSUME NEW c \in Calls, UpdateIfNewer(c)
      PROVE  GateInv'
  <2>1. Upserted' = Upserted \cup {c} /\ request' = request /\ current' = current
    BY <1>4 DEF UpdateIfNewer, Upserted, TypeOK, db
  <2>2. /\ newer'[c] = StrictlyNewer(request[c].observation, current[request[c].robot])
        /\ \A d \in Calls \ {c} : newer'[d] = newer[d]
    BY <1>4 DEF UpdateIfNewer, TypeOK
  <2>3. \A d \in Upserted : d # c => request[d].robot # request[c].robot
    BY <1>4 DEF UpdateIfNewer, HoldsCurrent, Upserted
  <2>4. \A d, e \in Upserted' : d # e => request'[d].robot # request'[e].robot
    BY <2>1, <2>3 DEF GateInv
  <2>5. \A d \in Upserted' :
          newer'[d] = StrictlyNewer(request'[d].observation, current'[request'[d].robot])
    BY <2>1, <2>2 DEF GateInv, Upserted
  <2> QED BY <2>4, <2>5 DEF GateInv, StrictlyNewer
<1>5. ASSUME NEW c \in Calls, Commit(c)
      PROVE  GateInv'
  <2>1. c \in Upserted /\ c \in Minted
    BY <1>5 DEF Commit, Upserted, Minted
  <2>2. /\ Upserted' = Upserted \ {c}
        /\ \A d \in Upserted' : request'[d] = request[d] /\ newer'[d] = newer[d]
    BY <1>5, EndStep DEF Commit, Answer, Upserted
  <2>3. \A r \in SeededRobots : r # request[c].robot => current'[r] = current[r]
    BY <1>5 DEF Commit, TypeOK
  <2>4. \A d \in Upserted' : request[d].robot # request[c].robot
                             /\ request[d].robot \in SeededRobots
    BY <2>1, <2>2 DEF GateInv, CallInv, Minted, Upserted
  <2>5. \A d \in Upserted' : current'[request'[d].robot] = current[request[d].robot]
    BY <2>2, <2>3, <2>4
  <2> QED BY <2>2, <2>5 DEF GateInv, StrictlyNewer
<1>6. CASE UNCHANGED <<current, call>>
  BY <1>6 DEF GateInv, StrictlyNewer, Upserted, call
<1> QED
  BY <1>1, <1>2, <1>3, <1>4, <1>5, <1>6
  DEF Next, Step, RejectUnknownRobot, RejectConflict, Replay, FailUnique, Fail, Answer,
      DeleteTelemetryBefore, Tick, vars, db

\* A step other than Commit leaves the events and their states alone.
LEMMA QuietStep ==
  ASSUME [Next]_vars, \A c \in Calls : ~Commit(c)
  PROVE  outbox' = outbox /\ current' = current /\ committedAt' = committedAt
BY DEF Next, Step, Begin, RejectUnknownRobot, RejectConflict, Replay, FindNoHistory,
       AppendTelemetry, FailUnique, UpdateIfNewer, Fail, DeleteTelemetryBefore, Tick, vars, db

\* A second event under a key is committed after the first one's window.
LEMMA OnceStep ==
  TypeOK /\ CallInv /\ IdInv /\ KeyInv /\ AcceptedOncePerWindow /\ [Next]_vars
    => AcceptedOncePerWindow'
<1> SUFFICES ASSUME TypeOK, CallInv, IdInv, KeyInv, AcceptedOncePerWindow, [Next]_vars
             PROVE  AcceptedOncePerWindow'
  OBVIOUS
<1>1. ASSUME NEW c \in Calls, Commit(c)
      PROVE  AcceptedOncePerWindow'
  <2> DEFINE new == RowOf(c)
  <2>1. c \in Inserted /\ c \in Minted
    BY <1>1 DEF Commit, Inserted, Minted
  <2>2. new.id = id[c] /\ new.robot = request[c].robot /\ new.source = request[c].source
        /\ id[c] \in Ids
    BY <2>1 DEF RowOf, CallInv
  <2>3. outbox' = outbox \cup {new}
    BY <1>1 DEF Commit
  <2>4. committedAt'[new.id] = now
        /\ \A x \in outbox : committedAt'[x.id] = committedAt[x.id]
    <3>1. \A x \in outbox : x.id # id[c] /\ x.id \in Ids
      BY <2>1 DEF IdInv, TypeOK, Row
    <3> QED BY <1>1, <2>2, <3>1 DEF Commit, TypeOK
  <2>5. ASSUME NEW x \in outbox, SameKey(x, new)
        PROVE  now > x.receivedAt + TelemetryRetention
    <3>1. SameKey(x, request[c])
      BY <2>2, <2>5 DEF SameKey
    <3>2. x \notin telemetry
      BY <2>1, <3>1 DEF KeyInv
    <3> QED BY <3>2 DEF KeyInv
  <2>6. \A x, y \in outbox : SameKey(x, y) => SameKey(y, x)
    BY DEF SameKey
  <2>7. \A x \in outbox : SameKey(new, x) => SameKey(x, new)
    BY DEF SameKey
  <2> HIDE DEF new
  <2>8. ASSUME NEW x \in outbox', NEW y \in outbox', x # y, SameKey(x, y)
        PROVE  \/ committedAt'[y.id] > x.receivedAt + TelemetryRetention
               \/ committedAt'[x.id] > y.receivedAt + TelemetryRetention
    <3>1. CASE x \in outbox /\ y \in outbox
      BY <2>4, <2>8, <3>1 DEF AcceptedOncePerWindow
    <3>2. CASE x \in outbox /\ y = new
      BY <2>4, <2>5, <2>8, <3>2
    <3>3. CASE x = new /\ y \in outbox
      BY <2>4, <2>5, <2>7, <2>8, <3>3
    <3> QED BY <2>3, <2>8, <3>1, <3>2, <3>3
  <2> QED BY <2>8 DEF AcceptedOncePerWindow
<1>2. CASE \A c \in Calls : ~Commit(c)
  BY <1>2, QuietStep DEF AcceptedOncePerWindow
<1> QED BY <1>1, <1>2

\* The value the commit of c leaves as the current state of its robot.
LEMMA CommitCurrent ==
  ASSUME TypeOK, CallInv, GateInv, NEW c \in Calls, Commit(c)
  PROVE  /\ request[c].robot \in SeededRobots
         /\ \A r \in SeededRobots : r # request[c].robot => current'[r] = current[r]
         /\ current'[request[c].robot] =
              IF StrictlyNewer(request[c].observation, current[request[c].robot])
              THEN RowOf(c) ELSE current[request[c].robot]
<1>1. c \in Minted /\ c \in Upserted
  BY DEF Commit, Minted, Upserted
<1> QED BY <1>1 DEF Commit, CallInv, GateInv, TypeOK

\* A commit installs its sample exactly when it is newer than what is there.
LEMMA NewestStep ==
  TypeOK /\ CallInv /\ GateInv /\ CurrentIsNewest /\ [Next]_vars => CurrentIsNewest'
<1> SUFFICES ASSUME TypeOK, CallInv, GateInv, CurrentIsNewest, [Next]_vars
             PROVE  CurrentIsNewest'
  OBVIOUS
<1>1. ASSUME NEW c \in Calls, Commit(c)
      PROVE  CurrentIsNewest'
  <2> DEFINE new == RowOf(c)
             r == request[c].robot
  <2>1. /\ r \in SeededRobots
        /\ \A s \in SeededRobots : s # r => current'[s] = current[s]
        /\ current'[r] = IF StrictlyNewer(new.observation, current[r]) THEN new ELSE current[r]
    BY <1>1, CommitCurrent DEF RowOf
  <2>2. new \in Row /\ new.robot = r
    <3>1. c \in Minted
      BY <1>1 DEF Commit, Minted
    <3> QED BY <3>1, RowOfType DEF RowOf
  <2>3. outbox' = outbox \cup {new}
    BY <1>1 DEF Commit
  <2>4. /\ new # None
        /\ \A x \in outbox' : x.robot \in SeededRobots /\ x.observation \in Observations
    <3>1. new.id \in Ids /\ None \notin Row
      BY <2>2, NoneAssumption DEF Row
    <3> QED BY <2>2, <2>3, <3>1 DEF TypeOK, Row
  <2>5. \A o \in Observations : RecordedAt[o] \in Int
    BY IngestAssumption
  <2> HIDE DEF new, r
  <2>6. \A s \in SeededRobots : current'[s] # None => current'[s] \in outbox'
    BY <2>1, <2>3 DEF CurrentIsNewest
  <2>7. current'[r] # None
        /\ RecordedAt[current'[r].observation] >= RecordedAt[new.observation]
    <3>1. CASE StrictlyNewer(new.observation, current[r])
      BY <2>1, <2>3, <2>4, <2>5, <3>1
    <3>2. CASE ~StrictlyNewer(new.observation, current[r])
      <4>1. current[r] # None /\ current[r] \in outbox
        BY <2>1, <3>2 DEF StrictlyNewer, CurrentIsNewest
      <4> QED BY <2>1, <2>3, <2>4, <2>5, <3>2, <4>1 DEF StrictlyNewer
    <3> QED BY <3>1, <3>2
  <2>8. ASSUME NEW x \in outbox
        PROVE  current'[x.robot] # None
               /\ RecordedAt[current'[x.robot].observation] >= RecordedAt[x.observation]
    <3>1. current[x.robot] # None /\ current[x.robot] \in outbox
          /\ RecordedAt[current[x.robot].observation] >= RecordedAt[x.observation]
      BY <2>3, <2>4 DEF CurrentIsNewest
    <3>2. CASE x.robot # r
      BY <2>1, <2>3, <2>4, <3>1, <3>2
    <3>3. CASE x.robot = r
      BY <2>1, <2>3, <2>4, <2>5, <3>1, <3>3 DEF StrictlyNewer
    <3> QED BY <3>2, <3>3
  <2>9. new.robot = r
    BY <2>2
  <2> QED BY <2>3, <2>6, <2>7, <2>8, <2>9 DEF CurrentIsNewest
<1>2. CASE \A c \in Calls : ~Commit(c)
  BY <1>2, QuietStep DEF CurrentIsNewest
<1> QED BY <1>1, <1>2

-----------------------------------------------------------------------------
(* The theorems *)

\* The conjunction is inductive.
LEMMA Inductive == Spec => []IInv
<1>1. Init => IInv
  BY InitTypes, InitParts DEF IInv
<1>2. IInv /\ [Next]_vars => IInv'
  BY NextTypes, IdStep, KeyStep, GateStep, OnceStep, NewestStep DEF IInv
<1> QED BY <1>1, <1>2, PTL DEF Spec

\* Inside a retention window one source id is one event, however requests
\* interleave, fail and are retried.
THEOREM IngestOnce == Spec => []AcceptedOncePerWindow
<1>1. IInv => AcceptedOncePerWindow
  BY DEF IInv
<1> QED BY <1>1, Inductive, PTL

\* A robot's current state is the newest of its accepted samples.
THEOREM CurrentNewest == Spec => []CurrentIsNewest
<1>1. IInv => CurrentIsNewest
  BY DEF IInv
<1> QED BY <1>1, Inductive, PTL

\* Ingest implements the ledger: every commit accepts one row in one step, and
\* no other step but retention's delete changes the tables.
THEOREM Refinement == Spec => ImplementsLedger
<1>1. Init => Ledger!Init
  BY DEF Init, Ledger!Init
<1>2. ASSUME IInv, [Next]_vars PROVE [Ledger!Next]_(Ledger!vars)
  <2>1. ASSUME NEW c \in Calls, Commit(c)
        PROVE  Ledger!Next
    <3>1. c \in Minted /\ c \in Inserted /\ CallInv /\ TypeOK /\ GateInv /\ IdInv /\ KeyInv
      BY <1>2, <2>1 DEF Commit, Minted, Inserted, IInv
    <3>2. RowOf(c) \in Row
      BY <3>1, RowOfType
    <3>3. RowOf(c).robot = request[c].robot /\ RowOf(c).source = request[c].source
          /\ RowOf(c).id = id[c] /\ RowOf(c).observation = request[c].observation
      BY DEF RowOf
    <3>4. \A y \in telemetry : ~Ledger!SameKey(RowOf(c), y)
      BY <3>1, <3>3 DEF KeyInv, SameKey, Ledger!SameKey
    <3>5. \A y \in outbox : y.id # RowOf(c).id
      BY <3>1, <3>3 DEF IdInv
    <3>6. current' = [current EXCEPT ![RowOf(c).robot] =
                        Ledger!Newest(current[RowOf(c).robot], RowOf(c))]
      <4>1. c \in Upserted
        BY <2>1 DEF Commit, Upserted
      <4> QED BY <2>1, <3>1, <3>3, <4>1
              DEF Commit, GateInv, StrictlyNewer, Ledger!Newest
    <3>7. Ledger!Accept(RowOf(c))
      BY <2>1, <3>4, <3>5, <3>6 DEF Commit, Ledger!Accept
    <3> QED BY <3>2, <3>7 DEF Ledger!Next
  <2>2. ASSUME NEW t \in Times, DeleteTelemetryBefore(t)
        PROVE  Ledger!Next
    <3>1. telemetry \subseteq Row /\ t \in 0..MaxNow /\ TelemetryRetention \in Nat
          /\ MaxNow \in Nat
      BY <1>2, IngestAssumption DEF IInv, TypeOK, Times
    <3>2. \A x \in telemetry : x.receivedAt \in 0..MaxNow
      BY <3>1 DEF Row, Times
    <3>3. t - TelemetryRetention \in Times
      BY <2>2, <3>1, <3>2 DEF DeleteTelemetryBefore, Expired, Times
    <3>4. telemetry' = {x \in telemetry : x.receivedAt >= t - TelemetryRetention}
      BY <2>2, <3>1, <3>2 DEF DeleteTelemetryBefore, Expired
    <3> QED BY <2>2, <3>3, <3>4 DEF Ledger!Next, Ledger!Forget, DeleteTelemetryBefore
  <2>3. CASE UNCHANGED <<telemetry, current, outbox>>
    BY <2>3 DEF Ledger!vars
  <2> QED
    BY <1>2, <2>1, <2>2, <2>3
    DEF Next, Step, Begin, RejectUnknownRobot, RejectConflict, Replay, FindNoHistory,
        AppendTelemetry, FailUnique, UpdateIfNewer, Fail, Tick, vars, db
<1> QED BY <1>1, <1>2, Inductive, PTL DEF Spec, ImplementsLedger, Ledger!Spec


\* The current state of a robot only ever moves to a strictly later recordedAt: the row lock
\* carries the comparison of updateIfNewer to the commit.
THEOREM CurrentMovesForward == Spec => CurrentNeverRegresses
<1>1. ASSUME IInv, [Next]_vars, NEW r \in SeededRobots, current'[r] # current[r]
      PROVE  \/ current[r] = None
             \/ RecordedAt[current'[r].observation] > RecordedAt[current[r].observation]
  <2>1. CASE \A c \in Calls : ~Commit(c)
    BY <1>1, <2>1, QuietStep
  <2>2. ASSUME NEW c \in Calls, Commit(c)
        PROVE  \/ current[r] = None
               \/ RecordedAt[current'[r].observation] > RecordedAt[current[r].observation]
    <3>1. /\ r = request[c].robot
          /\ StrictlyNewer(request[c].observation, current[r]) /\ current'[r] = RowOf(c)
      BY <1>1, <2>2, CommitCurrent DEF IInv
    <3> QED BY <3>1 DEF StrictlyNewer, RowOf
  <2> QED BY <2>1, <2>2
<1>2. IInv /\ [Next]_vars =>
        [\A r \in SeededRobots :
           current'[r] # current[r] =>
             \/ current[r] = None
             \/ RecordedAt[current'[r].observation] > RecordedAt[current[r].observation]]_vars
  BY <1>1
<1> QED BY <1>2, Inductive, PTL DEF Spec, CurrentNeverRegresses

\* The row a lookup finds, or the one a commit writes, is the event the answer is about.
LEMMA AnswerStep ==
  IInv /\ AnswersAreTrue /\ [Next]_vars => AnswersAreTrue'
<1> SUFFICES ASSUME IInv, AnswersAreTrue, [Next]_vars PROVE AnswersAreTrue'
  OBVIOUS
<1>0. telemetry \subseteq outbox
  BY DEF IInv, KeyInv
<1>1. ASSUME NEW c \in Calls, RejectConflict(c) PROVE AnswersAreTrue'
  <2>1. PICK x \in telemetry : SameKey(x, request[c]) /\ x.observation # request[c].observation
    BY <1>1 DEF RejectConflict, FindByRobotIdAndSource, ObservationMatches
  <2>2. outbox' = outbox /\ reply' = [request |-> request[c], answer |-> "conflict"]
    BY <1>1 DEF RejectConflict, Finish, db
  <2> QED BY <1>0, <2>1, <2>2 DEF AnswersAreTrue
<1>2. ASSUME NEW c \in Calls, Replay(c) PROVE AnswersAreTrue'
  <2>1. PICK x \in telemetry : SameKey(x, request[c]) /\ x.observation = request[c].observation
    BY <1>2 DEF Replay, FindByRobotIdAndSource, ObservationMatches
  <2>2. outbox' = outbox /\ reply' = [request |-> request[c], answer |-> "accepted"]
    BY <1>2 DEF Replay, Finish, db
  <2> QED BY <1>0, <2>1, <2>2 DEF AnswersAreTrue
<1>3. ASSUME NEW c \in Calls, FailUnique(c) PROVE AnswersAreTrue'
  <2>1. PICK x \in telemetry : SameKey(x, request[c])
    BY <1>3 DEF FailUnique, FindByRobotIdAndSource
  <2>2. outbox' = outbox /\ reply' = [request |-> request[c], answer |-> "uniqueViolation"]
    BY <1>3 DEF FailUnique, Finish, db
  <2> QED BY <1>0, <2>1, <2>2 DEF AnswersAreTrue
<1>4. ASSUME NEW c \in Calls, Commit(c) PROVE AnswersAreTrue'
  <2>1. RowOf(c) \in outbox' /\ reply' = [request |-> request[c], answer |-> "accepted"]
    BY <1>4 DEF Commit, Finish
  <2>2. SameKey(RowOf(c), request[c]) /\ RowOf(c).observation = request[c].observation
    BY DEF SameKey, RowOf
  <2> QED BY <2>1, <2>2 DEF AnswersAreTrue
<1>5. ASSUME NEW c \in Calls, RejectUnknownRobot(c) \/ Fail(c) PROVE AnswersAreTrue'
  <2>1. reply'.answer = "notFound" \/ reply'.answer = "failed"
    BY <1>5 DEF RejectUnknownRobot, Fail, Finish
  <2> QED BY <2>1 DEF AnswersAreTrue
<1>6. CASE reply' = None
  BY <1>6 DEF AnswersAreTrue
<1>7. CASE UNCHANGED vars
  BY <1>7 DEF vars, db, AnswersAreTrue
<1> QED
  BY <1>1, <1>2, <1>3, <1>4, <1>5, <1>6, <1>7
  DEF Next, Step, Begin, FindNoHistory, AppendTelemetry, UpdateIfNewer, DeleteTelemetryBefore, Tick

\* What the API answers is true: 202 has the event in the outbox, 409 and the violated index
\* have an event under the source id, 409 one with other content.
THEOREM AnswersTrue == Spec => []AnswersAreTrue
<1>1. Init => AnswersAreTrue
  BY DEF Init, AnswersAreTrue
<1> QED BY <1>1, AnswerStep, Inductive, PTL DEF Spec

===============================================================================
