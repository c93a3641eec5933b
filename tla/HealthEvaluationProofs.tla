------------------------- MODULE HealthEvaluationProofs -------------------------
(***************************************************************************)
(* Invariance and refinement proofs for HealthEvaluation, for every number *)
(* of robots, events and handlers, all readings and every retention time.  *)
(***************************************************************************)
EXTENDS HealthEvaluation, TLAPS

Labels == {"idle", "received"} \cup Owning

\* Every variable has its type, and a handler that is busy has an event.
TypeOK ==
  /\ now \in Times
  /\ processedAt \in [Events -> Times \cup {None}]
  /\ health \in [Robots -> HealthState \cup {None}]
  /\ alerts \in [Alert -> Nat]
  /\ pc \in [Handlers -> Labels]
  /\ event \in [Handlers -> Events \cup {None}]
  /\ \A w \in Handlers : pc[w] # "idle" => event[w] \in Events
  /\ previous \in [Handlers -> PreviousLevels]
  /\ wins \in [Handlers -> BOOLEAN]
  /\ settled \in Settlement \cup {None}
  /\ seen \subseteq Events
  /\ applied \subseteq seen

-----------------------------------------------------------------------------
(* The rules *)

\* classifyBattery, classifyTemperature, classifySignal: every reading has a level in
\* every dimension.
LEMMA ClassifyTyped == \A reading : Classify(reading) \in [Dims -> Levels]
BY DEF Classify, Below, Above, Thresholds, Dims, Levels

\* What a robot's health is set to is a health row.
LEMMA StateFromTyped == \A e \in Events : StateFrom(e) \in HealthState /\ StateFrom(e) # None
<1> TAKE e \in Events
<1>1. Classify(Reading[e]) \in [Dims -> Levels]
  BY ClassifyTyped
<1>2. OverallStatus(Classify(Reading[e])) \in {"HEALTHY", "WARNING", "CRITICAL"}
  BY DEF OverallStatus
<1> QED BY <1>1, <1>2, HealthAssumption DEF StateFrom, HealthState

LEMMA LevelsOfTyped ==
  ASSUME NEW state \in HealthState \cup {None}
  PROVE  LevelsOf(state) \in PreviousLevels
BY DEF LevelsOf, HealthState, PreviousLevels, Unread

\* transitionAlert: at most one alert for each dimension, with the level reached.
LEMMA AlertsForTyped ==
  ASSUME NEW e \in Events, NEW p, NEW next \in [Dims -> Levels]
  PROVE  /\ AlertsFor(e, p, next) \subseteq Alert
         /\ \A a \in AlertsFor(e, p, next) :
              /\ a.event = e /\ a.severity = next[a.dim]
              /\ Raises(p[a.dim], next[a.dim])
BY DEF AlertsFor, Alert, Raises

-----------------------------------------------------------------------------
(* Types *)

LEMMA InitTypeOK == Init => TypeOK
<1> SUFFICES ASSUME Init PROVE TypeOK
  OBVIOUS
<1>1. [w \in Handlers |-> Unread] \in [Handlers -> PreviousLevels]
  BY DEF Unread, PreviousLevels
<1>2. now \in Times
  BY HealthAssumption DEF Init, Times
<1>3. /\ processedAt \in [Events -> Times \cup {None}]
      /\ health \in [Robots -> HealthState \cup {None}]
      /\ alerts \in [Alert -> Nat]
      /\ event \in [Handlers -> Events \cup {None}]
      /\ wins \in [Handlers -> BOOLEAN]
  BY DEF Init
<1>4. pc \in [Handlers -> Labels] /\ \A w \in Handlers : pc[w] = "idle"
  BY DEF Init, Labels
<1> QED BY <1>1, <1>2, <1>3, <1>4 DEF Init, TypeOK

\* The answer of a handler that gives its message back.
LEMMA FinishTypes ==
  ASSUME TypeOK, NEW w \in Handlers, NEW answer \in {"complete", "abandon", "deadLetter"},
         Finish(w, answer), pc[w] # "idle"
  PROVE  /\ now' \in Times
         /\ pc' \in [Handlers -> Labels]
         /\ event' \in [Handlers -> Events \cup {None}]
         /\ \A v \in Handlers : pc'[v] # "idle" => event'[v] \in Events
         /\ previous' \in [Handlers -> PreviousLevels]
         /\ wins' \in [Handlers -> BOOLEAN]
         /\ settled' \in Settlement
<1>1. Unread \in PreviousLevels
  BY DEF Unread, PreviousLevels
<1>2. /\ now' \in Times /\ previous' \in [Handlers -> PreviousLevels]
      /\ wins' \in [Handlers -> BOOLEAN] /\ event' \in [Handlers -> Events \cup {None}]
  BY <1>1 DEF Finish, TypeOK
<1>3. pc' \in [Handlers -> Labels] /\ \A v \in Handlers : pc'[v] # "idle" => event'[v] \in Events
  BY DEF Finish, TypeOK, Labels
<1>4. settled' \in Settlement
  BY DEF Finish, TypeOK, Settlements, Settlement
<1> QED BY <1>2, <1>3, <1>4

LEMMA GotoTypes ==
  ASSUME TypeOK, NEW w \in Handlers, NEW label \in Owning, Goto(w, label), pc[w] # "idle"
  PROVE  /\ now' \in Times
         /\ pc' \in [Handlers -> Labels]
         /\ event' \in [Handlers -> Events \cup {None}]
         /\ \A v \in Handlers : pc'[v] # "idle" => event'[v] \in Events
         /\ settled' = None
BY DEF Goto, TypeOK, Labels, Owning

\* The marker of a processed event carries a time, and no other marker changes.
LEMMA ProcessMarks ==
  ASSUME TypeOK, NEW w \in Handlers, event[w] \in Events, Process(w)
  PROVE  /\ processedAt' \in [Events -> Times \cup {None}]
         /\ processedAt'[event[w]] # None
         /\ \A e \in Events \ {event[w]} : processedAt'[e] = processedAt[e]
<1>1. PICK t \in 0..now : processedAt' = [processedAt EXCEPT ![event[w]] = t]
  BY DEF Process
<1>2. t \in Times /\ t # None
  BY HealthAssumption DEF TypeOK, Times
<1>3. processedAt \in [Events -> Times \cup {None}]
  BY DEF TypeOK
<1> QED BY <1>1, <1>2, <1>3

LEMMA NextTypeOK == TypeOK /\ [Next]_vars => TypeOK'
<1> SUFFICES ASSUME TypeOK, [Next]_vars PROVE TypeOK'
  OBVIOUS
<1>a. UNCHANGED db => /\ processedAt' \in [Events -> Times \cup {None}]
                      /\ health' \in [Robots -> HealthState \cup {None}]
                      /\ alerts' \in [Alert -> Nat]
                      /\ seen' \subseteq Events /\ applied' \subseteq seen'
  BY DEF db, TypeOK
<1>b. UNCHANGED previous => previous' \in [Handlers -> PreviousLevels]
  BY DEF TypeOK
<1>c. UNCHANGED wins => wins' \in [Handlers -> BOOLEAN]
  BY DEF TypeOK
<1>1. ASSUME NEW w \in Handlers, NEW e \in Events, Receive(w, e) PROVE TypeOK'
  <2>1. pc' \in [Handlers -> Labels] /\ event' \in [Handlers -> Events \cup {None}]
    BY <1>1 DEF Receive, TypeOK, Labels
  <2>2. \A v \in Handlers : pc'[v] # "idle" => event'[v] \in Events
    BY <1>1 DEF Receive, TypeOK
  <2> QED BY <1>1, <1>a, <1>b, <1>c, <2>1, <2>2 DEF Receive, TypeOK
<1>2. ASSUME NEW w \in Handlers, RejectMalformed(w) \/ Duplicate(w) \/ Abandon(w) PROVE TypeOK'
  <2>1. /\ UNCHANGED db /\ pc[w] # "idle"
        /\ \E answer \in {"complete", "abandon", "deadLetter"} : Finish(w, answer)
    BY <1>2 DEF RejectMalformed, Duplicate, Abandon
  <2> QED BY <2>1, <1>a, FinishTypes DEF TypeOK
<1>3. ASSUME NEW w \in Handlers, TryBeginProcessing(w) \/ LockById(w) PROVE TypeOK'
  <2>1. /\ UNCHANGED <<db, previous, wins>> /\ pc[w] # "idle"
        /\ \E label \in Owning : Goto(w, label)
    BY <1>3 DEF TryBeginProcessing, LockById, Owning
  <2> QED BY <2>1, <1>a, <1>b, <1>c, GotoTypes DEF TypeOK
<1>4. ASSUME NEW w \in Handlers, FindForUpdate(w) PROVE TypeOK'
  <2>1. /\ UNCHANGED <<db, wins>> /\ pc[w] # "idle" /\ \E label \in Owning : Goto(w, label)
    BY <1>4 DEF FindForUpdate, Owning
  <2>2. event[w] \in Events
    BY <2>1 DEF TypeOK
  <2>3. health[RobotOf[event[w]]] \in HealthState \cup {None}
    BY <2>2, HealthAssumption DEF TypeOK
  <2>4. previous' \in [Handlers -> PreviousLevels]
    BY <1>4, <2>3, LevelsOfTyped DEF FindForUpdate, TypeOK
  <2> QED BY <2>1, <2>4, <1>a, <1>c, GotoTypes DEF TypeOK
<1>5. ASSUME NEW w \in Handlers, Write(w) PROVE TypeOK'
  <2>1. /\ UNCHANGED <<db, previous>> /\ pc[w] # "idle" /\ \E label \in Owning : Goto(w, label)
    BY <1>5 DEF Write, Owning
  <2>2. wins' \in [Handlers -> BOOLEAN]
    BY <1>5 DEF Write, TypeOK, NotNewer
  <2> QED BY <2>1, <2>2, <1>a, <1>b, GotoTypes DEF TypeOK
<1>6. ASSUME NEW w \in Handlers, CommitStale(w) PROVE TypeOK'
  <2>1. /\ event[w] \in Events /\ Finish(w, "complete") /\ pc[w] # "idle"
    BY <1>6 DEF CommitStale, TypeOK
  <2>2. /\ processedAt' \in [Events -> Times \cup {None}]
        /\ health' \in [Robots -> HealthState \cup {None}]
        /\ alerts' \in [Alert -> Nat]
        /\ seen' \subseteq Events /\ applied' \subseteq seen'
    BY <1>6, <2>1, ProcessMarks DEF CommitStale, TypeOK
  <2> QED BY <2>1, <2>2, FinishTypes DEF TypeOK
<1>7. ASSUME NEW w \in Handlers, Commit(w) PROVE TypeOK'
  <2>1. /\ event[w] \in Events /\ Finish(w, "complete") /\ pc[w] # "idle"
    BY <1>7 DEF Commit, TypeOK
  <2>2. /\ processedAt' \in [Events -> Times \cup {None}]
        /\ seen' \subseteq Events /\ applied' \subseteq seen'
    BY <1>7, <2>1, ProcessMarks DEF Commit, TypeOK
  <2>3. health' \in [Robots -> HealthState \cup {None}]
    BY <1>7, <2>1, StateFromTyped DEF Commit, TypeOK
  <2>4. alerts' \in [Alert -> Nat]
    BY <1>7 DEF Commit, AppendAlerts, TypeOK
  <2> QED BY <2>1, <2>2, <2>3, <2>4, FinishTypes DEF TypeOK
<1>8. ASSUME NEW t \in Times, DeleteProcessedBefore(t) PROVE TypeOK'
  BY <1>8 DEF DeleteProcessedBefore, TypeOK, handler
<1>9. CASE Tick
  <2>1. now' \in Times
    BY <1>9, HealthAssumption DEF Tick, TypeOK, Times
  <2> QED BY <1>9, <2>1, <1>a DEF Tick, TypeOK, handler
<1>10. CASE UNCHANGED vars
  BY <1>10, <1>a DEF vars, handler, TypeOK
<1> QED
  BY <1>1, <1>2, <1>3, <1>4, <1>5, <1>6, <1>7, <1>8, <1>9, <1>10 DEF Next, Step

\* Type correctness: every variable keeps its type, and whoever is busy has an event.
THEOREM TypeCorrect == Spec => []TypeOK
BY InitTypeOK, NextTypeOK, PTL DEF Spec

-----------------------------------------------------------------------------
(* What open transactions hold *)

\* Two open transactions never own the same event, and an owned event has no committed
\* marker; a committed marker is that of a processed event.
InboxInv ==
  /\ \A w \in Handlers : pc[w] \in Owning => processedAt[event[w]] = None
  /\ \A v, w \in Handlers : v # w /\ pc[v] \in Owning /\ pc[w] \in Owning => event[v] # event[w]
  /\ \A e \in Events : processedAt[e] # None => e \in seen

Locking == {"locked", "stale", "evaluated", "written"}

\* Two open transactions never have the row of the same robot.
RobotInv ==
  \A v, w \in Handlers :
    v # w /\ pc[v] \in Locking /\ pc[w] \in Locking => RobotOf[event[v]] # RobotOf[event[w]]

\* What a transaction has read of its robot's health is still so.
GateInv ==
  \A w \in Handlers :
    LET state == health[RobotOf[event[w]]] IN
    /\ pc[w] = "stale" => NotNewer(event[w], state)
    /\ pc[w] \in {"evaluated", "written"} =>
         ~NotNewer(event[w], state) /\ previous[w] = LevelsOf(state)
    /\ pc[w] = "written" => wins[w]

WorkInv == InboxInv /\ RobotInv /\ GateInv

\* A handler that is done holds nothing any more.
LEMMA FinishHolds ==
  ASSUME TypeOK, NEW w \in Handlers, NEW answer, Finish(w, answer)
  PROVE  /\ pc'[w] = "idle"
         /\ \A v \in Handlers \ {w} :
              pc'[v] = pc[v] /\ event'[v] = event[v] /\ previous'[v] = previous[v]
              /\ wins'[v] = wins[v]
BY DEF Finish, TypeOK

LEMMA GotoHolds ==
  ASSUME TypeOK, NEW w \in Handlers, NEW label, Goto(w, label)
  PROVE  /\ pc'[w] = label /\ event' = event
         /\ \A v \in Handlers \ {w} : pc'[v] = pc[v]
BY DEF Goto, TypeOK

\* A handler that finishes without a commit leaves the others what they had.
LEMMA FinishKeeps ==
  ASSUME TypeOK, WorkInv, NEW w \in Handlers, NEW answer, Finish(w, answer), UNCHANGED db
  PROVE  WorkInv'
<1>1. UNCHANGED <<processedAt, health, seen>>
  BY DEF db
<1>2. InboxInv'
  BY <1>1, FinishHolds DEF WorkInv, InboxInv, Owning
<1>3. RobotInv'
  BY <1>1, FinishHolds DEF WorkInv, RobotInv, Locking
<1>4. GateInv'
  BY <1>1, FinishHolds DEF WorkInv, GateInv
<1> QED BY <1>2, <1>3, <1>4 DEF WorkInv

\* A commit takes its own locks away and changes only rows it had locked.
LEMMA CommitKeeps ==
  ASSUME TypeOK, WorkInv, NEW w \in Handlers, Finish(w, "complete"), Process(w),
         pc[w] \in Locking, seen' = seen \cup {event[w]},
         \A r \in Robots : r # RobotOf[event[w]] => health'[r] = health[r]
  PROVE  WorkInv'
<1>1. /\ event[w] \in Events /\ RobotOf[event[w]] \in Robots /\ pc[w] \in Owning
  BY HealthAssumption DEF TypeOK, Locking, Owning
<1>2. /\ processedAt'[event[w]] # None
      /\ \A e \in Events \ {event[w]} : processedAt'[e] = processedAt[e]
  BY <1>1, ProcessMarks
<1>3. InboxInv'
  <2>1. \A v \in Handlers : pc'[v] \in Owning => processedAt'[event'[v]] = None
    <3> SUFFICES ASSUME NEW v \in Handlers, pc'[v] \in Owning
                 PROVE  processedAt'[event'[v]] = None
      OBVIOUS
    <3>1. v # w
      BY FinishHolds DEF Owning
    <3>2. pc[v] \in Owning /\ event'[v] = event[v] /\ event[v] \in Events
      BY <3>1, FinishHolds DEF TypeOK, Owning
    <3> QED BY <1>1, <1>2, <3>1, <3>2 DEF WorkInv, InboxInv
  <2>2. \A u, v \in Handlers :
          u # v /\ pc'[u] \in Owning /\ pc'[v] \in Owning => event'[u] # event'[v]
    BY FinishHolds DEF WorkInv, InboxInv, Owning
  <2>3. \A e \in Events : processedAt'[e] # None => e \in seen'
    BY <1>2 DEF WorkInv, InboxInv
  <2> QED BY <2>1, <2>2, <2>3 DEF InboxInv
<1>4. RobotInv'
  BY FinishHolds DEF WorkInv, RobotInv, Locking
<1>5. GateInv'
  <2> SUFFICES ASSUME NEW v \in Handlers, pc'[v] \in {"stale", "evaluated", "written"}
               PROVE  /\ health'[RobotOf[event'[v]]] = health[RobotOf[event[v]]]
                      /\ pc'[v] = pc[v] /\ event'[v] = event[v]
                      /\ previous'[v] = previous[v] /\ wins'[v] = wins[v]
    BY DEF WorkInv, GateInv
  <2>1. v # w
    BY FinishHolds
  <2>2. /\ pc'[v] = pc[v] /\ event'[v] = event[v]
        /\ previous'[v] = previous[v] /\ wins'[v] = wins[v]
    BY <2>1, FinishHolds
  <2>3. RobotOf[event[v]] # RobotOf[event[w]]
    BY <2>1, <2>2 DEF WorkInv, RobotInv, Locking
  <2>4. RobotOf[event[v]] \in Robots
    BY <2>2, HealthAssumption DEF TypeOK
  <2> QED BY <2>2, <2>3, <2>4
<1> QED BY <1>3, <1>4, <1>5 DEF WorkInv

LEMMA InitWorkInv == Init => WorkInv
BY DEF Init, WorkInv, InboxInv, RobotInv, GateInv, Owning, Locking

\* The locks, taken one after the other, keep what a transaction has read.
LEMMA NextWorkInv == TypeOK /\ WorkInv /\ [Next]_vars => WorkInv'
<1> SUFFICES ASSUME TypeOK, WorkInv, [Next]_vars PROVE WorkInv'
  OBVIOUS
<1>1. ASSUME NEW w \in Handlers, NEW e \in Events, Receive(w, e) PROVE WorkInv'
  <2>1. /\ pc'[w] = "received" /\ UNCHANGED <<processedAt, health, seen, previous, wins>>
        /\ \A v \in Handlers \ {w} : pc'[v] = pc[v] /\ event'[v] = event[v]
    BY <1>1 DEF Receive, TypeOK, db
  <2>2. InboxInv'
    BY <2>1 DEF WorkInv, InboxInv, Owning
  <2>3. RobotInv'
    BY <2>1 DEF WorkInv, RobotInv, Locking
  <2>4. GateInv'
    BY <2>1 DEF WorkInv, GateInv
  <2> QED BY <2>2, <2>3, <2>4 DEF WorkInv
<1>2. ASSUME NEW w \in Handlers, RejectMalformed(w) \/ Duplicate(w) \/ Abandon(w) PROVE WorkInv'
  BY <1>2, FinishKeeps DEF RejectMalformed, Duplicate, Abandon
<1>3. ASSUME NEW w \in Handlers, TryBeginProcessing(w) PROVE WorkInv'
  <2>1. /\ UNCHANGED <<processedAt, health, seen, previous, wins, event>>
        /\ pc'[w] = "owned" /\ \A v \in Handlers \ {w} : pc'[v] = pc[v]
        /\ processedAt[event[w]] = None
        /\ \A v \in Handlers \ {w} : ~(pc[v] \in Owning /\ event[v] = event[w])
    BY <1>3, GotoHolds DEF TryBeginProcessing, HoldsInbox, db
  <2>2. InboxInv'
    BY <2>1 DEF WorkInv, InboxInv
  <2>3. RobotInv'
    BY <2>1 DEF WorkInv, RobotInv, Locking
  <2>4. GateInv'
    BY <2>1 DEF WorkInv, GateInv
  <2> QED BY <2>2, <2>3, <2>4 DEF WorkInv
<1>4. ASSUME NEW w \in Handlers, LockById(w) PROVE WorkInv'
  <2>1. /\ UNCHANGED <<processedAt, health, seen, previous, wins, event>>
        /\ pc[w] = "owned" /\ pc'[w] = "locked" /\ \A v \in Handlers \ {w} : pc'[v] = pc[v]
        /\ \A v \in Handlers \ {w} :
             ~(pc[v] \in Locking /\ RobotOf[event[v]] = RobotOf[event[w]])
    BY <1>4, GotoHolds DEF LockById, HoldsRobot, Locking, db
  <2>2. InboxInv'
    BY <2>1 DEF WorkInv, InboxInv, Owning
  <2>3. RobotInv'
    BY <2>1 DEF WorkInv, RobotInv
  <2>4. GateInv'
    BY <2>1 DEF WorkInv, GateInv
  <2> QED BY <2>2, <2>3, <2>4 DEF WorkInv
<1>5. ASSUME NEW w \in Handlers, FindForUpdate(w) PROVE WorkInv'
  <2> DEFINE state == health[RobotOf[event[w]]]
  <2>1. /\ UNCHANGED <<processedAt, health, seen, wins, event>>
        /\ pc[w] = "locked" /\ \A v \in Handlers \ {w} : pc'[v] = pc[v]
        /\ pc'[w] = IF NotNewer(event[w], state) THEN "stale" ELSE "evaluated"
        /\ previous' = [previous EXCEPT ![w] = LevelsOf(state)]
    BY <1>5, GotoHolds DEF FindForUpdate, db
  <2>2. InboxInv'
    BY <2>1 DEF WorkInv, InboxInv, Owning
  <2>3. RobotInv'
    BY <2>1 DEF WorkInv, RobotInv, Locking
  <2>4. GateInv'
    BY <2>1 DEF WorkInv, GateInv, TypeOK
  <2> QED BY <2>2, <2>3, <2>4 DEF WorkInv
<1>6. ASSUME NEW w \in Handlers, Write(w) PROVE WorkInv'
  <2> DEFINE state == health[RobotOf[event[w]]]
  <2>1. /\ UNCHANGED <<processedAt, health, seen, previous, event>>
        /\ pc[w] = "evaluated" /\ pc'[w] = "written" /\ \A v \in Handlers \ {w} : pc'[v] = pc[v]
        /\ wins' = [wins EXCEPT ![w] = ~NotNewer(event[w], state)]
    BY <1>6, GotoHolds DEF Write, db
  <2>2. InboxInv'
    BY <2>1 DEF WorkInv, InboxInv, Owning
  <2>3. RobotInv'
    BY <2>1 DEF WorkInv, RobotInv, Locking
  <2>4. ~NotNewer(event[w], state)
    BY <2>1 DEF WorkInv, GateInv
  <2>5. GateInv'
    BY <2>1, <2>4 DEF WorkInv, GateInv, TypeOK
  <2> QED BY <2>2, <2>3, <2>5 DEF WorkInv
<1>7. ASSUME NEW w \in Handlers, CommitStale(w) PROVE WorkInv'
  BY <1>7, CommitKeeps DEF CommitStale, Locking
<1>8. ASSUME NEW w \in Handlers, Commit(w) PROVE WorkInv'
  <2>1. \A r \in Robots : r # RobotOf[event[w]] => health'[r] = health[r]
    BY <1>8 DEF Commit, TypeOK
  <2> QED BY <1>8, <2>1, CommitKeeps DEF Commit, Locking
<1>9. ASSUME NEW t \in Times, DeleteProcessedBefore(t) PROVE WorkInv'
  <2>1. /\ UNCHANGED <<health, seen, pc, event, previous, wins>>
        /\ \A e \in Events : processedAt'[e] \in {None, processedAt[e]}
    BY <1>9 DEF DeleteProcessedBefore, handler
  <2>2. InboxInv'
    BY <2>1 DEF WorkInv, InboxInv, TypeOK, Owning
  <2> QED BY <2>1, <2>2 DEF WorkInv, RobotInv, GateInv
<1>10. CASE Tick \/ UNCHANGED vars
  BY <1>10 DEF Tick, vars, db, handler, WorkInv, InboxInv, RobotInv, GateInv
<1> QED
  BY <1>1, <1>2, <1>3, <1>4, <1>5, <1>6, <1>7, <1>8, <1>9, <1>10 DEF Next, Step

-----------------------------------------------------------------------------
(* What commits write *)

\* A health row has the levels of the event it comes from, and no two applied events of a
\* robot have the same recordedAt.
RecordInv ==
  /\ HealthIsNewest
  /\ \A r \in Robots : health[r] # None => health[r].levels = Classify(Reading[health[r].from])
  /\ \A e, f \in applied :
       RobotOf[e] = RobotOf[f] /\ EventRecordedAt[e] = EventRecordedAt[f] => e = f

\* An evaluation that commits is the newest of its robot, and the health it replaces is
\* the one it has compared its levels with.
LEMMA CommitEffect ==
  ASSUME TypeOK, WorkInv, RecordInv, NEW w \in Handlers, Commit(w)
  PROVE  LET e == event[w]
             r == RobotOf[e]
         IN  /\ e \in Events /\ r \in Robots
             /\ health' = [health EXCEPT ![r] = StateFrom(e)]
             /\ ~NotNewer(e, health[r]) /\ previous[w] = LevelsOf(health[r])
             /\ applied' = applied \cup {e} /\ seen' = seen \cup {e}
             /\ \A f \in seen : RobotOf[f] = r => EventRecordedAt[f] < EventRecordedAt[e]
<1> DEFINE e == event[w]
           r == RobotOf[e]
<1>1. e \in Events /\ r \in Robots
  BY HealthAssumption DEF Commit, TypeOK
<1>2. wins[w] /\ ~NotNewer(e, health[r]) /\ previous[w] = LevelsOf(health[r])
  BY DEF Commit, WorkInv, GateInv
<1>3. /\ health' = [health EXCEPT ![r] = StateFrom(e)]
      /\ applied' = applied \cup {e} /\ seen' = seen \cup {e}
  BY <1>2 DEF Commit
<1>4. ASSUME NEW f \in seen, RobotOf[f] = r PROVE EventRecordedAt[f] < EventRecordedAt[e]
  <2>1. health[r] # None /\ EventRecordedAt[health[r].from] >= EventRecordedAt[f]
    BY <1>4 DEF RecordInv, HealthIsNewest
  <2>2. health[r].from \in Events /\ f \in Events
    BY <1>1, <2>1 DEF TypeOK, RecordInv, HealthIsNewest
  <2>3. /\ EventRecordedAt[health[r].from] \in Int /\ EventRecordedAt[f] \in Int
        /\ EventRecordedAt[e] \in Int
    BY <1>1, <2>2, HealthAssumption
  <2>4. EventRecordedAt[e] > EventRecordedAt[health[r].from]
    BY <1>2, <2>1, <2>3 DEF NotNewer
  <2> QED BY <2>1, <2>3, <2>4
<1> QED BY <1>1, <1>2, <1>3, <1>4

\* A delivery that found its robot's health as new commits only its marker.
LEMMA CommitStaleEffect ==
  ASSUME TypeOK, WorkInv, NEW w \in Handlers, CommitStale(w)
  PROVE  /\ event[w] \in Events /\ NotNewer(event[w], health[RobotOf[event[w]]])
         /\ seen' = seen \cup {event[w]} /\ UNCHANGED <<health, alerts, applied>>
BY DEF CommitStale, TypeOK, WorkInv, GateInv

LEMMA InitRecordInv == Init => RecordInv
BY DEF Init, RecordInv, HealthIsNewest

LEMMA NextRecordInv == TypeOK /\ WorkInv /\ RecordInv /\ [Next]_vars => RecordInv'
<1> SUFFICES ASSUME TypeOK, WorkInv, RecordInv, [Next]_vars PROVE RecordInv'
  OBVIOUS
<1>1. CASE UNCHANGED <<health, seen, applied>>
  BY <1>1 DEF RecordInv, HealthIsNewest
<1>2. ASSUME NEW w \in Handlers, CommitStale(w) PROVE RecordInv'
  <2>1. RobotOf[event[w]] \in Robots
    BY <1>2, CommitStaleEffect, HealthAssumption
  <2>2. /\ health[RobotOf[event[w]]] # None
        /\ health[RobotOf[event[w]]].from \in Events
        /\ EventRecordedAt[event[w]] <= EventRecordedAt[health[RobotOf[event[w]]].from]
    BY <1>2, <2>1, CommitStaleEffect DEF NotNewer, RecordInv, HealthIsNewest, TypeOK
  <2>3. EventRecordedAt[health[RobotOf[event[w]]].from] >= EventRecordedAt[event[w]]
    BY <1>2, <2>2, CommitStaleEffect, HealthAssumption
  <2> QED BY <1>2, <2>2, <2>3, CommitStaleEffect DEF RecordInv, HealthIsNewest
<1>3. ASSUME NEW w \in Handlers, Commit(w) PROVE RecordInv'
  <2> DEFINE e == event[w]
             r == RobotOf[e]
  <2>1. /\ e \in Events /\ r \in Robots
        /\ health' = [health EXCEPT ![r] = StateFrom(e)]
        /\ applied' = applied \cup {e} /\ seen' = seen \cup {e}
        /\ \A f \in seen : RobotOf[f] = r => EventRecordedAt[f] < EventRecordedAt[e]
    BY <1>3, CommitEffect
  <2> HIDE DEF e
  <2>2. /\ health'[r] = StateFrom(e) /\ health'[r] # None /\ StateFrom(e).from = e
        /\ StateFrom(e).levels = Classify(Reading[e])
        /\ \A q \in Robots : q # r => health'[q] = health[q]
    BY <2>1, StateFromTyped DEF TypeOK, StateFrom
  <2>3. \A f \in Events : EventRecordedAt[f] \in Int /\ RobotOf[f] \in Robots
    BY HealthAssumption
  <2>4. \A q \in Robots : health'[q] # None =>
          /\ health'[q].from \in applied' /\ RobotOf[health'[q].from] = q
          /\ health'[q].levels = Classify(Reading[health'[q].from])
    BY <2>1, <2>2 DEF RecordInv, HealthIsNewest
  <2>5. ASSUME NEW f \in seen'
        PROVE  /\ health'[RobotOf[f]] # None
               /\ EventRecordedAt[health'[RobotOf[f]].from] >= EventRecordedAt[f]
    <3>1. CASE RobotOf[f] = r
      <4>1. EventRecordedAt[e] >= EventRecordedAt[f]
        BY <2>1, <2>3, <2>5, <3>1 DEF TypeOK
      <4> QED BY <2>2, <3>1, <4>1
    <3>2. CASE RobotOf[f] # r
      BY <2>1, <2>2, <2>3, <2>5, <3>2 DEF TypeOK, RecordInv, HealthIsNewest
    <3> QED BY <3>1, <3>2
  <2>6. \A f, g \in applied' :
          RobotOf[f] = RobotOf[g] /\ EventRecordedAt[f] = EventRecordedAt[g] => f = g
    BY <2>1, <2>3 DEF RecordInv, TypeOK
  <2> QED BY <2>4, <2>5, <2>6 DEF RecordInv, HealthIsNewest
<1> QED
  BY <1>1, <1>2, <1>3
  DEF Next, Step, Receive, RejectMalformed, TryBeginProcessing, Duplicate, LockById,
      FindForUpdate, Write, Abandon, DeleteProcessedBefore, Tick, db, vars

\* A message is completed by the commit of its event, or because a marker shows an
\* earlier one.
LEMMA NextCompleted ==
  TypeOK /\ WorkInv /\ CompletedIsProcessed /\ [Next]_vars => CompletedIsProcessed'
<1> SUFFICES ASSUME TypeOK, WorkInv, CompletedIsProcessed, [Next]_vars
             PROVE  CompletedIsProcessed'
  OBVIOUS
<1>1. CASE settled' = None
  BY <1>1 DEF CompletedIsProcessed
<1>2. ASSUME NEW w \in Handlers, RejectMalformed(w) \/ Abandon(w) PROVE CompletedIsProcessed'
  <2>1. settled'.action \in {"deadLetter", "abandon"}
    BY <1>2 DEF RejectMalformed, Abandon, Finish, Settlements
  <2> QED BY <2>1 DEF CompletedIsProcessed
<1>3. ASSUME NEW w \in Handlers, Duplicate(w) \/ CommitStale(w) \/ Commit(w)
      PROVE  CompletedIsProcessed'
  <2>1. settled'.event = event[w] /\ event[w] \in Events
    BY <1>3 DEF Duplicate, CommitStale, Commit, Finish, TypeOK
  <2>2. event[w] \in seen'
    BY <1>3, <2>1 DEF Duplicate, CommitStale, Commit, IsDuplicate, WorkInv, InboxInv, db
  <2> QED BY <2>1, <2>2 DEF CompletedIsProcessed
<1>4. CASE UNCHANGED vars
  BY <1>4 DEF vars, db, CompletedIsProcessed
<1> QED
  BY <1>1, <1>2, <1>3, <1>4
  DEF Next, Step, Receive, TryBeginProcessing, LockById, FindForUpdate, Write, Goto,
      DeleteProcessedBefore, Tick

-----------------------------------------------------------------------------
(* Alerts *)

\* The levels before an evaluation that commits are those of the health it replaces.
LEMMA LevelsReplaced ==
  ASSUME TypeOK, RecordInv, NEW e \in Events,
         \A f \in seen : RobotOf[f] = RobotOf[e] => EventRecordedAt[f] < EventRecordedAt[e],
         applied' = applied \cup {e}
  PROVE  LevelsBefore(e)' = {LevelsOf(health[RobotOf[e]])}
<1> DEFINE r == RobotOf[e]
           past == {f \in applied : RobotOf[f] = r}
<1>1. r \in Robots /\ \A f \in Events : EventRecordedAt[f] \in Int
  BY HealthAssumption
<1>2. Earlier(e)' = past
  BY <1>1 DEF Earlier, TypeOK
<1>3. CASE health[r] = None
  <2>1. past = {}
    BY <1>3 DEF RecordInv, HealthIsNewest, TypeOK
  <2> QED BY <1>2, <1>3, <2>1 DEF LevelsBefore, LevelsOf
<1>4. CASE health[r] # None
  <2> DEFINE newest == {g \in past : \A h \in past : EventRecordedAt[h] <= EventRecordedAt[g]}
  <2>1. health[r].from \in past
    BY <1>1, <1>4 DEF RecordInv, HealthIsNewest
  <2>2. \A h \in past : EventRecordedAt[h] <= EventRecordedAt[health[r].from]
    BY <1>1, <1>4 DEF RecordInv, HealthIsNewest, TypeOK
  <2>3. newest = {health[r].from}
    <3>1. health[r].from \in newest
      BY <2>1, <2>2
    <3>2. ASSUME NEW g \in newest PROVE g = health[r].from
      <4>1. EventRecordedAt[g] = EventRecordedAt[health[r].from]
        BY <1>1, <2>1, <2>2 DEF TypeOK
      <4> QED BY <2>1, <4>1 DEF RecordInv
    <3> QED BY <3>1, <3>2
  <2>4. LevelsBefore(e)' = {Classify(Reading[f]) : f \in newest}
    BY <1>2, <2>1 DEF LevelsBefore
  <2>5. {Classify(Reading[f]) : f \in newest} = {Classify(Reading[health[r].from])}
    BY <2>3
  <2> QED BY <1>1, <1>4, <2>4, <2>5 DEF RecordInv, LevelsOf
<1> QED BY <1>3, <1>4

\* A new evaluation changes nothing for those before it in recorded time.
LEMMA LevelsKept ==
  ASSUME TypeOK, NEW e \in Events, NEW f \in applied,
         \A g \in seen : RobotOf[g] = RobotOf[e] => EventRecordedAt[g] < EventRecordedAt[e],
         applied' = applied \cup {e}
  PROVE  LevelsBefore(f)' = LevelsBefore(f)
<1>1. Earlier(f)' = Earlier(f)
  BY HealthAssumption DEF Earlier, TypeOK
<1> QED BY <1>1 DEF LevelsBefore

LEMMA InitTransitions == Init => AlertsAreTheTransitions
BY DEF Init, AlertsAreTheTransitions

LEMMA NextTransitions ==
  TypeOK /\ WorkInv /\ RecordInv /\ AlertsAreTheTransitions /\ [Next]_vars
    => AlertsAreTheTransitions'
<1> SUFFICES ASSUME TypeOK, WorkInv, RecordInv, AlertsAreTheTransitions, [Next]_vars
             PROVE  AlertsAreTheTransitions'
  OBVIOUS
<1>1. CASE UNCHANGED <<alerts, applied>>
  BY <1>1 DEF AlertsAreTheTransitions, LevelsBefore, Earlier
<1>2. ASSUME NEW w \in Handlers, Commit(w) PROVE AlertsAreTheTransitions'
  <2>e. PICK e \in Events : e = event[w]
    BY <1>2, CommitEffect
  <2> DEFINE levels == LevelsOf(health[RobotOf[e]])
             next == Classify(Reading[e])
  <2>1. /\ previous[w] = levels /\ applied' = applied \cup {e}
        /\ \A f \in seen : RobotOf[f] = RobotOf[e] => EventRecordedAt[f] < EventRecordedAt[e]
    BY <1>2, <2>e, CommitEffect
  <2>2. \A a \in Alert : alerts'[a] =
          IF a \in AlertsFor(e, levels, next) THEN alerts[a] + 1 ELSE alerts[a]
    BY <1>2, <2>e, <2>1 DEF Commit, AppendAlerts
  <2>3. e \notin applied
    BY <2>1, HealthAssumption DEF TypeOK
  <2>4. \A a \in AlertsFor(e, levels, next) : a.event = e
    BY DEF AlertsFor
  <2>5. LevelsBefore(e)' = {levels}
    BY <2>1, LevelsReplaced
  <2>6. \A f \in applied : LevelsBefore(f)' = LevelsBefore(f)
    BY <2>1, LevelsKept
  <2> HIDE DEF levels, next
  <2> SUFFICES ASSUME NEW a \in Alert
               PROVE  alerts'[a] =
                        IF /\ a.event \in applied'
                           /\ \E p \in LevelsBefore(a.event)' :
                                a \in AlertsFor(a.event, p, Classify(Reading[a.event]))
                        THEN 1 ELSE 0
    BY DEF AlertsAreTheTransitions
  <2>7. CASE a.event = e
    <3>1. alerts[a] = 0
      BY <2>3, <2>7 DEF AlertsAreTheTransitions
    <3>2. (\E p \in LevelsBefore(a.event)' :
             a \in AlertsFor(a.event, p, Classify(Reading[a.event])))
            <=> a \in AlertsFor(e, levels, next)
      BY <2>5, <2>7 DEF next
    <3> QED BY <2>1, <2>2, <2>7, <3>1, <3>2
  <2>8. CASE a.event # e
    <3>1. alerts'[a] = alerts[a]
      BY <2>2, <2>4, <2>8
    <3>2. a.event \in applied' <=> a.event \in applied
      BY <2>1, <2>8
    <3> QED BY <2>6, <3>1, <3>2 DEF AlertsAreTheTransitions
  <2> QED BY <2>7, <2>8
<1> QED
  BY <1>1, <1>2
  DEF Next, Step, Receive, RejectMalformed, TryBeginProcessing, Duplicate, LockById,
      FindForUpdate, Write, CommitStale, Abandon, DeleteProcessedBefore, Tick, db, vars

\* Two critical alerts of a dimension cannot follow each other without a better level in
\* between: the later one was raised against the newest level before it.
LEMMA StretchFromTransitions ==
  TypeOK /\ RecordInv /\ AlertsAreTheTransitions => CriticalStretchAlertsOnce
<1> SUFFICES ASSUME TypeOK, RecordInv, AlertsAreTheTransitions,
                    NEW a \in Alert, NEW b \in Alert, alerts[a] > 0, alerts[b] > 0,
                    a.severity = "CRITICAL", b.severity = "CRITICAL", a.dim = b.dim,
                    RobotOf[a.event] = RobotOf[b.event],
                    EventRecordedAt[a.event] < EventRecordedAt[b.event]
             PROVE  \E f \in applied :
                      /\ RobotOf[f] = RobotOf[a.event]
                      /\ EventRecordedAt[a.event] < EventRecordedAt[f]
                      /\ EventRecordedAt[f] < EventRecordedAt[b.event]
                      /\ Classify(Reading[f])[a.dim] # "CRITICAL"
  BY DEF CriticalStretchAlertsOnce
<1>1. /\ a.event \in applied /\ b.event \in applied
      /\ \E p \in LevelsBefore(a.event) :
           a \in AlertsFor(a.event, p, Classify(Reading[a.event]))
      /\ \E p \in LevelsBefore(b.event) :
           b \in AlertsFor(b.event, p, Classify(Reading[b.event]))
  BY DEF AlertsAreTheTransitions
<1>2. Classify(Reading[a.event])[a.dim] = "CRITICAL"
  BY <1>1, ClassifyTyped, AlertsForTyped DEF TypeOK
<1>3. PICK p \in LevelsBefore(b.event) :
        b \in AlertsFor(b.event, p, Classify(Reading[b.event]))
  BY <1>1
<1>4. p[a.dim] # "CRITICAL"
  BY <1>1, <1>3, ClassifyTyped, AlertsForTyped DEF TypeOK, Raises
<1>5. a.event \in Earlier(b.event)
  BY <1>1 DEF Earlier
<1>6. PICK f \in Earlier(b.event) :
        /\ p = Classify(Reading[f])
        /\ \A h \in Earlier(b.event) : EventRecordedAt[h] <= EventRecordedAt[f]
  BY <1>3, <1>5 DEF LevelsBefore
<1>7. f # a.event /\ EventRecordedAt[f] # EventRecordedAt[a.event]
  BY <1>1, <1>2, <1>4, <1>6 DEF Earlier, RecordInv
<1>8. EventRecordedAt[f] \in Int /\ EventRecordedAt[a.event] \in Int
  BY <1>1, HealthAssumption DEF TypeOK, Earlier
<1>9. EventRecordedAt[a.event] < EventRecordedAt[f]
  BY <1>5, <1>6, <1>7, <1>8
<1> QED BY <1>4, <1>6, <1>9 DEF Earlier

-----------------------------------------------------------------------------
(* The theorems *)

IInv == TypeOK /\ WorkInv /\ RecordInv /\ CompletedIsProcessed /\ AlertsAreTheTransitions

LEMMA Inductive == Spec => []IInv
<1>1. Init => IInv
  <2>1. Init => CompletedIsProcessed
    BY DEF Init, CompletedIsProcessed
  <2> QED BY <2>1, InitTypeOK, InitWorkInv, InitRecordInv, InitTransitions DEF IInv
<1>2. IInv /\ [Next]_vars => IInv'
  BY NextTypeOK, NextWorkInv, NextRecordInv, NextCompleted, NextTransitions DEF IInv
<1> QED BY <1>1, <1>2, PTL DEF Spec

\* updateIfNewer and the gate: whatever the order, repetition and concurrency of deliveries,
\* a robot's health is that of its newest processed event.
THEOREM HealthNewest == Spec => []HealthIsNewest
<1>1. IInv => HealthIsNewest
  BY DEF IInv, RecordInv
<1> QED BY <1>1, Inductive, PTL

\* tryBeginProcessing: no message leaves the queue as completed before the processing of
\* its event has committed.
THEOREM CompletedProcessed == Spec => []CompletedIsProcessed
<1>1. IInv => CompletedIsProcessed
  BY DEF IInv
<1> QED BY <1>1, Inductive, PTL

\* lockById and the gate: the alert table is a function of the applied evaluations in
\* recorded order, whatever retention and redelivery did.
THEOREM AlertsAreTransitions == Spec => []AlertsAreTheTransitions
<1>1. IInv => AlertsAreTheTransitions
  BY DEF IInv
<1> QED BY <1>1, Inductive, PTL

\* docs/adr/0012: one critical stretch of one dimension raises one critical alert.
THEOREM OneAlertPerStretch == Spec => []CriticalStretchAlertsOnce
<1>1. IInv => CriticalStretchAlertsOnce
  BY StretchFromTransitions DEF IInv
<1> QED BY <1>1, Inductive, PTL

\* The ledger's rules are those of this module.
LEMMA SameRules ==
  /\ Dims = Ledger!Dims /\ Unread = [d \in Ledger!Dims |-> Ledger!Undefined]
  /\ \A reading : Classify(reading) = Ledger!Classify(reading)
  /\ \A e : StateFrom(e) = Ledger!StateFrom(e)
  /\ \A state : LevelsOf(state) = Ledger!LevelsOf(state)
  /\ \A e, p, next : AlertsFor(e, p, next) = Ledger!AlertsFor(e, p, next)
<1>1. Dims = Ledger!Dims /\ Unread = [d \in Ledger!Dims |-> Ledger!Undefined]
  BY DEF Dims, Ledger!Dims, Unread, Undefined, Ledger!Undefined
<1>2. \A reading : Classify(reading) = Ledger!Classify(reading)
  BY DEF Classify, Below, Above, Thresholds,
         Ledger!Classify, Ledger!Below, Ledger!Above, Ledger!Thresholds
<1>3. \A levels : OverallStatus(levels) = Ledger!OverallStatus(levels)
  BY DEF OverallStatus, Ledger!OverallStatus, Dims, Ledger!Dims
<1>4. \A e : StateFrom(e) = Ledger!StateFrom(e)
  BY <1>2, <1>3 DEF StateFrom, Ledger!StateFrom
<1>5. \A state : LevelsOf(state) = Ledger!LevelsOf(state)
  BY <1>1 DEF LevelsOf, Ledger!LevelsOf
<1>6. \A p, next : Raises(p, next) = Ledger!Raises(p, next)
  BY DEF Raises, Ledger!Raises
<1>7. \A e, p, next : AlertsFor(e, p, next) = Ledger!AlertsFor(e, p, next)
  BY <1>1, <1>6 DEF AlertsFor, Ledger!AlertsFor
<1> QED BY <1>1, <1>2, <1>4, <1>5, <1>7

\* Concurrent evaluation implements the ledger: a commit applies or skips one event in one
\* step, retention forgets, and no other step touches the tables.
THEOREM Refinement == Spec => ImplementsLedger
<1>1. Init => Ledger!Init
  <2>1. Init => Inbox = {}
    BY DEF Init, Inbox
  <2> QED BY <2>1, SameRules DEF Init, Alert, Ledger!Init
<1>2. ASSUME IInv, [Next]_vars PROVE [Ledger!Next]_(Ledger!vars)
  <2> USE <1>2 DEF IInv
  <2>a. None \notin Times
    BY HealthAssumption
  <2>1. ASSUME NEW w \in Handlers, Commit(w) PROVE Ledger!Next
    <3>1. PICK e \in Events : e = event[w]
      BY <2>1, CommitEffect
    <3>2. /\ RobotOf[e] \in Robots
          /\ health' = [health EXCEPT ![RobotOf[e]] = StateFrom(e)]
          /\ ~NotNewer(e, health[RobotOf[e]]) /\ previous[w] = LevelsOf(health[RobotOf[e]])
      BY <2>1, <3>1, CommitEffect
    <3>3. e \notin Inbox /\ Inbox' = Inbox \cup {e}
      BY <2>1, <2>a, <3>1, ProcessMarks DEF Commit, Inbox, WorkInv, InboxInv, Owning, TypeOK
    <3>4. health[RobotOf[e]] = None \/ EventRecordedAt[e] > EventRecordedAt[health[RobotOf[e]].from]
      <4>1. CASE health[RobotOf[e]] # None
        <5>1. health[RobotOf[e]].from \in Events
          BY <3>2, <4>1 DEF RecordInv, HealthIsNewest, TypeOK
        <5>2. EventRecordedAt[e] \in Int /\ EventRecordedAt[health[RobotOf[e]].from] \in Int
          BY <5>1, HealthAssumption
        <5> QED BY <3>2, <4>1, <5>2 DEF NotNewer
      <4> QED BY <4>1
    <3>5. alerts' = [a \in Alert |->
             IF a \in AlertsFor(e, LevelsOf(health[RobotOf[e]]), Classify(Reading[e]))
             THEN alerts[a] + 1 ELSE alerts[a]]
      BY <2>1, <3>1, <3>2 DEF Commit, AppendAlerts
    <3>6. DOMAIN alerts = Alert
      BY DEF TypeOK
    <3>7. Ledger!Apply(e)
      BY <3>2, <3>3, <3>4, <3>5, <3>6, SameRules DEF Ledger!Apply
    <3> QED BY <3>7 DEF Ledger!Next
  <2>2. ASSUME NEW w \in Handlers, CommitStale(w) PROVE Ledger!Next
    <3>1. PICK e \in Events : e = event[w]
      BY <2>2, CommitStaleEffect
    <3>2. e \notin Inbox /\ Inbox' = Inbox \cup {e}
      BY <2>2, <2>a, <3>1, ProcessMarks DEF CommitStale, Inbox, WorkInv, InboxInv, Owning, TypeOK
    <3>3. Ledger!Skip(e)
      BY <2>2, <3>1, <3>2, CommitStaleEffect DEF NotNewer, Ledger!Skip
    <3> QED BY <3>3 DEF Ledger!Next
  <2>3. ASSUME NEW t \in Times, DeleteProcessedBefore(t) PROVE Ledger!Next
    <3>1. Inbox' \subseteq Inbox /\ UNCHANGED <<health, alerts>>
      BY <2>3 DEF DeleteProcessedBefore, Inbox
    <3> QED BY <3>1 DEF Ledger!Next, Ledger!Forget
  <2>4. CASE UNCHANGED <<processedAt, health, alerts>>
    BY <2>4 DEF Ledger!vars, Inbox
  <2> QED
    BY <2>1, <2>2, <2>3, <2>4
    DEF Next, Step, Receive, RejectMalformed, TryBeginProcessing, Duplicate, LockById,
        FindForUpdate, Write, Abandon, Tick, db, vars
<1> QED BY <1>1, <1>2, Inductive, PTL DEF Spec, ImplementsLedger, Ledger!Spec

=============================================================================
