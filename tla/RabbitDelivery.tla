---------------------------- MODULE RabbitDelivery ----------------------------
(***************************************************************************)
(* One consumer role (health or realtime) on RabbitMQ: its work queue, its *)
(* TTL retry queue and its dead-letter queue, and the processes that       *)
(* consume from the work queue and settle each delivery by frames on their *)
(* channel.  Frames of one channel arrive in order, but a process or its   *)
(* connection may go down with frames unsent; the broker then requeues     *)
(* whatever that process had not acknowledged.                             *)
(*                                                                         *)
(* A message is a copy of an event: publishing, the fanout and each retry  *)
(* make a new one, with the delivery count in its header.                  *)
(***************************************************************************)
EXTENDS Integers, Sequences, FiniteSets

CONSTANTS
  Events,      \* events published to the exchange
  Unparsable,  \* those whose body is not JSON
  Copies,      \* bound: messages on the broker at the same time
  Consumers,   \* processes of the role
  MaxDelivery, \* DEFAULT_MAX_DELIVERY_COUNT
  Prefetch,    \* DEFAULT_PREFETCH
  MaxPublishes,\* bound on how often the outbox publishes one event
  MaxCrashes,  \* bound on crashes
  None         \* no event, no consumer

ASSUME RabbitAssumption ==
  /\ Unparsable \subseteq Events
  /\ MaxDelivery \in Nat \ {0}
  /\ Prefetch \in Nat \ {0}
  /\ MaxPublishes \in Nat
  /\ MaxCrashes \in Nat
  /\ None \notin Events \cup Consumers

VARIABLES
  published,  \* event -> how often the exchange has routed it to the work queue
  place,      \* copy -> "free", "work", "held", "retry" or "dead"
  event,      \* copy -> its event
  count,      \* copy -> x-prc-delivery-count, 1 when the header is missing
  holder,     \* copy -> the consumer it was delivered to
  handled,    \* held copies whose settlement has been written to a channel
  socket,     \* consumer -> frames it wrote that the broker has not received
  up,         \* consumers that are running
  completed,  \* history variable: events whose handler returned "complete"
  permanent,  \* history variable: events found to be beyond retrying
  attempts,   \* history variable: event -> runs of its handler
  crashes     \* how many crashes there were, up to MaxCrashes

message == <<place, event, count, holder>>
history == <<completed, permanent, attempts>>
vars == <<published, message, handled, socket, up, history, crashes>>

Places == {"free", "work", "held", "retry", "dead"}
Frame == [kind : {"ack", "nack", "retry"}, copy : Copies]
Action == {"complete", "abandon", "deadLetter"}

-----------------------------------------------------------------------------
(* The decisions of the code *)

\* Mutant of PlanSettlement: the last delivery is not counted.
PlanOneShort(action, n) ==
  CASE action = "complete" -> "ack"
    [] action = "deadLetter" \/ n >= MaxDelivery - 1 -> "deadLetter"
    [] OTHER -> "retry"

\* planSettlement
PlanSettlement(action, n) ==
  CASE action = "complete" -> "ack"
    [] action = "deadLetter" \/ n >= MaxDelivery -> "deadLetter"
    [] OTHER -> "retry"

\* Mutant of Frames: the message is acknowledged before its retry is sent.
FramesAckFirst(plan, c) ==
  CASE plan = "ack" -> <<[kind |-> "ack", copy |-> c]>>
    [] plan = "deadLetter" -> <<[kind |-> "nack", copy |-> c]>>
    [] plan = "retry" -> <<[kind |-> "ack", copy |-> c], [kind |-> "retry", copy |-> c]>>

\* Mutant of Frames: a retried message is not acknowledged.
FramesWithoutAck(plan, c) ==
  CASE plan = "ack" -> <<[kind |-> "ack", copy |-> c]>>
    [] plan = "deadLetter" -> <<[kind |-> "nack", copy |-> c]>>
    [] plan = "retry" -> <<[kind |-> "retry", copy |-> c]>>

\* applySettlement: the frames a plan writes to the channel, in order.
Frames(plan, c) ==
  CASE plan = "ack" -> <<[kind |-> "ack", copy |-> c]>>
    [] plan = "deadLetter" -> <<[kind |-> "nack", copy |-> c]>>
    [] plan = "retry" -> <<[kind |-> "retry", copy |-> c], [kind |-> "ack", copy |-> c]>>

\* Copies the broker does not use.  Copies are interchangeable names, so one
\* choice of the next name stands for all.
Free == {c \in Copies : place[c] = "free"}
NextFree == CHOOSE c \in Free : TRUE

\* The broker stores a copy of e, at a place, with a header.
Store(c, e, where, n) ==
  /\ place' = [place EXCEPT ![c] = where]
  /\ event' = [event EXCEPT ![c] = e]
  /\ count' = [count EXCEPT ![c] = n]

\* The broker forgets copy c.
Remove(c) ==
  /\ place' = [place EXCEPT ![c] = "free"]
  /\ event' = [event EXCEPT ![c] = None]
  /\ count' = [count EXCEPT ![c] = 1]
  /\ holder' = [holder EXCEPT ![c] = None]

Held(w) == {c \in Copies : holder[c] = w}

-----------------------------------------------------------------------------
(* The steps *)

\* The publisher sends e; the outbox may send it again.
Publish(e) ==
  /\ published[e] < MaxPublishes
  /\ Free # {}
  /\ Store(NextFree, e, "work", 1)
  /\ published' = [published EXCEPT ![e] = @ + 1]
  /\ UNCHANGED <<holder, handled, socket, up, history, crashes>>

\* The broker delivers a message, up to the consumer's prefetch.
Deliver(w, c) ==
  /\ w \in up
  /\ place[c] = "work"
  /\ Cardinality(Held(w)) < Prefetch
  /\ place' = [place EXCEPT ![c] = "held"]
  /\ holder' = [holder EXCEPT ![c] = w]
  /\ UNCHANGED <<published, event, count, handled, socket, up, history, crashes>>

\* settle writes the frames of a plan for c to w's channel.
Settle(w, c, plan) ==
  /\ socket' = [socket EXCEPT ![w] = @ \o Frames(plan, c)]
  /\ handled' = handled \cup {c}
  /\ UNCHANGED <<published, message, up, crashes>>

\* settle, when the body does not parse: nack, without the handler.
SettleUnparsable(w, c) ==
  /\ holder[c] = w /\ c \notin handled
  /\ event[c] \in Unparsable
  /\ permanent' = permanent \cup {event[c]}
  /\ Settle(w, c, "deadLetter")
  /\ UNCHANGED <<completed, attempts>>

\* settle, after the handler returned an action or threw (an abandon).
SettleHandled(w, c, action) ==
  /\ holder[c] = w /\ c \notin handled
  /\ event[c] \notin Unparsable
  /\ attempts' = [attempts EXCEPT ![event[c]] = @ + 1]
  /\ completed' = IF action = "complete" THEN completed \cup {event[c]} ELSE completed
  /\ permanent' = IF action = "deadLetter" THEN permanent \cup {event[c]} ELSE permanent
  /\ Settle(w, c, PlanSettlement(action, count[c]))

\* The frame at the head of w's socket reaches the broker.
Received(w, kind, c) ==
  /\ socket[w] # <<>>
  /\ Head(socket[w]) = [kind |-> kind, copy |-> c]
  /\ socket' = [socket EXCEPT ![w] = Tail(@)]
  /\ UNCHANGED <<published, up, history, crashes>>

ReceiveAck(w, c) ==
  /\ Received(w, "ack", c)
  /\ Remove(c)
  /\ handled' = handled \ {c}

\* nack without requeue: the dead-letter exchange routes it to the role's queue.
ReceiveNack(w, c) ==
  /\ Received(w, "nack", c)
  /\ place' = [place EXCEPT ![c] = "dead"]
  /\ holder' = [holder EXCEPT ![c] = None]
  /\ handled' = handled \ {c}
  /\ UNCHANGED <<event, count>>

\* sendToQueue: a new message on the retry queue, one delivery older.
ReceiveRetry(w, c) ==
  /\ Received(w, "retry", c)
  /\ Free # {}
  /\ Store(NextFree, event[c], "retry", count[c] + 1)
  /\ UNCHANGED <<holder, handled>>

\* x-message-ttl: the retry-return exchange routes it back to the work queue.
RetryExpires(c) ==
  /\ place[c] = "retry"
  /\ place' = [place EXCEPT ![c] = "work"]
  /\ UNCHANGED <<published, event, count, holder, handled, socket, up, history, crashes>>

\* The broker requeues what w held, with the header it had.
Requeued(w) ==
  /\ place' = [c \in Copies |-> IF holder[c] = w THEN "work" ELSE place[c]]
  /\ holder' = [c \in Copies |-> IF holder[c] = w THEN None ELSE holder[c]]

\* The process or its connection goes down, the frames still in its socket
\* with it: an unhandled error on the connection ends the process.
Crash(w) ==
  /\ w \in up /\ crashes < MaxCrashes
  /\ Requeued(w)
  /\ handled' = handled \ Held(w)
  /\ socket' = [socket EXCEPT ![w] = <<>>]
  /\ up' = up \ {w}
  /\ crashes' = crashes + 1
  /\ UNCHANGED <<published, event, count, history>>

\* restart: unless-stopped; start() asserts the topology and consumes again.
Restart(w) ==
  /\ w \in Consumers \ up
  /\ up' = up \cup {w}
  /\ UNCHANGED <<published, message, handled, socket, history, crashes>>

-----------------------------------------------------------------------------
Init ==
  /\ published = [e \in Events |-> 0]
  /\ place = [c \in Copies |-> "free"]
  /\ event = [c \in Copies |-> None]
  /\ count = [c \in Copies |-> 1]
  /\ holder = [c \in Copies |-> None]
  /\ handled = {}
  /\ socket = [w \in Consumers |-> <<>>]
  /\ up = Consumers
  /\ completed = {}
  /\ permanent = {}
  /\ attempts = [e \in Events |-> 0]
  /\ crashes = 0

\* What a consumer and its channel do by themselves.
Consume(w) ==
  \/ \E c \in Copies : Deliver(w, c)
  \/ \E c \in Copies : SettleUnparsable(w, c)
  \/ \E c \in Copies, action \in Action : SettleHandled(w, c, action)
  \/ \E c \in Copies : ReceiveAck(w, c)
  \/ \E c \in Copies : ReceiveNack(w, c)
  \/ \E c \in Copies : ReceiveRetry(w, c)

Next ==
  \/ \E e \in Events : Publish(e)
  \/ \E w \in Consumers : Consume(w) \/ Crash(w) \/ Restart(w)
  \/ \E c \in Copies : RetryExpires(c)

Spec == Init /\ [][Next]_vars

\* A running consumer takes, handles and settles deliveries, retry messages
\* expire and containers restart.  Nothing is assumed of the handler's answers.
Fairness ==
  /\ \A w \in Consumers : WF_vars(Consume(w)) /\ WF_vars(Restart(w))
  /\ \A c \in Copies : WF_vars(RetryExpires(c))

FairSpec == Spec /\ Fairness

-----------------------------------------------------------------------------
(* Properties *)

\* applySettlement and the topology: whatever crashes between a handler's
\* answer and the broker, an event leaves the queues only when a handler has
\* completed it; until then it is queued, held, waiting for retry or dead.
NoMessageLost ==
  \A e \in Events :
    published[e] > 0 => e \in completed \/ \E c \in Copies : event[c] = e

\* planSettlement: a message is dead-lettered only for a reason, either its
\* event is beyond retrying or its handler has run the full number of times.
DeadLetterJustified ==
  \A c \in Copies : place[c] = "dead" =>
    event[c] \in permanent \/ attempts[event[c]] >= MaxDelivery

\* No message goes round for ever: consumers that come back work every queue
\* off, whatever the handler answers.
QueuesDrain == <>[](\A c \in Copies : place[c] \in {"free", "dead"})

=============================================================================
