------------------------------ MODULE OutboxRelay ------------------------------
(***************************************************************************)
(* The outbox-publisher: several processes claim batches of outbox rows in *)
(* a short transaction, publish them to the broker outside any             *)
(* transaction, and record the outcome row by row.  Processes crash and    *)
(* restart at any point; claims expire while their holder is still at      *)
(* work; the retention worker deletes old published rows.                  *)
(*                                                                         *)
(* Two broker adapters are modelled.  Azure Service Bus answers a send     *)
(* (BrokerConfirms); RabbitMQ's plain channel only buffers it, and the     *)
(* adapter keeps the first channel it opened for the life of the process.  *)
(*                                                                         *)
(* Timestamps are kept as what is left of them: lease[e] is the number of  *)
(* ticks until claimedUntil is past (0 when it is past or null), age[e]    *)
(* the ticks since publishedAt.  Rows are numbered in the order of their   *)
(* createdAt, which is not the order in which they are committed.          *)
(***************************************************************************)
EXTENDS Integers, FiniteSets

CONSTANTS
  Events,          \* outbox rows, numbered by createdAt
  Publishers,      \* outbox-publisher processes
  BatchSize,       \* OUTBOX_BATCH_SIZE
  ClaimTicks,      \* OUTBOX_CLAIM_DURATION_MS, in ticks
  RetentionTicks,  \* OUTBOX_RETENTION_HOURS, in ticks
  BrokerConfirms   \* TRUE: azure-service-bus, FALSE: rabbitmq

ASSUME OutboxAssumption ==
  /\ Events \subseteq Nat
  /\ BatchSize \in Nat \ {0}
  /\ ClaimTicks \in Nat \ {0}
  /\ RetentionTicks \in Nat \ {0}
  /\ BrokerConfirms \in BOOLEAN

VARIABLES
  row,        \* event -> "absent", "pending", "published" or "deleted"
  lease,      \* event -> what is left of claimedUntil
  age,        \* event -> ticks since publishedAt, up to RetentionTicks
  error,      \* events whose lastPublishError is set
  pc,         \* publisher -> "down", "idle", "working", "sent" or "threw"
  batch,      \* publisher -> claimed rows it has not dealt with
  left,       \* publisher -> what is left of the claim on its batch
  channel,    \* publisher -> "none", "open" or "closed" (rabbitmq)
  buffered,   \* publisher -> events in its socket buffer (rabbitmq)
  broker,     \* events the broker has stored at least once
  overrun,    \* history variable: events some publisher dealt with too late
  dropped     \* history variable: events lost with a socket buffer

outbox == <<row, lease, age, error>>
publisher == <<pc, batch, left, channel, buffered>>
vars == <<outbox, publisher, broker, overrun, dropped>>

-----------------------------------------------------------------------------
(* The decisions of the code *)

\* e is the next row of p's batch: claimed rows are dealt with by createdAt.
UpNext(p, e) == e \in batch[p] /\ \A f \in batch[p] : e <= f

\* Mutant of Claimable: claimedUntil is not looked at.
Unpublished(e) == row[e] = "pending"

\* Mutant of Claimable: rows that failed once are not tried again.
NeverFailed(e) == row[e] = "pending" /\ lease[e] = 0 /\ e \notin error

\* The WHERE clause of claimPending.
Claimable(e) == row[e] = "pending" /\ lease[e] = 0

\* Rows another publisher may be updating, which SKIP LOCKED passes over.
Locked(p) ==
  {e \in Events : \E q \in Publishers \ {p} : pc[q] \in {"sent", "threw"} /\ UpNext(q, e)}

\* ORDER BY createdAt LIMIT: S is the oldest rows of a set of candidates.
Oldest(S, candidates) ==
  /\ S \subseteq candidates
  /\ \A e \in S, f \in candidates \ S : e < f
  /\ \/ S = candidates /\ Cardinality(S) <= BatchSize
     \/ Cardinality(S) = BatchSize

\* p acts on e although its claim has expired.
NoteOverrun(p, e) == overrun' = IF left[p] = 0 THEN overrun \cup {e} ELSE overrun

\* p is done with e: on to the next row, or to sleep until the next poll.
Advance(p, e) ==
  /\ batch' = [batch EXCEPT ![p] = @ \ {e}]
  /\ pc' = [pc EXCEPT ![p] = IF batch[p] = {e} THEN "idle" ELSE "working"]
  /\ left' = [left EXCEPT ![p] = IF batch[p] = {e} THEN 0 ELSE @]

\* p drops what is left of its batch; the rows stay claimed until expiry.
DropBatch(p, label) ==
  /\ batch' = [batch EXCEPT ![p] = {}]
  /\ pc' = [pc EXCEPT ![p] = label]
  /\ left' = [left EXCEPT ![p] = 0]

-----------------------------------------------------------------------------
(* The outbox and its readers *)

\* IngestTelemetry commits a row: unpublished, unclaimed.
Append(e) ==
  /\ row[e] = "absent"
  /\ row' = [row EXCEPT ![e] = "pending"]
  /\ UNCHANGED <<lease, age, error, publisher, broker, overrun, dropped>>

\* Mutant of Claimed: the row is claimed for longer than its publisher thinks.
ClaimedTooLong(S) == [e \in Events |-> IF e \in S THEN ClaimTicks + 1 ELSE lease[e]]

\* The UPDATE of claimPending.
Claimed(S) == [e \in Events |-> IF e \in S THEN ClaimTicks ELSE lease[e]]

\* S is a batch that claimPending may select for p.
Selectable(p, S) ==
  /\ S # {}
  /\ \E skipped \in SUBSET Locked(p) :
       Oldest(S, {e \in Events : Claimable(e)} \ skipped)

\* claimPending: one short transaction.
ClaimPending(p) ==
  /\ pc[p] = "idle"
  /\ \E S \in SUBSET Events :
       /\ Selectable(p, S)
       /\ lease' = Claimed(S)
       /\ batch' = [batch EXCEPT ![p] = S]
  /\ pc' = [pc EXCEPT ![p] = "working"]
  /\ left' = [left EXCEPT ![p] = ClaimTicks]
  /\ UNCHANGED <<row, age, error, channel, buffered, broker, overrun, dropped>>

\* claimPending commits, but its answer is lost and it throws: the rows are
\* claimed by nobody until the claim expires, and p polls again.
ClaimLost(p) ==
  /\ pc[p] = "idle"
  /\ \E S \in SUBSET Events :
       /\ Selectable(p, S)
       /\ lease' = Claimed(S)
  /\ UNCHANGED <<row, age, error, publisher, broker, overrun, dropped>>

\* publisher.publish on Service Bus: the broker has confirmed the message.
SendConfirmed(p, e) ==
  /\ BrokerConfirms
  /\ pc[p] = "working" /\ UpNext(p, e)
  /\ broker' = broker \cup {e}
  /\ pc' = [pc EXCEPT ![p] = "sent"]
  /\ UNCHANGED <<outbox, batch, left, channel, buffered, overrun, dropped>>

\* publisher.publish on Service Bus throws; the broker may have stored the
\* message all the same.
SendFails(p, e) ==
  /\ BrokerConfirms
  /\ pc[p] = "working" /\ UpNext(p, e)
  /\ broker' \in {broker, broker \cup {e}}
  /\ pc' = [pc EXCEPT ![p] = "threw"]
  /\ UNCHANGED <<outbox, batch, left, channel, buffered, overrun, dropped>>

\* publisher.publish on RabbitMQ: the cached channel, or a new one, takes the
\* message into its buffer.  It returns false when the buffer is full, which
\* throws although the message is in it.
SendBuffered(p, e) ==
  /\ ~BrokerConfirms
  /\ pc[p] = "working" /\ UpNext(p, e)
  /\ channel[p] # "closed"
  /\ channel' = [channel EXCEPT ![p] = "open"]
  /\ buffered' = [buffered EXCEPT ![p] = @ \cup {e}]
  /\ pc' \in {[pc EXCEPT ![p] = "sent"], [pc EXCEPT ![p] = "threw"]}
  /\ UNCHANGED <<outbox, batch, left, broker, overrun, dropped>>

\* publisher.publish on RabbitMQ: connecting fails, or the cached channel is
\* closed and every use of it throws.
SendThrows(p, e) ==
  /\ ~BrokerConfirms
  /\ pc[p] = "working" /\ UpNext(p, e)
  /\ channel[p] # "open"
  /\ pc' = [pc EXCEPT ![p] = "threw"]
  /\ UNCHANGED <<outbox, batch, left, channel, buffered, broker, overrun, dropped>>

\* Mutant of MarkPublished: the row is marked before it is sent.
MarkBeforeSend(p, e) ==
  /\ pc[p] \in {"working", "sent"} /\ UpNext(p, e)
  /\ row[e] \in {"pending", "published"}
  /\ row' = [row EXCEPT ![e] = "published"]
  /\ age' = [age EXCEPT ![e] = 0]
  /\ lease' = [lease EXCEPT ![e] = 0]
  /\ error' = error \ {e}
  /\ NoteOverrun(p, e)
  /\ Advance(p, e)
  /\ UNCHANGED <<channel, buffered, broker, dropped>>

\* The UPDATE of markPublished: by id alone, so also a row another publisher
\* has published or claimed since.
SetPublished(p, e) ==
  /\ row[e] \in {"pending", "published"}
  /\ row' = [row EXCEPT ![e] = "published"]
  /\ age' = [age EXCEPT ![e] = 0]
  /\ lease' = [lease EXCEPT ![e] = 0]
  /\ error' = error \ {e}
  /\ NoteOverrun(p, e)

\* markPublished
MarkPublished(p, e) ==
  /\ pc[p] = "sent" /\ UpNext(p, e)
  /\ SetPublished(p, e)
  /\ Advance(p, e)
  /\ UNCHANGED <<channel, buffered, broker, dropped>>

\* markPublished throws: the database is away, retention has deleted the row
\* (P2025), or the UPDATE is committed and only its answer is lost.  The catch
\* clause treats the row as not published in each of these cases.
MarkFails(p, e) ==
  /\ pc[p] = "sent" /\ UpNext(p, e)
  /\ pc' = [pc EXCEPT ![p] = "threw"]
  /\ \/ UNCHANGED <<outbox, overrun>>
     \/ SetPublished(p, e)
  /\ UNCHANGED <<batch, left, channel, buffered, broker, dropped>>

\* Mutant of RecordPublishFailure: a failure puts the row back to unpublished.
RecordFailureReopens(p, e) ==
  /\ pc[p] = "threw" /\ UpNext(p, e)
  /\ row[e] \in {"pending", "published"}
  /\ row' = [row EXCEPT ![e] = "pending"]
  /\ lease' = [lease EXCEPT ![e] = 0]
  /\ error' = error \cup {e}
  /\ NoteOverrun(p, e)
  /\ Advance(p, e)
  /\ UNCHANGED <<age, channel, buffered, broker, dropped>>

\* The UPDATE of recordPublishFailure: by id alone; it gives up whatever claim
\* is on the row.
SetFailed(p, e) ==
  /\ row[e] \in {"pending", "published"}
  /\ lease' = [lease EXCEPT ![e] = 0]
  /\ error' = error \cup {e}
  /\ NoteOverrun(p, e)
  /\ UNCHANGED <<row, age>>

\* recordPublishFailure
RecordPublishFailure(p, e) ==
  /\ pc[p] = "threw" /\ UpNext(p, e)
  /\ SetFailed(p, e)
  /\ Advance(p, e)
  /\ UNCHANGED <<channel, buffered, broker, dropped>>

\* recordPublishFailure throws too, whether or not its UPDATE is committed:
\* the claim loop drops the rest of the batch.
RecordFails(p, e) ==
  /\ pc[p] = "threw" /\ UpNext(p, e)
  /\ DropBatch(p, "idle")
  /\ \/ UNCHANGED <<outbox, overrun>>
     \/ SetFailed(p, e)
  /\ UNCHANGED <<channel, buffered, broker, dropped>>

\* The process ends, by a crash or by SIGTERM, at any point; what it had not
\* flushed to the socket is gone.
Crash(p) ==
  /\ pc[p] # "down"
  /\ DropBatch(p, "down")
  /\ channel' = [channel EXCEPT ![p] = "none"]
  /\ buffered' = [buffered EXCEPT ![p] = {}]
  /\ dropped' = dropped \cup buffered[p]
  /\ UNCHANGED <<outbox, broker, overrun>>

\* restart: unless-stopped
Restart(p) ==
  /\ pc[p] = "down"
  /\ pc' = [pc EXCEPT ![p] = "idle"]
  /\ UNCHANGED <<outbox, batch, left, channel, buffered, broker, overrun, dropped>>

\* RabbitMQ receives and stores a buffered message.
Flush(p, e) ==
  /\ e \in buffered[p]
  /\ buffered' = [buffered EXCEPT ![p] = @ \ {e}]
  /\ broker' = broker \cup {e}
  /\ UNCHANGED <<outbox, pc, batch, left, channel, overrun, dropped>>

\* The broker closes the connection in an orderly way (CONNECTION_FORCED):
\* amqplib emits no error, nobody listens for the close, the channel is dead.
\* A connection that breaks emits an unhandled error, which is a Crash.
CloseChannel(p) ==
  /\ channel[p] = "open"
  /\ channel' = [channel EXCEPT ![p] = "closed"]
  /\ buffered' = [buffered EXCEPT ![p] = {}]
  /\ dropped' = dropped \cup buffered[p]
  /\ UNCHANGED <<outbox, pc, batch, left, broker, overrun>>

\* deletePublishedOutboxBefore: published, and longer ago than the window.
Deletable(e) == row[e] = "published" /\ age[e] = RetentionTicks

\* The retention worker's delete.
DeletePublishedBefore ==
  /\ \E e \in Events : Deletable(e)
  /\ row' = [e \in Events |-> IF Deletable(e) THEN "deleted" ELSE row[e]]
  /\ UNCHANGED <<lease, age, error, publisher, broker, overrun, dropped>>

\* A tick takes one from what is left, if anything is.
Less(n) == IF n = 0 THEN 0 ELSE n - 1

\* Time passes: claims run out, published rows age.
Tick ==
  /\ lease' = [e \in Events |-> Less(lease[e])]
  /\ left' = [p \in Publishers |-> Less(left[p])]
  /\ age' = [e \in Events |->
       IF row[e] = "published" /\ age[e] < RetentionTicks THEN age[e] + 1 ELSE age[e]]
  /\ UNCHANGED <<row, error, pc, batch, channel, buffered, broker, overrun, dropped>>

-----------------------------------------------------------------------------
Init ==
  /\ row = [e \in Events |-> "absent"]
  /\ lease = [e \in Events |-> 0]
  /\ age = [e \in Events |-> 0]
  /\ error = {}
  /\ pc = [p \in Publishers |-> "idle"]
  /\ batch = [p \in Publishers |-> {}]
  /\ left = [p \in Publishers |-> 0]
  /\ channel = [p \in Publishers |-> "none"]
  /\ buffered = [p \in Publishers |-> {}]
  /\ broker = {}
  /\ overrun = {}
  /\ dropped = {}

\* publisher.publish returns.
Send(p, e) == SendConfirmed(p, e) \/ SendBuffered(p, e)

\* What a publisher does with the row it has come to.
Handle(p, e) ==
  \/ SendConfirmed(p, e)
  \/ SendFails(p, e)
  \/ SendBuffered(p, e)
  \/ SendThrows(p, e)
  \/ MarkPublished(p, e)
  \/ MarkFails(p, e)
  \/ RecordPublishFailure(p, e)
  \/ RecordFails(p, e)

Next ==
  \/ \E e \in Events : Append(e)
  \/ \E p \in Publishers :
       \/ ClaimPending(p)
       \/ ClaimLost(p)
       \/ \E e \in Events : Handle(p, e)
       \/ Crash(p)
       \/ Restart(p)
       \/ \E e \in Events : Flush(p, e)
       \/ CloseChannel(p)
  \/ DeletePublishedBefore
  \/ Tick

Spec == Init /\ [][Next]_vars

\* The publish loop never ends, the container is restarted, time passes and a
\* live socket is flushed.  Crashes and failing calls may recur, but not at
\* every attempt: a claim, a send or a mark that is possible again and again
\* succeeds at some point.
Fairness ==
  /\ WF_vars(Tick)
  /\ \A p \in Publishers :
       /\ WF_vars(Restart(p))
       /\ SF_vars(ClaimPending(p))
       /\ WF_vars(\E e \in Events : Handle(p, e))
       /\ WF_vars(\E e \in Events : Flush(p, e))
       /\ SF_vars(\E e \in Events : Send(p, e) /\ pc'[p] = "sent")
       /\ SF_vars(\E e \in Events : MarkPublished(p, e))

FairSpec == Spec /\ Fairness

-----------------------------------------------------------------------------
(* Properties *)

\* Every variable stays within its declared range: no claim is longer than
\* claimDurationMs or ends before its end.
TypeOK ==
  /\ row \in [Events -> {"absent", "pending", "published", "deleted"}]
  /\ lease \in [Events -> 0 .. ClaimTicks]
  /\ age \in [Events -> 0 .. RetentionTicks]
  /\ error \subseteq Events
  /\ pc \in [Publishers -> {"down", "idle", "working", "sent", "threw"}]
  /\ batch \in [Publishers -> SUBSET Events]
  /\ left \in [Publishers -> 0 .. ClaimTicks]
  /\ channel \in [Publishers -> {"none", "open", "closed"}]
  /\ buffered \in [Publishers -> SUBSET Events]
  /\ broker \subseteq Events
  /\ overrun \subseteq Events
  /\ dropped \subseteq Events

\* markPublished and the retention worker only ever take an event out of the
\* outbox after the broker has stored it: nothing is lost between the ingest
\* transaction and the broker, whatever crashes.
NoEventLost ==
  \A e \in Events : row[e] \in {"published", "deleted"} => e \in broker

\* On RabbitMQ, where publish returns before the broker has the message, an
\* event marked as published is with the broker, still in the socket buffer of
\* a live publisher, or was in one that went down: there is no other leak.
LostOnlyUnflushed ==
  \A e \in Events : row[e] \in {"published", "deleted"} =>
    e \in broker \cup dropped \cup UNION {buffered[p] : p \in Publishers}

\* claimedUntil is a lock: two publishers never both work on a row within
\* their claims.  Only a publisher that outlives its claim can break this for
\* others, since markPublished and recordPublishFailure clear by id whatever
\* claim is on the row.
ClaimExclusive ==
  \A p, q \in Publishers : \A e \in (batch[p] \cap batch[q]) \ overrun :
    p # q => left[p] = 0 \/ left[q] = 0

\* p's own markPublished took effect and threw: the row is published and
\* unclaimed, and p is about to record it as failed.
PublishedUnawares(p, e) ==
  /\ pc[p] = "threw" /\ UpNext(p, e)
  /\ row[e] \in {"published", "deleted"}
  /\ lease[e] = 0

\* While a publisher is within its claim, nobody else has settled its rows:
\* the row is unpublished and claimed exactly as long as the publisher thinks,
\* or it is the row at hand and the publisher has published it unawares.
ClaimHeld ==
  \A p \in Publishers : \A e \in batch[p] \ overrun :
    left[p] > 0 =>
      \/ row[e] = "pending" /\ lease[e] = left[p]
      \/ PublishedUnawares(p, e)

\* Nothing brings an event back: once published, whatever late failure or
\* crash follows, a row is published until retention deletes it.
PublishedIsFinal ==
  [][\A e \in Events :
       /\ row[e] = "published" => row'[e] \in {"published", "deleted"}
       /\ row[e] = "deleted" => row'[e] = "deleted"]_vars

\* Every event committed to the outbox is published in the end, whatever
\* crashes and failures come in between.
EventualPublication ==
  \A e \in Events : row[e] = "pending" ~> row[e] = "published"

=============================================================================
