--------------------------- MODULE OutboxRelayProofs ---------------------------
(***************************************************************************)
(* Invariance proofs for OutboxRelay, for every number of events and       *)
(* publishers, every batch size and every claim and retention time.        *)
(***************************************************************************)
EXTENDS OutboxRelay, TLAPS

\* The events that are with the broker, on their way to it, or known to be lost.
Accounted == broker \cup dropped \cup UNION {buffered[p] : p \in Publishers}

\* Between publish and markPublished the row at hand is accounted for.
SentIsAccounted ==
  \A p \in Publishers, e \in Events : pc[p] = "sent" /\ UpNext(p, e) => e \in Accounted

\* Service Bus has no buffer in this process, so nothing is lost with one.
NothingUnconfirmed ==
  BrokerConfirms => dropped = {} /\ \A p \in Publishers : buffered[p] = {}

\* The two halves of the inductive invariant: events and claims.
EventInv == SentIsAccounted /\ LostOnlyUnflushed /\ NothingUnconfirmed
ClaimInv == ClaimHeld /\ ClaimExclusive

-----------------------------------------------------------------------------
(* Types *)

\* The initial state has the declared types.
LEMMA InitTypeOK == Init => TypeOK
BY OutboxAssumption DEF Init, TypeOK

\* The UPDATEs of markPublished and recordPublishFailure keep the types.
LEMMA SettleTypes ==
  ASSUME TypeOK, NEW p \in Publishers, NEW e \in Events,
         SetPublished(p, e) \/ SetFailed(p, e)
  PROVE  /\ row' \in [Events -> {"absent", "pending", "published", "deleted"}]
         /\ lease' \in [Events -> 0 .. ClaimTicks]
         /\ age' \in [Events -> 0 .. RetentionTicks]
         /\ error' \subseteq Events
         /\ overrun' \subseteq Events
<1>1. CASE SetPublished(p, e)
  BY <1>1, OutboxAssumption DEF TypeOK, SetPublished, NoteOverrun
<1>2. CASE SetFailed(p, e)
  BY <1>2, OutboxAssumption DEF TypeOK, SetFailed, NoteOverrun
<1> QED BY <1>1, <1>2

\* Every step of every process keeps the types: no claim outlives its length.
LEMMA NextTypeOK == TypeOK /\ [Next]_vars => TypeOK'
<1> SUFFICES ASSUME TypeOK, [Next]_vars PROVE TypeOK'
  OBVIOUS
<1> USE OutboxAssumption DEF TypeOK
<1>1. ASSUME NEW e \in Events, Append(e) PROVE TypeOK'
  BY <1>1 DEF Append, publisher
<1>2. ASSUME NEW p \in Publishers, ClaimPending(p) PROVE TypeOK'
  BY <1>2 DEF ClaimPending, Claimed
<1>3. ASSUME NEW p \in Publishers, NEW e \in Events, Handle(p, e) PROVE TypeOK'
  <2>1. CASE SendConfirmed(p, e)
    BY <2>1 DEF SendConfirmed, outbox
  <2>2. CASE SendFails(p, e)
    BY <2>2 DEF SendFails, outbox
  <2>3. CASE SendBuffered(p, e)
    BY <2>3 DEF SendBuffered, outbox
  <2>4. CASE SendThrows(p, e)
    BY <2>4 DEF SendThrows, outbox
  <2>5. CASE MarkPublished(p, e)
    BY <2>5, SettleTypes DEF MarkPublished, Advance
  <2>6. CASE MarkFails(p, e)
    BY <2>6, SettleTypes DEF MarkFails, outbox
  <2>7. CASE RecordPublishFailure(p, e)
    BY <2>7, SettleTypes DEF RecordPublishFailure, Advance
  <2>8. CASE RecordFails(p, e)
    <3>1. /\ row' \in [Events -> {"absent", "pending", "published", "deleted"}]
          /\ lease' \in [Events -> 0 .. ClaimTicks]
          /\ age' \in [Events -> 0 .. RetentionTicks]
          /\ error' \subseteq Events
          /\ overrun' \subseteq Events
      BY <2>8, SettleTypes DEF RecordFails, outbox
    <3>2. /\ pc' \in [Publishers -> {"down", "idle", "working", "sent", "threw"}]
          /\ batch' \in [Publishers -> SUBSET Events]
          /\ left' \in [Publishers -> 0 .. ClaimTicks]
      BY <2>8 DEF RecordFails, DropBatch
    <3> QED BY <2>8, <3>1, <3>2 DEF RecordFails
  <2> QED BY <1>3, <2>1, <2>2, <2>3, <2>4, <2>5, <2>6, <2>7, <2>8 DEF Handle
<1>4. ASSUME NEW p \in Publishers, Crash(p) PROVE TypeOK'
  <2>1. /\ pc' \in [Publishers -> {"down", "idle", "working", "sent", "threw"}]
        /\ batch' \in [Publishers -> SUBSET Events]
        /\ left' \in [Publishers -> 0 .. ClaimTicks]
    BY <1>4 DEF Crash, DropBatch
  <2>2. /\ channel' \in [Publishers -> {"none", "open", "closed"}]
        /\ buffered' \in [Publishers -> SUBSET Events]
        /\ dropped' \subseteq Events
    BY <1>4 DEF Crash
  <2> QED BY <1>4, <2>1, <2>2 DEF Crash, outbox
<1>5. ASSUME NEW p \in Publishers, Restart(p) PROVE TypeOK'
  BY <1>5 DEF Restart, outbox
<1>6. ASSUME NEW p \in Publishers, NEW e \in Events, Flush(p, e) PROVE TypeOK'
  BY <1>6 DEF Flush, outbox
<1>7. ASSUME NEW p \in Publishers, CloseChannel(p) PROVE TypeOK'
  BY <1>7 DEF CloseChannel, outbox
<1>8. CASE DeletePublishedBefore
  BY <1>8 DEF DeletePublishedBefore, publisher
<1>9. CASE Tick
  BY <1>9 DEF Tick, Less
<1>10. ASSUME NEW p \in Publishers, ClaimLost(p) PROVE TypeOK'
  BY <1>10 DEF ClaimLost, Claimed, publisher
<1>11. CASE UNCHANGED vars
  BY <1>11 DEF vars, outbox, publisher
<1> QED
  BY <1>1, <1>2, <1>3, <1>4, <1>5, <1>6, <1>7, <1>8, <1>9, <1>10, <1>11 DEF Next

\* TypeOK holds in every reachable state.
THEOREM TypeCorrect == Spec => []TypeOK
BY InitTypeOK, NextTypeOK, PTL DEF Spec

-----------------------------------------------------------------------------
(* Events *)

\* What is accounted for stays so: a buffer empties into the broker or is
\* counted as dropped.
LEMMA AccountedGrows == TypeOK /\ [Next]_vars => Accounted \subseteq Accounted'
<1> SUFFICES ASSUME TypeOK, [Next]_vars, NEW x \in Accounted PROVE x \in Accounted'
  OBVIOUS
<1> USE DEF Accounted
<1>1. CASE UNCHANGED <<buffered, broker, dropped>>
  BY <1>1
<1>2. ASSUME NEW p \in Publishers, NEW e \in Events,
             \/ SendConfirmed(p, e) \/ SendFails(p, e)
      PROVE  x \in Accounted'
  BY <1>2 DEF SendConfirmed, SendFails
<1>3. ASSUME NEW p \in Publishers, NEW e \in Events, SendBuffered(p, e)
      PROVE  x \in Accounted'
  <2>1. \A q \in Publishers : buffered[q] \subseteq buffered'[q]
    BY <1>3 DEF SendBuffered, TypeOK
  <2> QED BY <1>3, <2>1 DEF SendBuffered
<1>4. ASSUME NEW p \in Publishers, NEW e \in Events, Flush(p, e)
      PROVE  x \in Accounted'
  <2>1. \A q \in Publishers : buffered[q] \subseteq buffered'[q] \cup {e}
    BY <1>4 DEF Flush, TypeOK
  <2> QED BY <1>4, <2>1 DEF Flush
<1>5. ASSUME NEW p \in Publishers, Crash(p) \/ CloseChannel(p)
      PROVE  x \in Accounted'
  <2>1. /\ \A q \in Publishers : q # p => buffered'[q] = buffered[q]
        /\ dropped' = dropped \cup buffered[p]
        /\ broker' = broker
    BY <1>5 DEF Crash, CloseChannel, TypeOK
  <2> QED BY <2>1
<1> QED
  BY <1>1, <1>2, <1>3, <1>4, <1>5
  DEF Next, Handle, vars, publisher, Append, ClaimPending, ClaimLost, SendThrows,
      MarkPublished, MarkFails, RecordPublishFailure, RecordFails, Restart,
      DeletePublishedBefore, Tick

\* A publisher deals with one row at a time.
LEMMA UpNextUnique ==
  ASSUME NEW p \in Publishers, NEW e \in Events, NEW f \in Events, UpNext(p, e), UpNext(p, f)
  PROVE  e = f
<1>1. e <= f /\ f <= e /\ e \in Nat /\ f \in Nat
  BY OutboxAssumption DEF UpNext
<1> QED BY <1>1

\* The initial state satisfies the event half of the invariant.
LEMMA InitEventInv == Init => EventInv
BY DEF Init, EventInv, SentIsAccounted, LostOnlyUnflushed, NothingUnconfirmed, Accounted

\* Every step preserves SentIsAccounted: a publisher enters "sent" only with
\* its row accounted for, and leaves it before it turns to another row.
LEMMA SentStep == TypeOK /\ SentIsAccounted /\ [Next]_vars => SentIsAccounted'
<1> SUFFICES ASSUME TypeOK, SentIsAccounted, [Next]_vars,
                    NEW q \in Publishers, NEW f \in Events,
                    pc'[q] = "sent", UpNext(q, f)'
             PROVE  f \in Accounted'
  BY DEF SentIsAccounted
<1>1. Accounted \subseteq Accounted'
  BY AccountedGrows
<1>2. CASE pc[q] = "sent" /\ UpNext(q, f)
  BY <1>1, <1>2 DEF SentIsAccounted
<1>3. ASSUME NEW e \in Events, SendConfirmed(q, e) \/ SendBuffered(q, e)
      PROVE  f \in Accounted'
  <2>1. UpNext(q, e) /\ UpNext(q, f)
    BY <1>3 DEF SendConfirmed, SendBuffered, UpNext
  <2>2. f = e
    BY <2>1, UpNextUnique
  <2>3. e \in broker' \cup buffered'[q]
    BY <1>3 DEF SendConfirmed, SendBuffered, TypeOK
  <2> QED BY <2>2, <2>3 DEF Accounted
<1>4. ASSUME pc[q] # "sent", \A e \in Events : ~SendConfirmed(q, e) /\ ~SendBuffered(q, e)
      PROVE  FALSE
  BY <1>4
  DEF TypeOK, Next, Handle, vars, publisher, Append, ClaimPending, ClaimLost, SendConfirmed,
      SendFails, SendBuffered, SendThrows, MarkPublished, MarkFails, RecordPublishFailure,
      RecordFails, Advance, DropBatch, Crash, Restart, Flush, CloseChannel, DeletePublishedBefore, Tick
<1>5. ASSUME pc[q] = "sent" PROVE UpNext(q, f)
  <2>1. ASSUME NEW p \in Publishers, NEW e \in Events,
               MarkPublished(p, e) \/ RecordPublishFailure(p, e)
        PROVE  batch'[q] = batch[q]
    BY <2>1 DEF TypeOK, MarkPublished, RecordPublishFailure, Advance
  <2>2. ASSUME NEW p \in Publishers, ClaimPending(p)
        PROVE  batch'[q] = batch[q]
    <3>1. p # q
      BY <1>5, <2>2 DEF ClaimPending
    <3>2. PICK S \in SUBSET Events : batch' = [batch EXCEPT ![p] = S]
      BY <2>2 DEF ClaimPending
    <3> QED BY <3>1, <3>2 DEF TypeOK
  <2>3. ASSUME NEW p \in Publishers, NEW e \in Events, RecordFails(p, e) \/ Crash(p)
        PROVE  batch'[q] = batch[q]
    BY <2>3 DEF TypeOK, RecordFails, Crash, DropBatch
  <2>4. ASSUME UNCHANGED batch
        PROVE  batch'[q] = batch[q]
    BY <2>4
  <2>5. batch'[q] = batch[q]
    BY <2>1, <2>2, <2>3, <2>4
    DEF Next, Handle, vars, publisher, Append, ClaimLost, SendConfirmed, SendFails,
        SendBuffered, SendThrows, MarkFails, Restart, Flush, CloseChannel, DeletePublishedBefore, Tick
  <2> QED BY <2>5 DEF UpNext
<1> QED BY <1>2, <1>3, <1>4, <1>5

\* Every step preserves LostOnlyUnflushed: only the UPDATE of markPublished
\* publishes, whether or not the call throws, and it follows a send.
LEMMA LostStep ==
  TypeOK /\ SentIsAccounted /\ LostOnlyUnflushed /\ [Next]_vars => LostOnlyUnflushed'
<1> SUFFICES ASSUME TypeOK, SentIsAccounted, LostOnlyUnflushed, [Next]_vars,
                    NEW f \in Events, row'[f] \in {"published", "deleted"}
             PROVE  f \in Accounted'
  BY DEF LostOnlyUnflushed, Accounted
<1>1. Accounted \subseteq Accounted'
  BY AccountedGrows
<1>2. CASE row[f] \in {"published", "deleted"}
  BY <1>1, <1>2 DEF LostOnlyUnflushed, Accounted
<1>3. ASSUME NEW p \in Publishers, MarkPublished(p, f) \/ MarkFails(p, f)
      PROVE  f \in Accounted'
  BY <1>1, <1>3 DEF MarkPublished, MarkFails, SentIsAccounted
<1>4. ASSUME row[f] \notin {"published", "deleted"},
             \A p \in Publishers : ~MarkPublished(p, f) /\ ~MarkFails(p, f)
      PROVE  FALSE
  BY <1>4
  DEF TypeOK, Next, Handle, vars, outbox, Append, ClaimPending, ClaimLost, SendConfirmed,
      SendFails, SendBuffered, SendThrows, MarkPublished, MarkFails, SetPublished,
      RecordPublishFailure, RecordFails, SetFailed, Crash, Restart, Flush, CloseChannel, DeletePublishedBefore, Deletable, Tick
<1> QED BY <1>2, <1>3, <1>4

\* On Service Bus no step fills a buffer.
LEMMA UnconfirmedStep == TypeOK /\ NothingUnconfirmed /\ [Next]_vars => NothingUnconfirmed'
BY DEF TypeOK, NothingUnconfirmed, Next, Handle, vars, publisher, Append, ClaimPending,
       ClaimLost, SendConfirmed, SendFails, SendBuffered, SendThrows, MarkPublished, MarkFails,
       RecordPublishFailure, RecordFails, Crash, Restart, Flush, CloseChannel,
       DeletePublishedBefore, Tick

\* The event half of the invariant holds in every reachable state.
LEMMA EventsInvariant == Spec => []EventInv
<1>1. TypeOK /\ EventInv /\ [Next]_vars => EventInv'
  BY SentStep, LostStep, UnconfirmedStep DEF EventInv
<1> QED BY <1>1, InitEventInv, TypeCorrect, PTL DEF Spec

\* On either broker the only leak is a socket buffer that went down with its
\* process or connection.
THEOREM OnlyBuffersLeak == Spec => []LostOnlyUnflushed
<1>1. EventInv => LostOnlyUnflushed
  BY DEF EventInv
<1> QED BY <1>1, EventsInvariant, PTL

\* Where the broker confirms a send no committed event is ever lost.
THEOREM NothingLostWhenConfirmed ==
  ASSUME BrokerConfirms = TRUE
  PROVE  Spec => []NoEventLost
<1>1. EventInv => NoEventLost
  BY DEF EventInv, LostOnlyUnflushed, NothingUnconfirmed, NoEventLost
<1> QED BY <1>1, EventsInvariant, PTL

-----------------------------------------------------------------------------
(* Claims *)

\* No publisher holds a row at first.
LEMMA InitClaimInv == Init => ClaimInv
BY DEF Init, ClaimInv, ClaimHeld, ClaimExclusive

\* When p updates a row that another publisher holds within its claim, p has
\* outlived its own claim, and the row is noted as overrun.
LEMMA OthersUnharmed ==
  ASSUME TypeOK, ClaimInv, NEW p \in Publishers, NEW q \in Publishers, q # p,
         NEW e \in batch[p], e \in batch[q], left[q] > 0,
         overrun \subseteq overrun', left[p] = 0 => e \in overrun'
  PROVE  e \in overrun'
<1>1. left[p] = 0 \/ left[q] = 0 \/ e \in overrun
  BY DEF ClaimInv, ClaimExclusive
<1>2. left[q] \in Nat
  BY DEF TypeOK
<1> QED BY <1>1, <1>2

\* Where p has settled e and let go of it, the claims of all publishers on the
\* rows they still hold are as they were.
LEMMA SettleStep ==
  ASSUME TypeOK, ClaimInv, NEW p \in Publishers, NEW e \in Events,
         \/ MarkPublished(p, e)
         \/ RecordPublishFailure(p, e)
         \/ RecordFails(p, e) /\ SetFailed(p, e)
  PROVE  ClaimInv'
<1>1. /\ \A q \in Publishers : batch'[q] \subseteq batch[q]
      /\ e \notin batch'[p]
      /\ \A q \in Publishers : left'[q] > 0 => left'[q] = left[q]
      /\ \A q \in Publishers : left'[q] \in Nat
      /\ \A q \in Publishers : q # p => batch'[q] = batch[q] /\ pc'[q] = pc[q]
      /\ overrun \subseteq overrun'
      /\ left[p] = 0 => e \in overrun'
  BY DEF TypeOK, MarkPublished, SetPublished, RecordPublishFailure, RecordFails, SetFailed,
         NoteOverrun, Advance, DropBatch
<1>2. UpNext(p, e) /\ e \in batch[p]
  BY DEF MarkPublished, RecordPublishFailure, RecordFails, UpNext
<1>3. \A f \in Events : f # e => row'[f] = row[f] /\ lease'[f] = lease[f]
  BY DEF TypeOK, MarkPublished, SetPublished, RecordPublishFailure, RecordFails, SetFailed
<1>4. ASSUME NEW q \in Publishers, NEW f \in batch'[q] \ overrun', left'[q] > 0
      PROVE  (row'[f] = "pending" /\ lease'[f] = left'[q]) \/ PublishedUnawares(q, f)'
  <2>1. f \in batch[q] \ overrun /\ left'[q] = left[q] /\ left[q] > 0 /\ f \in Events
    BY <1>1, <1>4 DEF TypeOK
  <2>2. f # e
    BY <1>1, <1>2, <2>1, OthersUnharmed
  <2>3. (row[f] = "pending" /\ lease[f] = left[q]) \/ PublishedUnawares(q, f)
    BY <2>1 DEF ClaimInv, ClaimHeld
  <2>4. CASE q = p
    <3>1. ~UpNext(q, f)
      BY <1>2, <2>1, <2>2, <2>4, UpNextUnique
    <3> QED BY <1>3, <2>1, <2>2, <2>3, <3>1 DEF PublishedUnawares
  <2>5. CASE q # p
    BY <1>1, <1>3, <2>1, <2>2, <2>3, <2>5 DEF PublishedUnawares, UpNext
  <2> QED BY <2>4, <2>5
<1>5. ASSUME NEW q \in Publishers, NEW r \in Publishers, q # r,
             NEW f \in (batch'[q] \cap batch'[r]) \ overrun'
      PROVE  left'[q] = 0 \/ left'[r] = 0
  <2>1. f \in (batch[q] \cap batch[r]) \ overrun
    BY <1>1
  <2>2. left[q] = 0 \/ left[r] = 0
    BY <1>5, <2>1 DEF ClaimInv, ClaimExclusive
  <2> QED BY <1>1, <2>2
<1> QED BY <1>4, <1>5 DEF ClaimInv, ClaimHeld, ClaimExclusive

\* A markPublished that takes effect and throws leaves its row to the one
\* exception of ClaimHeld, and the rows of the others as they were.
LEMMA UnawareStep ==
  ASSUME TypeOK, ClaimInv, NEW p \in Publishers, NEW e \in Events,
         MarkFails(p, e), SetPublished(p, e)
  PROVE  ClaimInv'
<1>1. /\ batch' = batch /\ left' = left
      /\ pc'[p] = "threw"
      /\ \A q \in Publishers : q # p => pc'[q] = pc[q]
      /\ overrun \subseteq overrun'
      /\ left[p] = 0 => e \in overrun'
  BY DEF TypeOK, MarkFails, SetPublished, NoteOverrun
<1>2. UpNext(p, e) /\ e \in batch[p] /\ pc[p] = "sent"
  BY DEF MarkFails, UpNext
<1>3. /\ row'[e] = "published" /\ lease'[e] = 0
      /\ \A f \in Events : f # e => row'[f] = row[f] /\ lease'[f] = lease[f]
  BY DEF TypeOK, SetPublished
<1>4. ASSUME NEW q \in Publishers, NEW f \in batch[q] \ overrun', left[q] > 0
      PROVE  (row'[f] = "pending" /\ lease'[f] = left[q]) \/ PublishedUnawares(q, f)'
  <2>1. f \in batch[q] \ overrun /\ f \in Events
    BY <1>1, <1>4 DEF TypeOK
  <2>2. CASE q = p /\ f = e
    BY <1>1, <1>2, <1>3, <2>2 DEF PublishedUnawares, UpNext
  <2>3. CASE f # e
    <3>1. (row[f] = "pending" /\ lease[f] = left[q]) \/ PublishedUnawares(q, f)
      BY <1>4, <2>1 DEF ClaimInv, ClaimHeld
    <3> QED BY <1>1, <1>2, <1>3, <2>1, <2>3, <3>1 DEF PublishedUnawares, UpNext
  <2>4. CASE q # p /\ f = e
    BY <1>1, <1>2, <1>4, <2>4, OthersUnharmed
  <2> QED BY <2>2, <2>3, <2>4
<1>5. ClaimHeld'
  BY <1>1, <1>4 DEF ClaimHeld
<1>6. ClaimExclusive'
  BY <1>1 DEF ClaimInv, ClaimExclusive
<1> QED BY <1>5, <1>6 DEF ClaimInv

\* A row that can be claimed is not one that somebody holds within a claim.
LEMMA ClaimableIsFree ==
  ASSUME TypeOK, ClaimInv, NEW q \in Publishers, NEW e \in batch[q] \ overrun,
         left[q] > 0, Claimable(e)
  PROVE  FALSE
<1>1. (row[e] = "pending" /\ lease[e] = left[q]) \/ PublishedUnawares(q, e)
  BY DEF ClaimInv, ClaimHeld
<1> QED BY <1>1 DEF Claimable, PublishedUnawares

\* claimPending takes only rows nobody is within a claim of.
LEMMA ClaimStep ==
  ASSUME TypeOK, ClaimInv, NEW p \in Publishers, ClaimPending(p)
  PROVE  ClaimInv'
<1>1. PICK S \in SUBSET Events :
        /\ \A e \in S : Claimable(e)
        /\ lease' = [e \in Events |-> IF e \in S THEN ClaimTicks ELSE lease[e]]
        /\ batch' = [batch EXCEPT ![p] = S]
  BY DEF ClaimPending, Claimed, Selectable, Oldest
<1>2. left' = [left EXCEPT ![p] = ClaimTicks] /\ row' = row /\ overrun' = overrun
  BY DEF ClaimPending
<1>3. ASSUME NEW q \in Publishers, q # p, NEW f \in batch[q] \ overrun, left[q] > 0
      PROVE  f \notin S
  BY <1>1, <1>3, ClaimableIsFree
<1>4. batch'[p] = S /\ left'[p] = ClaimTicks
      /\ \A q \in Publishers :
           q # p => batch'[q] = batch[q] /\ left'[q] = left[q] /\ pc'[q] = pc[q]
  BY <1>1, <1>2 DEF TypeOK, ClaimPending
<1>5. ClaimHeld'
  <2> SUFFICES ASSUME NEW q \in Publishers, NEW f \in batch'[q] \ overrun, left'[q] > 0
               PROVE  \/ row[f] = "pending" /\ lease'[f] = left'[q]
                      \/ PublishedUnawares(q, f)'
    BY <1>2 DEF ClaimHeld
  <2>1. CASE q = p
    BY <1>1, <1>4, <2>1 DEF Claimable
  <2>2. CASE q # p
    <3>1. f \in batch[q] \ overrun /\ left[q] > 0 /\ left'[q] = left[q] /\ f \in Events
      BY <1>4, <2>2 DEF TypeOK
    <3>2. (row[f] = "pending" /\ lease[f] = left[q]) \/ PublishedUnawares(q, f)
      BY <3>1 DEF ClaimInv, ClaimHeld
    <3>3. lease'[f] = lease[f]
      BY <1>1, <1>3, <2>2, <3>1
    <3> QED BY <1>2, <1>4, <2>2, <3>1, <3>2, <3>3 DEF PublishedUnawares, UpNext
  <2> QED BY <2>1, <2>2
<1>6. ClaimExclusive'
  <2> SUFFICES ASSUME NEW q \in Publishers, NEW r \in Publishers, q # r,
                      NEW f \in (batch'[q] \cap batch'[r]) \ overrun
               PROVE  left'[q] = 0 \/ left'[r] = 0
    BY <1>2 DEF ClaimExclusive
  <2>1. left \in [Publishers -> Nat]
    BY DEF TypeOK
  <2>2. CASE q = p
    BY <1>3, <1>4, <2>1, <2>2
  <2>3. CASE r = p
    BY <1>3, <1>4, <2>1, <2>3
  <2>4. CASE q # p /\ r # p
    BY <1>4, <2>4 DEF ClaimInv, ClaimExclusive
  <2> QED BY <2>2, <2>3, <2>4
<1> QED BY <1>5, <1>6 DEF ClaimInv

\* A claim whose answer is lost is on rows nobody is within a claim of either.
LEMMA ClaimLostStep ==
  ASSUME TypeOK, ClaimInv, NEW p \in Publishers, ClaimLost(p)
  PROVE  ClaimInv'
<1>1. PICK S \in SUBSET Events :
        /\ \A e \in S : Claimable(e)
        /\ lease' = [e \in Events |-> IF e \in S THEN ClaimTicks ELSE lease[e]]
  BY DEF ClaimLost, Claimed, Selectable, Oldest
<1>2. pc' = pc /\ batch' = batch /\ left' = left /\ row' = row /\ overrun' = overrun
  BY DEF ClaimLost, publisher
<1>3. ASSUME NEW q \in Publishers, NEW f \in batch[q] \ overrun, left[q] > 0
      PROVE  (row[f] = "pending" /\ lease'[f] = left[q]) \/ PublishedUnawares(q, f)'
  <2>1. (row[f] = "pending" /\ lease[f] = left[q]) \/ PublishedUnawares(q, f)
    BY <1>3 DEF ClaimInv, ClaimHeld
  <2>2. f \in Events /\ f \notin S
    BY <1>1, <1>3, ClaimableIsFree DEF TypeOK
  <2> QED BY <1>1, <1>2, <2>1, <2>2 DEF PublishedUnawares, UpNext
<1> QED BY <1>2, <1>3 DEF ClaimInv, ClaimHeld, ClaimExclusive

\* Claims and what their holders think of them run out together.
LEMMA TickStep == TypeOK /\ ClaimInv /\ Tick => ClaimInv'
<1> SUFFICES ASSUME TypeOK, ClaimInv, Tick PROVE ClaimInv'
  OBVIOUS
<1>1. \A q \in Publishers : left'[q] = Less(left[q]) /\ left[q] \in Nat
  BY DEF Tick, TypeOK
<1>2. \A e \in Events : lease'[e] = Less(lease[e]) /\ lease[e] \in Nat
  BY DEF Tick, TypeOK
<1>3. row' = row /\ batch' = batch /\ overrun' = overrun /\ pc' = pc
  BY DEF Tick
<1>4. \A q \in Publishers : batch[q] \subseteq Events
  BY DEF TypeOK
<1>5. ClaimHeld'
  <2> SUFFICES ASSUME NEW q \in Publishers, NEW e \in batch[q] \ overrun, left'[q] > 0
               PROVE  (row[e] = "pending" /\ lease'[e] = left'[q]) \/ PublishedUnawares(q, e)'
    BY <1>3 DEF ClaimHeld
  <2>1. left[q] > 0 /\ e \in Events
    BY <1>1, <1>4 DEF Less
  <2>2. (row[e] = "pending" /\ lease[e] = left[q]) \/ PublishedUnawares(q, e)
    BY <2>1 DEF ClaimInv, ClaimHeld
  <2> QED BY <1>1, <1>2, <1>3, <2>1, <2>2 DEF PublishedUnawares, UpNext, Less
<1>6. ClaimExclusive'
  BY <1>1, <1>3 DEF ClaimInv, ClaimExclusive, Less
<1> QED BY <1>5, <1>6 DEF ClaimInv

\* A step that drops a batch, or leaves batches, claims and rows alone and
\* takes no publisher out of its catch clause.
LEMMA OtherClaimStep ==
  ASSUME TypeOK, ClaimInv,
         \/ /\ UNCHANGED <<row, lease, batch, left, overrun>>
            /\ \A q \in Publishers : pc[q] = "threw" => pc'[q] = "threw"
         \/ \E p \in Publishers, label \in {"idle", "down"} :
              DropBatch(p, label) /\ UNCHANGED <<row, lease, overrun>>
  PROVE  ClaimInv'
<1>1. /\ \A q \in Publishers : batch'[q] = batch[q] \/ batch'[q] = {}
      /\ \A q \in Publishers : left'[q] = left[q] \/ left'[q] = 0
      /\ \A q \in Publishers : pc[q] = "threw" /\ batch'[q] # {} => pc'[q] = "threw"
      /\ row' = row /\ lease' = lease /\ overrun' = overrun
  BY DEF DropBatch, TypeOK
<1>2. ASSUME NEW q \in Publishers, NEW f \in batch'[q] \ overrun, left'[q] > 0
      PROVE  (row[f] = "pending" /\ lease[f] = left'[q]) \/ PublishedUnawares(q, f)'
  <2>1. batch'[q] = batch[q] /\ left'[q] = left[q]
    BY <1>1, <1>2
  <2>2. (row[f] = "pending" /\ lease[f] = left[q]) \/ PublishedUnawares(q, f)
    BY <1>2, <2>1 DEF ClaimInv, ClaimHeld
  <2> QED BY <1>1, <2>1, <2>2 DEF PublishedUnawares, UpNext
<1>3. ClaimHeld'
  BY <1>1, <1>2 DEF ClaimHeld
<1>4. ClaimExclusive'
  BY <1>1 DEF ClaimInv, ClaimExclusive
<1> QED BY <1>3, <1>4 DEF ClaimInv

\* A commit from outside is of a row nobody holds within a claim, and the
\* retention delete is of a published one.
LEMMA OutsideStep ==
  ASSUME TypeOK, ClaimInv, DeletePublishedBefore \/ \E e \in Events : Append(e)
  PROVE  ClaimInv'
<1>1. /\ batch' = batch /\ left' = left /\ lease' = lease /\ overrun' = overrun /\ pc' = pc
      /\ \A f \in Events : row[f] = "pending" => row'[f] = "pending"
      /\ \A f \in Events :
           row[f] \in {"published", "deleted"} => row'[f] \in {"published", "deleted"}
  BY DEF DeletePublishedBefore, Deletable, Append, publisher, TypeOK
<1>2. \A q \in Publishers, f \in Events : PublishedUnawares(q, f) => PublishedUnawares(q, f)'
  BY <1>1 DEF PublishedUnawares, UpNext
<1> QED BY <1>1, <1>2 DEF ClaimInv, ClaimHeld, ClaimExclusive, TypeOK

\* The claim half of the invariant holds in every reachable state.
LEMMA ClaimsInvariant == Spec => []ClaimInv
<1>1. ASSUME TypeOK, ClaimInv, [Next]_vars PROVE ClaimInv'
  <2>1. ASSUME NEW p \in Publishers, NEW e \in Events, Handle(p, e) PROVE ClaimInv'
    <3>1. CASE SendConfirmed(p, e) \/ SendFails(p, e) \/ SendBuffered(p, e) \/ SendThrows(p, e)
      BY <1>1, <3>1, OtherClaimStep
      DEF TypeOK, outbox, SendConfirmed, SendFails, SendBuffered, SendThrows
    <3>2. CASE MarkFails(p, e)
      <4>1. CASE UNCHANGED <<outbox, overrun>>
        BY <1>1, <3>2, <4>1, OtherClaimStep DEF TypeOK, outbox, MarkFails
      <4>2. CASE SetPublished(p, e)
        BY <1>1, <3>2, <4>2, UnawareStep
      <4> QED BY <3>2, <4>1, <4>2 DEF MarkFails
    <3>3. CASE RecordFails(p, e)
      <4>1. CASE UNCHANGED <<outbox, overrun>>
        BY <1>1, <3>3, <4>1, OtherClaimStep DEF outbox, RecordFails
      <4>2. CASE SetFailed(p, e)
        BY <1>1, <3>3, <4>2, SettleStep
      <4> QED BY <3>3, <4>1, <4>2 DEF RecordFails
    <3>4. CASE MarkPublished(p, e) \/ RecordPublishFailure(p, e)
      BY <1>1, <3>4, SettleStep
    <3> QED BY <2>1, <3>1, <3>2, <3>3, <3>4 DEF Handle
  <2>2. ASSUME NEW p \in Publishers, Crash(p) PROVE ClaimInv'
    BY <1>1, <2>2, OtherClaimStep DEF outbox, Crash
  <2>3. ASSUME NEW p \in Publishers, Restart(p) PROVE ClaimInv'
    BY <1>1, <2>3, OtherClaimStep DEF TypeOK, outbox, Restart
  <2>4. CASE UNCHANGED <<outbox, pc, batch, left, overrun>>
    BY <1>1, <2>4, OtherClaimStep DEF outbox
  <2> QED
    BY <1>1, <2>1, <2>2, <2>3, <2>4, ClaimStep, ClaimLostStep, TickStep, OutsideStep
    DEF Next, vars, publisher, Flush, CloseChannel
<1> QED BY <1>1, InitClaimInv, TypeCorrect, PTL DEF Spec

\* A claim excludes every other publisher until some publisher outlives one.
THEOREM ClaimsExclude == Spec => []ClaimExclusive
<1>1. ClaimInv => ClaimExclusive
  BY DEF ClaimInv
<1> QED BY <1>1, ClaimsInvariant, PTL

\* A publisher within its claim finds the row as it left it, but for one that
\* its own markPublished has published without its knowing.
THEOREM ClaimsHold == Spec => []ClaimHeld
<1>1. ClaimInv => ClaimHeld
  BY DEF ClaimInv
<1> QED BY <1>1, ClaimsInvariant, PTL

\* A published event never becomes claimable again.
THEOREM PublishedStaysPublished == Spec => PublishedIsFinal
<1> DEFINE Final ==
      \A e \in Events :
        /\ row[e] = "published" => row'[e] \in {"published", "deleted"}
        /\ row[e] = "deleted" => row'[e] = "deleted"
<1>1. ASSUME TypeOK, [Next]_vars PROVE [Final]_vars
  BY <1>1
  DEF TypeOK, Next, Handle, vars, outbox, Append, ClaimPending, ClaimLost, SendConfirmed,
      SendFails, SendBuffered, SendThrows, MarkPublished, MarkFails, SetPublished,
      RecordPublishFailure, RecordFails, SetFailed, Crash, Restart, Flush, CloseChannel, DeletePublishedBefore, Deletable, Tick
<1> HIDE DEF Final
<1>2. Spec => [][Final]_vars
  BY <1>1, TypeCorrect, PTL DEF Spec
<1> QED BY <1>2, PTL DEF PublishedIsFinal, Final

=============================================================================
