-------------------------- MODULE RabbitDeliveryProofs --------------------------
(***************************************************************************)
(* Invariance proofs for RabbitDelivery, for every number of events,       *)
(* copies and consumers, every prefetch, every maximum of deliveries, and  *)
(* any number of publications and crashes.                                 *)
(***************************************************************************)
EXTENDS RabbitDelivery, SequenceTheorems, TLAPS

\* Every variable has its type, a message that is held has a holder, and a place that is
\* free has no event.
TypeOK ==
  /\ published \in [Events -> Nat]
  /\ place \in [Copies -> Places]
  /\ event \in [Copies -> Events \cup {None}]
  /\ count \in [Copies -> Nat \ {0}]
  /\ holder \in [Copies -> Consumers \cup {None}]
  /\ handled \subseteq Copies
  /\ socket \in [Consumers -> Seq(Frame)]
  /\ completed \subseteq Events
  /\ permanent \subseteq Events
  /\ attempts \in [Events -> Nat]
  /\ crashes \in Nat
  /\ \A c \in Copies : place[c] = "held" <=> holder[c] # None
  /\ \A c \in Copies : place[c] = "free" <=> event[c] = None

-----------------------------------------------------------------------------
(* Frames *)

Ack(c) == [kind |-> "ack", copy |-> c]
Nack(c) == [kind |-> "nack", copy |-> c]
Retry(c) == [kind |-> "retry", copy |-> c]

\* applySettlement writes one frame, or a retry and then the acknowledgement.
LEMMA FramesWritten ==
  ASSUME NEW c \in Copies
  PROVE  /\ Frames("ack", c) = <<Ack(c)>>
         /\ Frames("deadLetter", c) = <<Nack(c)>>
         /\ Frames("retry", c) = <<Retry(c), Ack(c)>>
         /\ \A plan \in {"ack", "deadLetter", "retry"} : Frames(plan, c) \in Seq(Frame)
<1>1. Ack(c) \in Frame /\ Nack(c) \in Frame /\ Retry(c) \in Frame
  BY DEF Ack, Nack, Retry, Frame
<1>2. Frames("ack", c) = <<Ack(c)>>
  BY DEF Frames, Ack
<1>3. Frames("deadLetter", c) = <<Nack(c)>>
  BY DEF Frames, Nack
<1>4. Frames("retry", c) = <<Retry(c), Ack(c)>>
  BY DEF Frames, Retry, Ack
<1>5. <<Ack(c)>> \in Seq(Frame) /\ <<Nack(c)>> \in Seq(Frame) /\ <<Retry(c), Ack(c)>> \in Seq(Frame)
  BY <1>1
<1> QED BY <1>2, <1>3, <1>4, <1>5

\* planSettlement answers with one of the three plans.
LEMMA PlanTyped ==
  ASSUME NEW action \in Action, NEW n \in Nat
  PROVE  PlanSettlement(action, n) \in {"ack", "deadLetter", "retry"}
BY RabbitAssumption DEF PlanSettlement, Action

\* The frames at the end of a socket after a settlement are those of its plan.
LEMMA Appended ==
  ASSUME NEW s \in Seq(Frame), NEW f \in Seq(Frame), NEW i \in 1..Len(s \o f)
  PROVE  \/ i \in 1..Len(s) /\ (s \o f)[i] = s[i]
         \/ i - Len(s) \in 1..Len(f) /\ (s \o f)[i] = f[i - Len(s)]
<1>1. Len(s) \in Nat /\ Len(f) \in Nat /\ Len(s \o f) = Len(s) + Len(f)
  BY ConcatProperties, LenProperties
<1>2. CASE i <= Len(s)
  BY <1>1, <1>2, ConcatProperties
<1>3. CASE i > Len(s)
  <2>1. i - Len(s) \in 1..Len(f)
    BY <1>1, <1>3
  <2> QED BY <1>1, <1>3, <2>1, ConcatProperties
<1> QED BY <1>1, <1>2, <1>3

\* The names of the copies the broker does not use.
LEMMA NextFreeIsFree ==
  ASSUME Free # {}
  PROVE  NextFree \in Copies /\ place[NextFree] = "free"
BY DEF Free, NextFree

-----------------------------------------------------------------------------
(* What frames are about *)

\* A frame that is on its way is about a message its sender holds and has settled, and two
\* frames about one message are its retry and then its acknowledgement.
FrameInv ==
  \A w \in Consumers : \A i \in 1..Len(socket[w]) :
    /\ holder[socket[w][i].copy] = w /\ socket[w][i].copy \in handled
    /\ \A j \in 1..Len(socket[w]) :
         i < j /\ socket[w][i].copy = socket[w][j].copy =>
           socket[w][i].kind = "retry" /\ socket[w][j].kind = "ack"

LEMMA FrameTyped ==
  ASSUME TypeOK, NEW w \in Consumers, NEW i \in 1..Len(socket[w])
  PROVE  /\ socket[w][i] \in Frame /\ socket[w][i].copy \in Copies
         /\ socket[w][i] = [kind |-> socket[w][i].kind, copy |-> socket[w][i].copy]
<1>1. socket[w] \in Seq(Frame)
  BY DEF TypeOK
<1>2. socket[w][i] \in Frame
  BY <1>1, ElementOfSeq
<1> QED BY <1>2 DEF Frame

\* The frame the broker receives is about a message of its sender.
LEMMA HeadSettled ==
  ASSUME TypeOK, FrameInv, NEW w \in Consumers, NEW c \in Copies,
         NEW kind \in {"ack", "nack", "retry"}, Received(w, kind, c)
  PROVE  /\ 1 \in 1..Len(socket[w]) /\ socket[w][1] = [kind |-> kind, copy |-> c]
         /\ holder[c] = w /\ c \in handled
<1>1. socket[w] \in Seq(Frame) /\ socket[w] # <<>>
  BY DEF TypeOK, Received
<1>2. Len(socket[w]) \in Nat /\ Len(socket[w]) >= 1
  BY <1>1, EmptySeq, LenProperties
<1>3. socket[w][1] = [kind |-> kind, copy |-> c]
  BY <1>1, <1>2 DEF Received
<1>4. 1 \in 1..Len(socket[w])
  BY <1>2
<1>5. holder[socket[w][1].copy] = w /\ socket[w][1].copy \in handled
  BY <1>4 DEF FrameInv
<1> QED BY <1>3, <1>4, <1>5

\* The frames that are left: those after it, and none about the message it settles.
LEMMA TailLeft ==
  ASSUME TypeOK, FrameInv, NEW w \in Consumers, NEW c \in Copies,
         NEW kind \in {"ack", "nack", "retry"}, Received(w, kind, c),
         NEW i \in 1..Len(socket'[w])
  PROVE  /\ i + 1 \in 1..Len(socket[w]) /\ socket'[w][i] = socket[w][i + 1]
         /\ kind # "retry" => socket[w][i + 1].copy # c
<1>1. socket[w] \in Seq(Frame) /\ socket[w] # <<>>
  BY DEF TypeOK, Received
<1>2. socket'[w] = Tail(socket[w])
  BY DEF Received, TypeOK
<1>3. Len(socket[w]) \in Nat /\ Len(socket'[w]) = Len(socket[w]) - 1
  BY <1>1, <1>2, HeadTailProperties, LenProperties
<1>4. socket'[w][i] = socket[w][i + 1]
  BY <1>1, <1>2, <1>3
<1>5. i \in Nat /\ i + 1 \in 1..Len(socket[w]) /\ 1 < i + 1
  BY <1>3
<1>6. 1 \in 1..Len(socket[w]) /\ socket[w][1] = [kind |-> kind, copy |-> c]
  BY <1>1, <1>3, <1>5 DEF Received
<1>7. \A j \in 1..Len(socket[w]) :
        1 < j /\ socket[w][1].copy = socket[w][j].copy => socket[w][1].kind = "retry"
  BY <1>6 DEF FrameInv
<1> QED BY <1>4, <1>5, <1>6, <1>7

LEMMA OthersKept ==
  ASSUME TypeOK, NEW w \in Consumers, NEW c, NEW kind, Received(w, kind, c),
         NEW v \in Consumers, v # w
  PROVE  socket'[v] = socket[v]
BY DEF Received, TypeOK

\* Receiving a frame leaves a socket whose frames obey the same order.
LEMMA ReceivedKeeps ==
  ASSUME TypeOK, FrameInv, NEW w \in Consumers, NEW c \in Copies,
         NEW kind \in {"ack", "nack", "retry"}, Received(w, kind, c),
         \A d \in Copies : (kind = "retry" \/ d # c) =>
           (holder[d] # None => holder'[d] = holder[d]) /\ (d \in handled => d \in handled')
  PROVE  FrameInv'
<1>1. None \notin Consumers
  BY RabbitAssumption
<1>2. holder[c] = w
  BY HeadSettled
<1>3. ASSUME NEW i \in 1..Len(socket'[w])
      PROVE  holder'[socket'[w][i].copy] = w /\ socket'[w][i].copy \in handled'
  <2>1. /\ i + 1 \in 1..Len(socket[w]) /\ socket'[w][i] = socket[w][i + 1]
        /\ kind # "retry" => socket[w][i + 1].copy # c
    BY <1>3, TailLeft
  <2>2. socket[w][i + 1].copy \in Copies
    BY <2>1, FrameTyped
  <2>3. holder[socket[w][i + 1].copy] = w /\ socket[w][i + 1].copy \in handled
    BY <2>1 DEF FrameInv
  <2> QED BY <1>1, <2>1, <2>2, <2>3
<1>4. ASSUME NEW i \in 1..Len(socket'[w]), NEW j \in 1..Len(socket'[w]),
             i < j, socket'[w][i].copy = socket'[w][j].copy
      PROVE  socket'[w][i].kind = "retry" /\ socket'[w][j].kind = "ack"
  <2>1. i + 1 \in 1..Len(socket[w]) /\ socket'[w][i] = socket[w][i + 1]
    BY <1>4, TailLeft
  <2>2. j + 1 \in 1..Len(socket[w]) /\ socket'[w][j] = socket[w][j + 1]
    BY <1>4, TailLeft
  <2>3. i + 1 < j + 1
    BY <1>4, <2>1, <2>2
  <2>4. socket[w][i + 1].copy = socket[w][j + 1].copy
    BY <1>4, <2>1, <2>2
  <2>5. socket[w][i + 1].kind = "retry" /\ socket[w][j + 1].kind = "ack"
    BY <2>1, <2>2, <2>3, <2>4 DEF FrameInv
  <2> QED BY <2>1, <2>2, <2>5
<1>5. ASSUME NEW v \in Consumers, v # w, NEW i \in 1..Len(socket'[v])
      PROVE  /\ holder'[socket'[v][i].copy] = v /\ socket'[v][i].copy \in handled'
             /\ \A j \in 1..Len(socket'[v]) :
                  i < j /\ socket'[v][i].copy = socket'[v][j].copy =>
                    socket'[v][i].kind = "retry" /\ socket'[v][j].kind = "ack"
  <2>1. socket'[v] = socket[v]
    BY <1>5, OthersKept
  <2>2. i \in 1..Len(socket[v])
    BY <1>5, <2>1
  <2>3. socket[v][i].copy \in Copies
    BY <2>2, FrameTyped
  <2>4. /\ holder[socket[v][i].copy] = v /\ socket[v][i].copy \in handled
        /\ \A j \in 1..Len(socket[v]) :
             i < j /\ socket[v][i].copy = socket[v][j].copy =>
               socket[v][i].kind = "retry" /\ socket[v][j].kind = "ack"
    BY <2>2 DEF FrameInv
  <2>5. holder'[socket[v][i].copy] = v /\ socket[v][i].copy \in handled'
    BY <1>1, <1>2, <1>5, <2>3, <2>4
  <2> QED BY <2>1, <2>4, <2>5
<1> QED BY <1>3, <1>4, <1>5 DEF FrameInv

\* Settling a message that has no frame on its way gives it those of its plan.
LEMMA SettleKeeps ==
  ASSUME TypeOK, FrameInv, NEW w \in Consumers, NEW c \in Copies,
         NEW plan \in {"ack", "deadLetter", "retry"}, holder[c] = w, c \notin handled,
         Settle(w, c, plan)
  PROVE  FrameInv'
<1> DEFINE s == socket[w]
           f == Frames(plan, c)
<1>1. s \in Seq(Frame) /\ f \in Seq(Frame)
  BY FramesWritten DEF TypeOK
<1>2. /\ socket'[w] = s \o f /\ \A v \in Consumers \ {w} : socket'[v] = socket[v]
      /\ handled' = handled \cup {c} /\ holder' = holder
  BY DEF Settle, TypeOK, message
<1>3. /\ \A k \in 1..Len(f) : f[k].copy = c
      /\ \A k, l \in 1..Len(f) : k < l => f[k].kind = "retry" /\ f[l].kind = "ack"
  <2>1. CASE plan = "ack"
    BY <2>1, FramesWritten DEF Ack
  <2>2. CASE plan = "deadLetter"
    BY <2>2, FramesWritten DEF Nack
  <2>3. CASE plan = "retry"
    BY <2>3, FramesWritten DEF Ack, Retry
  <2> QED BY <2>1, <2>2, <2>3
<1>4. \A i \in 1..Len(s) : s[i].copy # c
  BY DEF FrameInv
<1> SUFFICES ASSUME NEW i \in 1..Len(socket'[w])
             PROVE  /\ holder'[socket'[w][i].copy] = w /\ socket'[w][i].copy \in handled'
                    /\ \A j \in 1..Len(socket'[w]) :
                         i < j /\ socket'[w][i].copy = socket'[w][j].copy =>
                           socket'[w][i].kind = "retry" /\ socket'[w][j].kind = "ack"
  <2>1. ASSUME NEW v \in Consumers, v # w, NEW i \in 1..Len(socket'[v])
        PROVE  /\ holder'[socket'[v][i].copy] = v /\ socket'[v][i].copy \in handled'
               /\ \A j \in 1..Len(socket'[v]) :
                    i < j /\ socket'[v][i].copy = socket'[v][j].copy =>
                      socket'[v][i].kind = "retry" /\ socket'[v][j].kind = "ack"
    BY <1>2, <2>1 DEF FrameInv
  <2> QED BY <2>1 DEF FrameInv
<1>5. Len(s) \in Nat /\ Len(f) \in Nat
  BY <1>1, LenProperties
<1>6. \A k \in 1..Len(socket'[w]) :
        \/ k \in 1..Len(s) /\ socket'[w][k] = s[k]
        \/ k - Len(s) \in 1..Len(f) /\ socket'[w][k] = f[k - Len(s)]
  BY <1>1, <1>2, Appended
<1> HIDE DEF s, f
<1>7. holder'[socket'[w][i].copy] = w /\ socket'[w][i].copy \in handled'
  <2>1. CASE i \in 1..Len(s) /\ socket'[w][i] = s[i]
    BY <1>2, <2>1 DEF FrameInv, s
  <2>2. CASE i - Len(s) \in 1..Len(f) /\ socket'[w][i] = f[i - Len(s)]
    BY <1>2, <1>3, <2>2
  <2> QED BY <1>6, <2>1, <2>2
<1>8. ASSUME NEW j \in 1..Len(socket'[w]), i < j, socket'[w][i].copy = socket'[w][j].copy
      PROVE  socket'[w][i].kind = "retry" /\ socket'[w][j].kind = "ack"
  <2>1. CASE j \in 1..Len(s) /\ socket'[w][j] = s[j]
    <3>1. i \in 1..Len(s) /\ socket'[w][i] = s[i]
      BY <1>5, <1>6, <1>8, <2>1
    <3> QED BY <1>8, <2>1, <3>1 DEF FrameInv, s
  <2>2. CASE j - Len(s) \in 1..Len(f) /\ socket'[w][j] = f[j - Len(s)]
    <3>1. i - Len(s) \in 1..Len(f) /\ socket'[w][i] = f[i - Len(s)]
      <4>1. f[j - Len(s)].copy = c
        BY <1>3, <2>2
      <4>2. socket'[w][i].copy = c
        BY <1>8, <2>2, <4>1
      <4>3. ~(i \in 1..Len(s) /\ socket'[w][i] = s[i])
        BY <1>4, <4>2
      <4> QED BY <1>6, <4>3
    <3>2. i - Len(s) < j - Len(s)
      BY <1>5, <1>8
    <3> QED BY <1>3, <2>2, <3>1, <3>2
  <2> QED BY <1>6, <2>1, <2>2
<1> QED BY <1>7, <1>8

-----------------------------------------------------------------------------
(* Types *)

LEMMA InitTypeOK == Init => TypeOK
<1>1. <<>> \in Seq(Frame)
  OBVIOUS
<1> QED BY <1>1, RabbitAssumption DEF Init, TypeOK, Places

LEMMA NextTypeOK == TypeOK /\ FrameInv /\ [Next]_vars => TypeOK'
<1> SUFFICES ASSUME TypeOK, FrameInv, [Next]_vars PROVE TypeOK'
  OBVIOUS
<1> USE RabbitAssumption
<1>1. ASSUME NEW e \in Events, Publish(e) PROVE TypeOK'
  <2>1. PICK d \in Copies : d = NextFree /\ place[d] = "free"
    BY <1>1, NextFreeIsFree DEF Publish
  <2>2. /\ place' = [place EXCEPT ![d] = "work"] /\ event' = [event EXCEPT ![d] = e]
        /\ count' = [count EXCEPT ![d] = 1]
    BY <1>1, <2>1 DEF Publish, Store
  <2>3. published' \in [Events -> Nat]
    BY <1>1 DEF Publish, TypeOK
  <2> QED BY <1>1, <2>1, <2>2, <2>3 DEF Publish, TypeOK, Places, history
<1>2. ASSUME NEW w \in Consumers, NEW c \in Copies, Deliver(w, c) PROVE TypeOK'
  BY <1>2 DEF Deliver, TypeOK, Places, history
<1>3. ASSUME NEW w \in Consumers, NEW c \in Copies, SettleUnparsable(w, c) PROVE TypeOK'
  <2>1. socket' \in [Consumers -> Seq(Frame)]
    BY <1>3, FramesWritten, ConcatProperties DEF SettleUnparsable, Settle, TypeOK
  <2> QED BY <1>3, <2>1 DEF SettleUnparsable, Settle, TypeOK, message
<1>4. ASSUME NEW w \in Consumers, NEW c \in Copies, NEW action \in Action,
             SettleHandled(w, c, action)
      PROVE  TypeOK'
  <2>1. PlanSettlement(action, count[c]) \in {"ack", "deadLetter", "retry"}
    BY PlanTyped DEF TypeOK
  <2>2. socket' \in [Consumers -> Seq(Frame)]
    BY <1>4, <2>1, FramesWritten, ConcatProperties DEF SettleHandled, Settle, TypeOK
  <2>3. event[c] \in Events
    BY <1>4 DEF SettleHandled, TypeOK
  <2>4. attempts' \in [Events -> Nat] /\ completed' \subseteq Events /\ permanent' \subseteq Events
    BY <1>4, <2>3 DEF SettleHandled, TypeOK
  <2> QED BY <1>4, <2>2, <2>4 DEF SettleHandled, Settle, TypeOK, message
<1>5. ASSUME NEW w \in Consumers, NEW c \in Copies,
             NEW kind \in {"ack", "nack", "retry"}, Received(w, kind, c)
      PROVE  socket' \in [Consumers -> Seq(Frame)]
  BY <1>5, HeadTailProperties DEF Received, TypeOK
<1>6. ASSUME NEW w \in Consumers, NEW c \in Copies, ReceiveAck(w, c) PROVE TypeOK'
  BY <1>5, <1>6 DEF ReceiveAck, Received, Remove, TypeOK, Places, history
<1>7. ASSUME NEW w \in Consumers, NEW c \in Copies, ReceiveNack(w, c) PROVE TypeOK'
  <2>1. event[c] # None
    <3>1. Received(w, "nack", c)
      BY <1>7 DEF ReceiveNack
    <3>2. holder[c] = w
      BY <3>1, HeadSettled
    <3> QED BY <3>2 DEF TypeOK
  <2> QED BY <1>5, <1>7, <2>1 DEF ReceiveNack, Received, TypeOK, Places, history
<1>8. ASSUME NEW w \in Consumers, NEW c \in Copies, ReceiveRetry(w, c) PROVE TypeOK'
  <2>1. PICK d \in Copies : d = NextFree /\ place[d] = "free"
    BY <1>8, NextFreeIsFree DEF ReceiveRetry
  <2>2. /\ place' = [place EXCEPT ![d] = "retry"] /\ event' = [event EXCEPT ![d] = event[c]]
        /\ count' = [count EXCEPT ![d] = count[c] + 1]
    BY <1>8, <2>1 DEF ReceiveRetry, Store
  <2>3. event[c] \in Events
    <3>1. Received(w, "retry", c)
      BY <1>8 DEF ReceiveRetry
    <3>2. holder[c] = w
      BY <3>1, HeadSettled
    <3> QED BY <3>2 DEF TypeOK
  <2> QED BY <1>5, <1>8, <2>1, <2>2, <2>3 DEF ReceiveRetry, Received, TypeOK, Places, history
<1>9. ASSUME NEW c \in Copies, RetryExpires(c) PROVE TypeOK'
  BY <1>9 DEF RetryExpires, TypeOK, Places, history
<1>10. ASSUME NEW w \in Consumers, Crash(w) PROVE TypeOK'
  <2>1. /\ place' \in [Copies -> Places] /\ holder' \in [Copies -> Consumers \cup {None}]
        /\ handled' \subseteq Copies /\ crashes' \in Nat
    BY <1>10 DEF Crash, Requeued, TypeOK, Places
  <2>2. <<>> \in Seq(Frame)
    OBVIOUS
  <2>3. socket' \in [Consumers -> Seq(Frame)]
    BY <1>10, <2>2 DEF Crash, TypeOK
  <2> QED BY <1>10, <2>1, <2>3 DEF Crash, Requeued, TypeOK, history
<1>11. ASSUME NEW w \in Consumers, Restart(w) PROVE TypeOK'
  BY <1>11 DEF Restart, TypeOK, message, history
<1>12. CASE UNCHANGED vars
  BY <1>12 DEF vars, message, history, TypeOK
<1> QED
  BY <1>1, <1>2, <1>3, <1>4, <1>6, <1>7, <1>8, <1>9, <1>10, <1>11, <1>12 DEF Next, Consume

-----------------------------------------------------------------------------
(* Frames in order *)

LEMMA InitFrameInv == Init => FrameInv
BY EmptySeq DEF Init, FrameInv

LEMMA NextFrameInv == TypeOK /\ FrameInv /\ [Next]_vars => FrameInv'
<1> SUFFICES ASSUME TypeOK, FrameInv, [Next]_vars PROVE FrameInv'
  OBVIOUS
<1>0. None \notin Consumers
  BY RabbitAssumption
<1>s. ASSUME UNCHANGED socket,
             \A d \in Copies : d \in handled /\ holder[d] # None =>
               holder'[d] = holder[d] /\ d \in handled'
      PROVE  FrameInv'
  <2> SUFFICES ASSUME NEW w \in Consumers, NEW i \in 1..Len(socket[w])
               PROVE  /\ holder'[socket[w][i].copy] = w /\ socket[w][i].copy \in handled'
                      /\ \A j \in 1..Len(socket[w]) :
                           i < j /\ socket[w][i].copy = socket[w][j].copy =>
                             socket[w][i].kind = "retry" /\ socket[w][j].kind = "ack"
    BY <1>s DEF FrameInv
  <2>1. socket[w][i].copy \in Copies
    BY FrameTyped
  <2>2. holder[socket[w][i].copy] = w /\ socket[w][i].copy \in handled
    BY DEF FrameInv
  <2> QED BY <1>0, <1>s, <2>1, <2>2 DEF FrameInv
<1>1. ASSUME NEW e \in Events, Publish(e) PROVE FrameInv'
  BY <1>s, <1>1 DEF Publish, Store
<1>2. ASSUME NEW w \in Consumers, NEW c \in Copies, Deliver(w, c) PROVE FrameInv'
  <2>1. holder[c] = None
    BY <1>2 DEF Deliver, TypeOK
  <2> QED BY <1>s, <1>2, <2>1 DEF Deliver, TypeOK
<1>3. ASSUME NEW w \in Consumers, NEW c \in Copies, SettleUnparsable(w, c) PROVE FrameInv'
  BY <1>3, SettleKeeps DEF SettleUnparsable
<1>4. ASSUME NEW w \in Consumers, NEW c \in Copies, NEW action \in Action,
             SettleHandled(w, c, action)
      PROVE  FrameInv'
  <2>1. PlanSettlement(action, count[c]) \in {"ack", "deadLetter", "retry"}
    BY PlanTyped DEF TypeOK
  <2> QED BY <1>4, <2>1, SettleKeeps DEF SettleHandled
<1>5. ASSUME NEW w \in Consumers, NEW c \in Copies, ReceiveAck(w, c) PROVE FrameInv'
  <2>1. Received(w, "ack", c) /\ "ack" \in {"ack", "nack", "retry"}
    BY <1>5 DEF ReceiveAck
  <2>2. \A d \in Copies : d # c => holder'[d] = holder[d] /\ (d \in handled => d \in handled')
    BY <1>5 DEF ReceiveAck, Remove, TypeOK
  <2> QED BY <2>1, <2>2, ReceivedKeeps
<1>6. ASSUME NEW w \in Consumers, NEW c \in Copies, ReceiveNack(w, c) PROVE FrameInv'
  <2>1. Received(w, "nack", c) /\ "nack" \in {"ack", "nack", "retry"}
    BY <1>6 DEF ReceiveNack
  <2>2. \A d \in Copies : d # c => holder'[d] = holder[d] /\ (d \in handled => d \in handled')
    BY <1>6 DEF ReceiveNack, TypeOK
  <2> QED BY <2>1, <2>2, ReceivedKeeps
<1>7. ASSUME NEW w \in Consumers, NEW c \in Copies, ReceiveRetry(w, c) PROVE FrameInv'
  <2>1. Received(w, "retry", c) /\ "retry" \in {"ack", "nack", "retry"}
    BY <1>7 DEF ReceiveRetry
  <2>2. holder' = holder /\ handled' = handled
    BY <1>7 DEF ReceiveRetry
  <2> QED BY <2>1, <2>2, ReceivedKeeps
<1>8. ASSUME NEW c \in Copies, RetryExpires(c) PROVE FrameInv'
  BY <1>s, <1>8 DEF RetryExpires
<1>9. ASSUME NEW w \in Consumers, Crash(w) PROVE FrameInv'
  <2> SUFFICES ASSUME NEW v \in Consumers, NEW i \in 1..Len(socket'[v])
               PROVE  /\ holder'[socket'[v][i].copy] = v /\ socket'[v][i].copy \in handled'
                      /\ \A j \in 1..Len(socket'[v]) :
                           i < j /\ socket'[v][i].copy = socket'[v][j].copy =>
                             socket'[v][i].kind = "retry" /\ socket'[v][j].kind = "ack"
    BY DEF FrameInv
  <2>1. socket'[w] = <<>> /\ (v # w => socket'[v] = socket[v])
    BY <1>9 DEF Crash, TypeOK
  <2>2. v # w /\ i \in 1..Len(socket[v]) /\ socket'[v] = socket[v]
    BY <2>1, EmptySeq
  <2>3. socket[v][i].copy \in Copies
    BY <2>2, FrameTyped
  <2>4. holder[socket[v][i].copy] = v /\ socket[v][i].copy \in handled
    BY <2>2 DEF FrameInv
  <2>5. holder'[socket[v][i].copy] = v /\ socket[v][i].copy \in handled'
    BY <1>9, <2>2, <2>3, <2>4 DEF Crash, Requeued, Held
  <2> QED BY <2>2, <2>5 DEF FrameInv
<1>10. ASSUME NEW w \in Consumers, Restart(w) PROVE FrameInv'
  BY <1>s, <1>10 DEF Restart, message
<1>11. CASE UNCHANGED vars
  BY <1>s, <1>11 DEF vars, message
<1> QED
  BY <1>1, <1>2, <1>3, <1>4, <1>5, <1>6, <1>7, <1>8, <1>9, <1>10, <1>11 DEF Next, Consume

-----------------------------------------------------------------------------
(* Nothing is lost *)

\* The broker will forget c, and its sender is not sending a retry first.
Doomed(c) ==
  \E w \in Consumers : \E i \in 1..Len(socket[w]) :
    /\ socket[w][i] = Ack(c)
    /\ \A j \in 1..Len(socket[w]) : j < i => socket[w][j] # Retry(c)

\* An event no handler has completed has a message that is going to stay.
LossInv ==
  \A e \in Events : published[e] > 0 /\ e \notin completed =>
    \E c \in Copies : event[c] = e /\ ~Doomed(c)

LEMMA DoomedIsHeld ==
  ASSUME TypeOK, FrameInv, NEW c \in Copies, Doomed(c)
  PROVE  holder[c] # None /\ place[c] = "held"
<1>1. PICK w \in Consumers : \E i \in 1..Len(socket[w]) : socket[w][i] = Ack(c)
  BY DEF Doomed
<1>2. PICK i \in 1..Len(socket[w]) : socket[w][i] = Ack(c)
  BY <1>1
<1>3. holder[c] = w
  BY <1>2 DEF FrameInv, Ack
<1>4. w # None
  BY RabbitAssumption
<1> QED BY <1>3, <1>4 DEF TypeOK

\* Receiving a frame about one message dooms no other.
LEMMA ReceivedDooms ==
  ASSUME TypeOK, FrameInv, NEW w \in Consumers, NEW c \in Copies,
         NEW kind \in {"ack", "nack", "retry"}, Received(w, kind, c),
         NEW d \in Copies, d # c, Doomed(d)'
  PROVE  Doomed(d)
<1>1. PICK v \in Consumers : \E i \in 1..Len(socket'[v]) :
        /\ socket'[v][i] = Ack(d)
        /\ \A j \in 1..Len(socket'[v]) : j < i => socket'[v][j] # Retry(d)
  BY DEF Doomed, Ack, Retry
<1>2. PICK i \in 1..Len(socket'[v]) :
        /\ socket'[v][i] = Ack(d)
        /\ \A j \in 1..Len(socket'[v]) : j < i => socket'[v][j] # Retry(d)
  BY <1>1
<1>3. CASE v # w
  <2>1. socket'[v] = socket[v]
    BY <1>3, OthersKept
  <2> QED BY <1>2, <2>1 DEF Doomed
<1>4. CASE v = w
  <2>1. i + 1 \in 1..Len(socket[w]) /\ socket[w][i + 1] = Ack(d)
    BY <1>2, <1>4, TailLeft
  <2>2. socket[w] \in Seq(Frame) /\ socket[w] # <<>> /\ socket'[w] = Tail(socket[w])
    BY DEF TypeOK, Received
  <2>3. Len(socket[w]) \in Nat /\ Len(socket'[w]) = Len(socket[w]) - 1
    BY <2>2, HeadTailProperties, LenProperties
  <2>4. ASSUME NEW j \in 1..Len(socket[w]), j < i + 1, socket[w][j] = Retry(d) PROVE FALSE
    <3>1. CASE j = 1
      <4>1. socket[w][1] = [kind |-> kind, copy |-> c]
        BY <2>2, <2>3, <2>4, <3>1 DEF Received
      <4> QED BY <2>4, <3>1, <4>1 DEF Retry
    <3>2. CASE j # 1
      <4>1. j - 1 \in 1..Len(socket'[w]) /\ j - 1 < i /\ (j - 1) + 1 = j
        BY <2>3, <2>4, <3>2
      <4>2. socket'[w][j - 1] = socket[w][(j - 1) + 1]
        BY <4>1, TailLeft
      <4> QED BY <1>2, <1>4, <2>4, <4>1, <4>2
    <3> QED BY <3>1, <3>2
  <2> QED BY <2>1, <2>4 DEF Doomed
<1> QED BY <1>3, <1>4

\* A settlement dooms only the message it acknowledges without a retry.
LEMMA SettleDooms ==
  ASSUME TypeOK, FrameInv, NEW w \in Consumers, NEW c \in Copies,
         NEW plan \in {"ack", "deadLetter", "retry"}, holder[c] = w, c \notin handled,
         Settle(w, c, plan),
         NEW d \in Copies, Doomed(d)'
  PROVE  Doomed(d) \/ (d = c /\ plan = "ack")
<1> DEFINE s == socket[w]
           f == Frames(plan, c)
<1>1. s \in Seq(Frame) /\ f \in Seq(Frame)
  BY FramesWritten DEF TypeOK
<1>2. socket'[w] = s \o f /\ \A v \in Consumers \ {w} : socket'[v] = socket[v]
  BY DEF Settle, TypeOK
<1>3. Len(s) \in Nat /\ Len(f) \in Nat /\ Len(socket'[w]) = Len(s) + Len(f)
  BY <1>1, <1>2, LenProperties, ConcatProperties
<1>4. PICK v \in Consumers : \E i \in 1..Len(socket'[v]) :
        /\ socket'[v][i] = Ack(d)
        /\ \A j \in 1..Len(socket'[v]) : j < i => socket'[v][j] # Retry(d)
  BY DEF Doomed, Ack, Retry
<1>5. PICK i \in 1..Len(socket'[v]) :
        /\ socket'[v][i] = Ack(d)
        /\ \A j \in 1..Len(socket'[v]) : j < i => socket'[v][j] # Retry(d)
  BY <1>4
<1>6. CASE v # w
  <2>1. socket'[v] = socket[v]
    BY <1>2, <1>6
  <2> QED BY <1>5, <2>1 DEF Doomed
<1>7. CASE v = w
  <2>1. CASE i \in 1..Len(s) /\ socket'[w][i] = s[i]
    <3>1. \A j \in 1..Len(s) : j < i => s[j] # Retry(d)
      <4>1. \A j \in 1..Len(s) : socket'[w][j] = s[j] /\ j \in 1..Len(socket'[w])
        BY <1>1, <1>2, <1>3, ConcatProperties
      <4> QED BY <1>5, <1>7, <4>1
    <3> QED BY <1>5, <1>7, <2>1, <3>1 DEF Doomed
  <2>2. CASE i - Len(s) \in 1..Len(f) /\ socket'[w][i] = f[i - Len(s)]
    <3>1. CASE plan = "ack"
      <4>1. f = <<Ack(c)>>
        BY <3>1, FramesWritten
      <4>2. i - Len(s) = 1
        BY <2>2, <4>1, <1>3
      <4> QED BY <1>5, <1>7, <2>2, <3>1, <4>1, <4>2 DEF Ack
    <3>2. CASE plan = "deadLetter"
      <4>1. f = <<Nack(c)>>
        BY <3>2, FramesWritten
      <4>2. i - Len(s) = 1
        BY <2>2, <4>1, <1>3
      <4> QED BY <1>5, <1>7, <2>2, <4>1, <4>2 DEF Ack, Nack
    <3>3. CASE plan = "retry"
      <4>1. f = <<Retry(c), Ack(c)>> /\ Len(f) = 2
        BY <3>3, FramesWritten
      <4>2. i - Len(s) = 2
        <5>1. f[1] # Ack(d)
          BY <4>1 DEF Ack, Retry
        <5> QED BY <1>3, <1>5, <1>7, <2>2, <4>1, <5>1
      <4>3. d = c
        BY <1>5, <1>7, <2>2, <4>1, <4>2 DEF Ack
      <4>4. Len(s) + 1 \in 1..Len(socket'[w]) /\ Len(s) + 1 < i
        BY <1>3, <4>1, <4>2
      <4>5. socket'[w][Len(s) + 1] = f[1]
        BY <1>1, <1>2, <1>3, <4>1, <4>4, ConcatProperties
      <4> QED BY <1>5, <1>7, <4>1, <4>3, <4>4, <4>5
    <3> QED BY <3>1, <3>2, <3>3
  <2>3. \/ i \in 1..Len(s) /\ socket'[w][i] = s[i]
        \/ i - Len(s) \in 1..Len(f) /\ socket'[w][i] = f[i - Len(s)]
    BY <1>1, <1>2, <1>7, Appended
  <2> QED BY <2>1, <2>2, <2>3
<1> QED BY <1>6, <1>7

LEMMA InitLossInv == Init => LossInv
BY DEF Init, LossInv

LEMMA NextLossInv == TypeOK /\ FrameInv /\ LossInv /\ [Next]_vars => LossInv'
<1> SUFFICES ASSUME TypeOK, FrameInv, LossInv, [Next]_vars,
                    NEW e \in Events, published'[e] > 0, e \notin completed'
             PROVE  \E c \in Copies : event'[c] = e /\ ~Doomed(c)'
  BY DEF LossInv
<1>0. None \notin Events
  BY RabbitAssumption
<1>w. ASSUME published[e] > 0, e \notin completed
      PROVE  \E c \in Copies : event[c] = e /\ ~Doomed(c)
  BY <1>w DEF LossInv
<1>s. ASSUME UNCHANGED socket, NEW d \in Copies PROVE Doomed(d)' => Doomed(d)
  BY <1>s DEF Doomed, Ack, Retry
<1>1. ASSUME NEW x \in Events, Publish(x) PROVE \E c \in Copies : event'[c] = e /\ ~Doomed(c)'
  <2>1. PICK d \in Copies : d = NextFree /\ place[d] = "free"
    BY <1>1, NextFreeIsFree DEF Publish
  <2>2. event' = [event EXCEPT ![d] = x] /\ completed' = completed /\ socket' = socket
    BY <1>1, <2>1 DEF Publish, Store, history
  <2>3. event[d] = None /\ event'[d] = x
    BY <2>1, <2>2 DEF TypeOK
  <2>4. CASE e = x
    <3>1. ~(Doomed(d)')
      BY <1>s, <2>1, <2>2, DoomedIsHeld
    <3> QED BY <2>3, <2>4, <3>1
  <2>5. CASE e # x
    <3>1. published[e] > 0
      BY <1>1, <2>5 DEF Publish, TypeOK
    <3>2. PICK c \in Copies : event[c] = e /\ ~Doomed(c)
      BY <1>w, <2>2, <3>1
    <3>3. event'[c] = e
      BY <1>0, <2>2, <2>3, <3>2 DEF TypeOK
    <3> QED BY <1>s, <2>2, <3>2, <3>3
  <2> QED BY <2>4, <2>5
<1>u. ASSUME UNCHANGED <<published, event, socket>>, completed \subseteq completed'
      PROVE  \E c \in Copies : event'[c] = e /\ ~Doomed(c)'
  <2>1. PICK c \in Copies : event[c] = e /\ ~Doomed(c)
    BY <1>u, <1>w
  <2> QED BY <1>s, <1>u, <2>1
<1>2. ASSUME NEW w \in Consumers, NEW c \in Copies, Deliver(w, c)
      PROVE  \E d \in Copies : event'[d] = e /\ ~Doomed(d)'
  BY <1>2, <1>u DEF Deliver, history
<1>3. ASSUME NEW w \in Consumers, NEW c \in Copies, SettleUnparsable(w, c)
      PROVE  \E d \in Copies : event'[d] = e /\ ~Doomed(d)'
  <2>1. Settle(w, c, "deadLetter") /\ holder[c] = w /\ c \notin handled
    BY <1>3 DEF SettleUnparsable
  <2>2. published' = published /\ event' = event /\ completed' = completed
    BY <1>3 DEF SettleUnparsable, Settle, message
  <2>3. PICK d \in Copies : event[d] = e /\ ~Doomed(d)
    BY <1>w, <2>2
  <2>4. Doomed(d)' => Doomed(d)
    BY <2>1, SettleDooms
  <2> QED BY <2>2, <2>3, <2>4
<1>4. ASSUME NEW w \in Consumers, NEW c \in Copies, NEW action \in Action,
             SettleHandled(w, c, action)
      PROVE  \E d \in Copies : event'[d] = e /\ ~Doomed(d)'
  <2> DEFINE plan == PlanSettlement(action, count[c])
  <2>1. Settle(w, c, plan) /\ holder[c] = w /\ c \notin handled
    BY <1>4 DEF SettleHandled
  <2>2. published' = published /\ event' = event /\ completed \subseteq completed'
    BY <1>4 DEF SettleHandled, Settle, message
  <2>3. plan \in {"ack", "deadLetter", "retry"}
    BY PlanTyped DEF TypeOK
  <2>4. PICK d \in Copies : event[d] = e /\ ~Doomed(d)
    BY <1>w, <2>2
  <2>5. plan = "ack" => action = "complete"
    BY DEF PlanSettlement
  <2>6. ~(d = c /\ plan = "ack")
    <3>1. action = "complete" => event[c] \in completed'
      BY <1>4 DEF SettleHandled
    <3> QED BY <2>4, <2>5, <3>1
  <2> HIDE DEF plan
  <2>7. Doomed(d)' => Doomed(d)
    BY <2>1, <2>3, <2>6, SettleDooms
  <2> QED BY <2>2, <2>4, <2>7
<1>5. ASSUME NEW w \in Consumers, NEW c \in Copies, ReceiveAck(w, c)
      PROVE  \E d \in Copies : event'[d] = e /\ ~Doomed(d)'
  <2>1. Received(w, "ack", c) /\ "ack" \in {"ack", "nack", "retry"}
    BY <1>5 DEF ReceiveAck
  <2>2. published' = published /\ completed' = completed
    BY <2>1 DEF Received, history
  <2>3. event' = [event EXCEPT ![c] = None]
    BY <1>5 DEF ReceiveAck, Remove
  <2>4. PICK d \in Copies : event[d] = e /\ ~Doomed(d)
    BY <1>w, <2>2
  <2>5. d # c
    <3>1. 1 \in 1..Len(socket[w]) /\ socket[w][1] = [kind |-> "ack", copy |-> c]
      BY <2>1, HeadSettled
    <3>2. \A j \in 1..Len(socket[w]) : ~(j < 1)
      OBVIOUS
    <3>3. Doomed(c)
      BY <3>1, <3>2 DEF Doomed, Ack
    <3> QED BY <2>4, <3>3
  <2>6. Doomed(d)' => Doomed(d)
    BY <2>1, <2>5, ReceivedDooms
  <2>7. event'[d] = e
    BY <2>3, <2>4, <2>5 DEF TypeOK
  <2> QED BY <2>4, <2>6, <2>7
<1>6. ASSUME NEW w \in Consumers, NEW c \in Copies, ReceiveNack(w, c)
      PROVE  \E d \in Copies : event'[d] = e /\ ~Doomed(d)'
  <2>1. Received(w, "nack", c) /\ "nack" \in {"ack", "nack", "retry"}
    BY <1>6 DEF ReceiveNack
  <2>2. published' = published /\ completed' = completed /\ event' = event
    BY <1>6 DEF ReceiveNack, Received, history
  <2>3. PICK d \in Copies : event[d] = e /\ ~Doomed(d)
    BY <1>w, <2>2
  <2>4. CASE d # c
    BY <2>1, <2>2, <2>3, <2>4, ReceivedDooms
  <2>5. CASE d = c
    <3>1. holder'[c] = None
      BY <1>6 DEF ReceiveNack, TypeOK
    <3>2. TypeOK' /\ FrameInv'
      BY <1>6, NextTypeOK, NextFrameInv DEF Next, Consume
    <3>3. ~(Doomed(c)')
      <4> SUFFICES ASSUME Doomed(c)' PROVE FALSE
        OBVIOUS
      <4>1. PICK v \in Consumers : \E i \in 1..Len(socket'[v]) : socket'[v][i] = Ack(c)
        BY DEF Doomed, Ack, Retry
      <4>2. PICK i \in 1..Len(socket'[v]) : socket'[v][i] = Ack(c)
        BY <4>1
      <4>3. holder'[c] = v
        BY <3>2, <4>2 DEF FrameInv, Ack
      <4> QED BY <3>1, <4>3, RabbitAssumption
    <3> QED BY <2>2, <2>3, <2>5, <3>3
  <2> QED BY <2>4, <2>5
<1>7. ASSUME NEW w \in Consumers, NEW c \in Copies, ReceiveRetry(w, c)
      PROVE  \E d \in Copies : event'[d] = e /\ ~Doomed(d)'
  <2>1. Received(w, "retry", c) /\ "retry" \in {"ack", "nack", "retry"}
    BY <1>7 DEF ReceiveRetry
  <2>2. published' = published /\ completed' = completed
    BY <2>1 DEF Received, history
  <2>3. PICK n \in Copies : n = NextFree /\ place[n] = "free"
    BY <1>7, NextFreeIsFree DEF ReceiveRetry
  <2>4. event' = [event EXCEPT ![n] = event[c]]
    BY <1>7, <2>3 DEF ReceiveRetry, Store
  <2>5. holder[c] = w
    BY <2>1, HeadSettled
  <2>6. n # c /\ event[n] = None /\ ~Doomed(n)
    BY <2>3, <2>5, DoomedIsHeld, RabbitAssumption DEF TypeOK
  <2>7. PICK d \in Copies : event[d] = e /\ ~Doomed(d)
    BY <1>w, <2>2
  <2>8. CASE d # c
    <3>1. Doomed(d)' => Doomed(d)
      BY <2>1, <2>8, ReceivedDooms
    <3>2. event'[d] = e
      BY <1>0, <2>4, <2>6, <2>7 DEF TypeOK
    <3> QED BY <2>7, <3>1, <3>2
  <2>9. CASE d = c
    <3>1. Doomed(n)' => Doomed(n)
      BY <2>1, <2>6, ReceivedDooms
    <3>2. event'[n] = e
      BY <2>4, <2>7, <2>9 DEF TypeOK
    <3> QED BY <2>6, <3>1, <3>2
  <2> QED BY <2>8, <2>9
<1>8. ASSUME NEW c \in Copies, RetryExpires(c)
      PROVE  \E d \in Copies : event'[d] = e /\ ~Doomed(d)'
  BY <1>8, <1>u DEF RetryExpires, history
<1>9. ASSUME NEW w \in Consumers, Crash(w)
      PROVE  \E d \in Copies : event'[d] = e /\ ~Doomed(d)'
  <2>1. published' = published /\ completed' = completed /\ event' = event
    BY <1>9 DEF Crash, history
  <2>2. PICK d \in Copies : event[d] = e /\ ~Doomed(d)
    BY <1>w, <2>1
  <2>3. socket'[w] = <<>> /\ \A v \in Consumers \ {w} : socket'[v] = socket[v]
    BY <1>9 DEF Crash, TypeOK
  <2>4. Len(socket'[w]) = 0
    BY <2>3, EmptySeq
  <2>5. Doomed(d)' => Doomed(d)
    <3> SUFFICES ASSUME Doomed(d)' PROVE Doomed(d)
      OBVIOUS
    <3>1. PICK v \in Consumers : \E i \in 1..Len(socket'[v]) :
            /\ socket'[v][i] = Ack(d)
            /\ \A j \in 1..Len(socket'[v]) : j < i => socket'[v][j] # Retry(d)
      BY DEF Doomed, Ack, Retry
    <3>2. v # w
      BY <2>4, <3>1
    <3> QED BY <2>3, <3>1, <3>2 DEF Doomed
  <2> QED BY <2>1, <2>2, <2>5
<1>10. ASSUME NEW w \in Consumers, Restart(w)
       PROVE  \E d \in Copies : event'[d] = e /\ ~Doomed(d)'
  BY <1>10, <1>u DEF Restart, message, history
<1>11. CASE UNCHANGED vars
  BY <1>11, <1>u DEF vars, message, history
<1> QED
  BY <1>1, <1>2, <1>3, <1>4, <1>5, <1>6, <1>7, <1>8, <1>9, <1>10, <1>11 DEF Next, Consume

-----------------------------------------------------------------------------
(* Dead letters *)

\* The event of c is beyond retrying or was handled often enough.
Exhausted(c) == event[c] \in permanent \/ attempts[event[c]] >= MaxDelivery

\* A frame tells the truth: a nack is of a message that may be dead-lettered, a retry of
\* one that was handled as often as its header says.
Truthful(f) ==
  /\ f.kind = "nack" => Exhausted(f.copy)
  /\ f.kind = "retry" => attempts[event[f.copy]] >= count[f.copy]

CountInv ==
  /\ \A c \in Copies : event[c] # None => attempts[event[c]] + 1 >= count[c]
  /\ \A w \in Consumers : \A i \in 1..Len(socket[w]) : Truthful(socket[w][i])
  /\ DeadLetterJustified

\* What was true of a message stays true of it while its event and its header do not change.
LEMMA StaysTrue ==
  ASSUME TypeOK, NEW c \in Copies, event[c] \in Events, event'[c] = event[c], count'[c] = count[c],
         attempts' \in [Events -> Nat], attempts'[event[c]] >= attempts[event[c]],
         permanent \subseteq permanent'
  PROVE  /\ attempts[event[c]] + 1 >= count[c] => attempts'[event'[c]] + 1 >= count'[c]
         /\ Exhausted(c) => Exhausted(c)'
         /\ \A f \in Frame : f.copy = c /\ Truthful(f) => Truthful(f)'
<1>1. /\ attempts[event[c]] \in Nat /\ attempts'[event[c]] \in Nat
      /\ count[c] \in Nat /\ MaxDelivery \in Nat
  BY RabbitAssumption DEF TypeOK
<1>2. Exhausted(c) => Exhausted(c)'
  BY <1>1 DEF Exhausted
<1>3. attempts[event[c]] >= count[c] => attempts'[event'[c]] >= count'[c]
  BY <1>1
<1>4. ASSUME NEW f \in Frame, f.copy = c, Truthful(f) PROVE Truthful(f)'
  BY <1>2, <1>3, <1>4 DEF Truthful
<1> QED BY <1>1, <1>4, <1>2

\* A step that leaves the messages with frames on their way as they are, and sends nothing
\* untrue, keeps the frames truthful.
LEMMA FramesStayTrue ==
  ASSUME TypeOK, FrameInv, CountInv, TypeOK',
         \A e \in Events : attempts'[e] >= attempts[e], permanent \subseteq permanent',
         NEW w \in Consumers, NEW i \in 1..Len(socket[w]),
         NEW f \in Frame, f = socket[w][i],
         event'[f.copy] = event[f.copy], count'[f.copy] = count[f.copy]
  PROVE  Truthful(f)'
<1>1. f.copy \in Copies /\ holder[f.copy] = w
  BY DEF Frame, FrameInv
<1>2. w # None
  BY RabbitAssumption
<1>3. event[f.copy] \in Events
  BY <1>1, <1>2 DEF TypeOK
<1>4. Truthful(f)
  BY DEF CountInv
<1>5. attempts' \in [Events -> Nat]
  BY DEF TypeOK
<1> QED BY <1>1, <1>3, <1>4, <1>5, StaysTrue

\* A step keeps the counts right when the messages it changes (N), the frames it adds and
\* the messages it dead-letters are right.
Fine(N) ==
  /\ \A e \in Events : attempts'[e] >= attempts[e]
  /\ permanent \subseteq permanent'
  /\ \A d \in Copies \ N : event'[d] = event[d] /\ count'[d] = count[d]
  /\ \A d \in N : event'[d] # None => attempts'[event'[d]] + 1 >= count'[d]
  /\ \A d \in Copies : place'[d] = "dead" =>
       (d \notin N /\ place[d] = "dead") \/ Exhausted(d)'
  /\ \A w \in Consumers : \A i \in 1..Len(socket'[w]) :
       \/ \E j \in 1..Len(socket[w]) :
            socket'[w][i] = socket[w][j] /\ socket[w][j].copy \notin N
       \/ Truthful(socket[w][i])'

LEMMA FineStep ==
  ASSUME TypeOK, FrameInv, CountInv, TypeOK', NEW N \in SUBSET Copies, Fine(N)
  PROVE  CountInv'
<1>s. /\ \A e \in Events : attempts'[e] >= attempts[e]
      /\ permanent \subseteq permanent'
      /\ \A d \in Copies \ N : event'[d] = event[d] /\ count'[d] = count[d]
      /\ \A d \in N : event'[d] # None => attempts'[event'[d]] + 1 >= count'[d]
      /\ \A d \in Copies : place'[d] = "dead" =>
           (d \notin N /\ place[d] = "dead") \/ Exhausted(d)'
      /\ \A w \in Consumers : \A i \in 1..Len(socket'[w]) :
           \/ \E j \in 1..Len(socket[w]) :
                socket'[w][i] = socket[w][j] /\ socket[w][j].copy \notin N
           \/ Truthful(socket[w][i])'
  BY DEF Fine
<1>0. attempts' \in [Events -> Nat]
  BY DEF TypeOK
<1>1. ASSUME NEW d \in Copies, event'[d] # None
      PROVE  attempts'[event'[d]] + 1 >= count'[d]
  <2>1. CASE d \in N
    BY <1>s, <1>1, <2>1
  <2>2. CASE d \notin N
    <3>1. event'[d] = event[d] /\ count'[d] = count[d] /\ event[d] \in Events
      BY <1>s, <1>1, <2>2 DEF TypeOK
    <3>2. attempts[event[d]] + 1 >= count[d]
      BY <1>1, <3>1 DEF CountInv
    <3>3. attempts'[event[d]] >= attempts[event[d]]
      BY <1>s, <3>1
    <3> QED BY <1>s, <1>0, <3>1, <3>2, <3>3, StaysTrue
  <2> QED BY <2>1, <2>2
<1>2. ASSUME NEW w \in Consumers, NEW i \in 1..Len(socket'[w]) PROVE Truthful(socket[w][i])'
  <2> SUFFICES ASSUME NEW j \in 1..Len(socket[w]),
                      socket'[w][i] = socket[w][j], socket[w][j].copy \notin N
               PROVE  Truthful(socket[w][i])'
    BY <1>s, <1>2
  <2>1. PICK g \in Frame : g = socket[w][j] /\ g.copy \notin N /\ g.copy \in Copies
    BY FrameTyped
  <2>2. event'[g.copy] = event[g.copy] /\ count'[g.copy] = count[g.copy]
    BY <1>s, <2>1
  <2>3. Truthful(g)'
    BY <1>s, <2>1, <2>2, FramesStayTrue
  <2> QED BY <2>1, <2>3 DEF Truthful, Exhausted
<1>3. ASSUME NEW d \in Copies, place'[d] = "dead" PROVE Exhausted(d)'
  <2> SUFFICES ASSUME d \notin N, place[d] = "dead" PROVE Exhausted(d)'
    BY <1>s, <1>3
  <2>1. event'[d] = event[d] /\ count'[d] = count[d] /\ event[d] \in Events
    BY <1>s DEF TypeOK
  <2>2. Exhausted(d)
    BY DEF CountInv, DeadLetterJustified, Exhausted
  <2>3. attempts'[event[d]] >= attempts[event[d]]
    BY <1>s, <2>1
  <2> QED BY <1>s, <1>0, <2>1, <2>2, <2>3, StaysTrue
<1> QED BY <1>1, <1>2, <1>3 DEF CountInv, DeadLetterJustified, Exhausted

LEMMA InitCountInv == Init => CountInv
BY EmptySeq DEF Init, CountInv, DeadLetterJustified

LEMMA NextCountInv ==
  TypeOK /\ FrameInv /\ CountInv /\ [Next]_vars => CountInv'
<1> SUFFICES ASSUME TypeOK, FrameInv, CountInv, [Next]_vars PROVE CountInv'
  OBVIOUS
<1>0. None \notin Events /\ None \notin Consumers
  BY RabbitAssumption
<1>t. TypeOK' /\ FrameInv'
  BY NextTypeOK, NextFrameInv
<1>u. ASSUME UNCHANGED <<event, count, permanent, attempts>>,
             \A w \in Consumers : socket'[w] = socket[w] \/ socket'[w] = <<>>,
             \A d \in Copies : place'[d] = "dead" => place[d] = "dead"
      PROVE  CountInv'
  <2>1. \A w \in Consumers : \A i \in 1..Len(socket'[w]) :
          \E j \in 1..Len(socket[w]) : socket'[w][i] = socket[w][j]
    BY <1>u, EmptySeq
  <2>2. \A e \in Events : attempts'[e] >= attempts[e]
    BY <1>u DEF TypeOK
  <2>3. Fine({})
    BY <1>u, <2>1, <2>2 DEF Fine
  <2> QED BY <1>t, <2>3, FineStep
<1>1. ASSUME NEW e \in Events, Publish(e) PROVE CountInv'
  <2>1. PICK n \in Copies : n = NextFree /\ place[n] = "free"
    BY <1>1, NextFreeIsFree DEF Publish
  <2>2. /\ event' = [event EXCEPT ![n] = e] /\ count' = [count EXCEPT ![n] = 1]
        /\ place' = [place EXCEPT ![n] = "work"]
        /\ attempts' = attempts /\ permanent' = permanent /\ socket' = socket
    BY <1>1, <2>1 DEF Publish, Store, history
  <2>3. \A w \in Consumers : \A i \in 1..Len(socket[w]) : socket[w][i].copy # n
    <3>1. holder[n] = None
      BY <2>1 DEF TypeOK
    <3> QED BY <1>0, <3>1 DEF FrameInv
  <2>4. \A x \in Events : attempts'[x] >= attempts[x]
    BY <2>2 DEF TypeOK
  <2>5. attempts'[event'[n]] + 1 >= count'[n]
    BY <2>2 DEF TypeOK
  <2>6. \A d \in Copies \ {n} : event'[d] = event[d] /\ count'[d] = count[d]
    BY <2>2 DEF TypeOK
  <2>7. \A d \in Copies : place'[d] = "dead" => d # n /\ place[d] = "dead"
    BY <2>2 DEF TypeOK
  <2>8. Fine({n})
    BY <2>2, <2>3, <2>4, <2>5, <2>6, <2>7 DEF Fine
  <2> QED BY <1>t, <2>8, FineStep
<1>2. ASSUME NEW w \in Consumers, NEW c \in Copies, Deliver(w, c) PROVE CountInv'
  BY <1>2, <1>u DEF Deliver, TypeOK, history
\* A settlement, whose frames are truthful once the handler's run is counted.
<1>p. ASSUME NEW w \in Consumers, NEW c \in Copies, NEW plan \in {"ack", "deadLetter", "retry"},
             Settle(w, c, plan),
             \A e \in Events : attempts'[e] >= attempts[e], permanent \subseteq permanent',
             plan = "deadLetter" => Exhausted(c)',
             plan = "retry" => attempts'[event'[c]] >= count'[c]
      PROVE  CountInv'
  <2> DEFINE s == socket[w]
             f == Frames(plan, c)
  <2>1. s \in Seq(Frame) /\ f \in Seq(Frame)
    BY FramesWritten DEF TypeOK
  <2>2. /\ socket'[w] = s \o f /\ \A v \in Consumers \ {w} : socket'[v] = socket[v]
        /\ event' = event /\ count' = count /\ place' = place
    BY <1>p DEF Settle, TypeOK, message
  <2>3. ASSUME NEW k \in 1..Len(f), NEW g, g = f[k] PROVE Truthful(g)'
    <3>1. CASE plan = "ack"
      <4>1. g.kind = "ack"
        BY <2>3, <3>1, FramesWritten DEF Ack
      <4> QED BY <4>1 DEF Truthful
    <3>2. CASE plan = "deadLetter"
      <4>1. g.kind = "nack" /\ g.copy = c
        BY <2>3, <3>2, FramesWritten DEF Nack
      <4> QED BY <1>p, <3>2, <4>1 DEF Truthful
    <3>3. CASE plan = "retry"
      <4>1. (g.kind = "retry" \/ g.kind = "ack") /\ g.copy = c
        BY <2>3, <3>3, FramesWritten DEF Ack, Retry
      <4> QED BY <1>p, <3>3, <4>1 DEF Truthful
    <3> QED BY <3>1, <3>2, <3>3
  <2>4. ASSUME NEW v \in Consumers, NEW i \in 1..Len(socket'[v])
        PROVE  \/ \E j \in 1..Len(socket[v]) : socket'[v][i] = socket[v][j]
               \/ Truthful(socket[v][i])'
    <3>1. CASE v # w
      BY <2>2, <2>4, <3>1
    <3>2. CASE v = w
      <4>1. \/ i \in 1..Len(s) /\ socket'[w][i] = s[i]
            \/ i - Len(s) \in 1..Len(f) /\ socket'[w][i] = f[i - Len(s)]
        BY <2>1, <2>2, <2>4, <3>2, Appended
      <4>2. CASE i \in 1..Len(s) /\ socket'[w][i] = s[i]
        BY <3>2, <4>2
      <4>3. CASE i - Len(s) \in 1..Len(f) /\ socket'[w][i] = f[i - Len(s)]
        <5>1. PICK g : g = f[i - Len(s)]
          OBVIOUS
        <5>2. Truthful(g)'
          BY <2>3, <4>3, <5>1
        <5> QED BY <3>2, <4>3, <5>1, <5>2 DEF Truthful, Exhausted
      <4> QED BY <4>1, <4>2, <4>3
    <3> QED BY <3>1, <3>2
  <2>5. Fine({})
    BY <1>p, <2>2, <2>4 DEF Fine
  <2> QED BY <1>t, <2>5, FineStep
<1>3. ASSUME NEW w \in Consumers, NEW c \in Copies, SettleUnparsable(w, c) PROVE CountInv'
  <2>1. Settle(w, c, "deadLetter") /\ event' = event /\ permanent' = permanent \cup {event[c]}
        /\ attempts' = attempts
    BY <1>3 DEF SettleUnparsable, Settle, message
  <2>2. Exhausted(c)'
    BY <2>1 DEF Exhausted
  <2>3. \A e \in Events : attempts'[e] >= attempts[e]
    BY <2>1 DEF TypeOK
  <2> QED BY <1>p, <2>1, <2>2, <2>3
<1>4. ASSUME NEW w \in Consumers, NEW c \in Copies, NEW action \in Action,
             SettleHandled(w, c, action)
      PROVE  CountInv'
  <2> DEFINE plan == PlanSettlement(action, count[c])
  <2>1. Settle(w, c, plan) /\ plan \in {"ack", "deadLetter", "retry"}
    BY <1>4, PlanTyped DEF SettleHandled, TypeOK
  <2>2. event' = event /\ count' = count
    BY <1>4 DEF SettleHandled, Settle, message
  <2>3. event[c] \in Events
    BY <1>0, <1>4 DEF SettleHandled, TypeOK
  <2>4. attempts' = [attempts EXCEPT ![event[c]] = attempts[event[c]] + 1]
    BY <1>4 DEF SettleHandled
  <2>5. \A e \in Events : attempts'[e] >= attempts[e]
    BY <2>3, <2>4 DEF TypeOK
  <2>6. /\ permanent \subseteq permanent'
        /\ action = "deadLetter" => event[c] \in permanent'
    BY <1>4 DEF SettleHandled
  <2>7. attempts[event[c]] + 1 >= count[c]
    BY <1>0, <2>3 DEF CountInv
  <2>8. attempts'[event'[c]] >= count'[c]
    BY <2>2, <2>3, <2>4, <2>7 DEF TypeOK
  <2>9. plan = "deadLetter" => action = "deadLetter" \/ count[c] >= MaxDelivery
    BY DEF PlanSettlement
  <2>10. plan = "deadLetter" => Exhausted(c)'
    <3>1. /\ attempts'[event'[c]] \in Nat /\ count[c] \in Nat /\ MaxDelivery \in Nat
      BY <1>t, <2>2, <2>3, RabbitAssumption DEF TypeOK
    <3> QED BY <2>2, <2>6, <2>8, <2>9, <3>1 DEF Exhausted
  <2> HIDE DEF plan
  <2> QED BY <1>p, <2>1, <2>5, <2>6, <2>8, <2>10
\* Receiving a frame leaves the frames after it.
<1>r. ASSUME NEW w \in Consumers, NEW c \in Copies, NEW kind \in {"ack", "nack", "retry"},
             Received(w, kind, c), NEW v \in Consumers, NEW i \in 1..Len(socket'[v])
      PROVE  \E j \in 1..Len(socket[v]) :
               socket'[v][i] = socket[v][j] /\ (kind # "retry" => socket[v][j].copy # c)
  <2>1. CASE v = w
    <3>1. i \in 1..Len(socket'[w])
      BY <1>r, <2>1
    <3>2. /\ i + 1 \in 1..Len(socket[w]) /\ socket'[w][i] = socket[w][i + 1]
          /\ kind # "retry" => socket[w][i + 1].copy # c
      BY <1>r, <3>1, TailLeft
    <3> QED BY <2>1, <3>2
  <2>2. CASE v # w
    <3>1. socket'[v] = socket[v] /\ i \in 1..Len(socket[v])
      BY <1>r, <2>2, OthersKept
    <3>2. holder[c] = w
      BY <1>r, HeadSettled
    <3>3. holder[socket[v][i].copy] = v
      BY <3>1 DEF FrameInv
    <3> QED BY <2>2, <3>1, <3>2, <3>3
  <2> QED BY <2>1, <2>2
<1>5. ASSUME NEW w \in Consumers, NEW c \in Copies, ReceiveAck(w, c) PROVE CountInv'
  <2>1. Received(w, "ack", c) /\ "ack" \in {"ack", "nack", "retry"}
    BY <1>5 DEF ReceiveAck
  <2>2. attempts' = attempts /\ permanent' = permanent
    BY <2>1 DEF Received, history
  <2>3. /\ event'[c] = None /\ place'[c] = "free"
        /\ \A d \in Copies \ {c} : event'[d] = event[d] /\ count'[d] = count[d] /\ place'[d] = place[d]
    BY <1>5 DEF ReceiveAck, Remove, TypeOK
  <2>4. \A v \in Consumers : \A i \in 1..Len(socket'[v]) :
          \E j \in 1..Len(socket[v]) : socket'[v][i] = socket[v][j] /\ socket[v][j].copy # c
    BY <1>r, <2>1
  <2>5. \A e \in Events : attempts'[e] >= attempts[e]
    BY <2>2 DEF TypeOK
  <2>6. Fine({c})
    BY <2>2, <2>3, <2>4, <2>5 DEF Fine
  <2> QED BY <1>t, <2>6, FineStep
<1>6. ASSUME NEW w \in Consumers, NEW c \in Copies, ReceiveNack(w, c) PROVE CountInv'
  <2>1. Received(w, "nack", c) /\ "nack" \in {"ack", "nack", "retry"}
    BY <1>6 DEF ReceiveNack
  <2>2. attempts' = attempts /\ permanent' = permanent /\ event' = event /\ count' = count
    BY <1>6 DEF ReceiveNack, Received, history
  <2>3. \A d \in Copies \ {c} : place'[d] = place[d]
    BY <1>6 DEF ReceiveNack, TypeOK
  <2>4. Exhausted(c)
    <3>1. 1 \in 1..Len(socket[w]) /\ socket[w][1] = [kind |-> "nack", copy |-> c]
      BY <2>1, HeadSettled
    <3>2. Truthful(socket[w][1])
      BY <3>1 DEF CountInv
    <3> QED BY <3>1, <3>2 DEF Truthful
  <2>5. Exhausted(c)'
    BY <2>2, <2>4 DEF Exhausted
  <2>6. \A v \in Consumers : \A i \in 1..Len(socket'[v]) :
          \E j \in 1..Len(socket[v]) : socket'[v][i] = socket[v][j]
    BY <1>r, <2>1
  <2>7. \A e \in Events : attempts'[e] >= attempts[e]
    BY <2>2 DEF TypeOK
  <2>8. Fine({})
    BY <2>2, <2>3, <2>5, <2>6, <2>7 DEF Fine
  <2> QED BY <1>t, <2>8, FineStep
<1>7. ASSUME NEW w \in Consumers, NEW c \in Copies, ReceiveRetry(w, c) PROVE CountInv'
  <2>1. Received(w, "retry", c) /\ "retry" \in {"ack", "nack", "retry"}
    BY <1>7 DEF ReceiveRetry
  <2>2. PICK n \in Copies : n = NextFree /\ place[n] = "free"
    BY <1>7, NextFreeIsFree DEF ReceiveRetry
  <2>3. /\ event' = [event EXCEPT ![n] = event[c]] /\ count' = [count EXCEPT ![n] = count[c] + 1]
        /\ place' = [place EXCEPT ![n] = "retry"]
        /\ attempts' = attempts /\ permanent' = permanent
    BY <1>7, <2>2 DEF ReceiveRetry, Received, Store, history
  <2>4. event[c] \in Events
    <3>1. holder[c] = w
      BY <2>1, HeadSettled
    <3> QED BY <1>0, <3>1 DEF TypeOK
  <2>5. attempts[event[c]] >= count[c]
    <3>1. 1 \in 1..Len(socket[w]) /\ socket[w][1] = [kind |-> "retry", copy |-> c]
      BY <2>1, HeadSettled
    <3>2. Truthful(socket[w][1])
      BY <3>1 DEF CountInv
    <3> QED BY <3>1, <3>2 DEF Truthful
  <2>6. attempts'[event'[n]] + 1 >= count'[n]
    BY <2>3, <2>4, <2>5 DEF TypeOK
  <2>7. \A v \in Consumers : \A i \in 1..Len(socket[v]) : socket[v][i].copy # n
    <3>1. holder[n] = None
      BY <2>2 DEF TypeOK
    <3> QED BY <1>0, <3>1 DEF FrameInv
  <2>8. \A v \in Consumers : \A i \in 1..Len(socket'[v]) :
          \E j \in 1..Len(socket[v]) : socket'[v][i] = socket[v][j]
    BY <1>r, <2>1
  <2>9. \A e \in Events : attempts'[e] >= attempts[e]
    BY <2>3 DEF TypeOK
  <2>10. \A d \in Copies \ {n} : event'[d] = event[d] /\ count'[d] = count[d]
    BY <2>3 DEF TypeOK
  <2>11. \A d \in Copies : place'[d] = "dead" => d # n /\ place[d] = "dead"
    BY <2>3 DEF TypeOK
  <2>12. Fine({n})
    BY <2>3, <2>6, <2>7, <2>8, <2>9, <2>10, <2>11 DEF Fine
  <2> QED BY <1>t, <2>12, FineStep
<1>8. ASSUME NEW c \in Copies, RetryExpires(c) PROVE CountInv'
  BY <1>8, <1>u DEF RetryExpires, TypeOK, history
<1>9. ASSUME NEW w \in Consumers, Crash(w) PROVE CountInv'
  BY <1>9, <1>u DEF Crash, Requeued, TypeOK, history
<1>10. ASSUME NEW w \in Consumers, Restart(w) PROVE CountInv'
  BY <1>10, <1>u DEF Restart, message, history
<1>11. CASE UNCHANGED vars
  BY <1>11, <1>u DEF vars, message, history
<1> QED
  BY <1>1, <1>2, <1>3, <1>4, <1>5, <1>6, <1>7, <1>8, <1>9, <1>10, <1>11 DEF Next, Consume

-----------------------------------------------------------------------------
(* Theorems *)

Inductive == TypeOK /\ FrameInv /\ LossInv /\ CountInv

LEMMA Invariant == Spec => []Inductive
<1>1. Init => Inductive
  BY InitTypeOK, InitFrameInv, InitLossInv, InitCountInv DEF Inductive
<1>2. Inductive /\ [Next]_vars => Inductive'
  BY NextTypeOK, NextFrameInv, NextLossInv, NextCountInv DEF Inductive
<1> QED BY <1>1, <1>2, PTL DEF Spec

\* The variables of the queues keep their types, for any number of consumers and messages.
THEOREM TypeCorrect == Spec => []TypeOK
<1>1. Inductive => TypeOK
  BY DEF Inductive
<1> QED BY <1>1, Invariant, PTL

\* applySettlement sends the retry before the acknowledgement on one channel: wherever a
\* consumer or its connection fails, an event that no handler has completed stays with
\* the broker.
THEOREM NothingLost == Spec => []NoMessageLost
<1>1. Inductive => NoMessageLost
  BY DEF Inductive, LossInv, NoMessageLost
<1> QED BY <1>1, Invariant, PTL

\* planSettlement never dead-letters a message early: its event is beyond retrying or was
\* handled as often as the limit says, however deliveries, retries and crashes interleave.
THEOREM NoEarlyDeadLetter == Spec => []DeadLetterJustified
<1>1. Inductive => DeadLetterJustified
  BY DEF Inductive, CountInv
<1> QED BY <1>1, Invariant, PTL

=============================================================================
