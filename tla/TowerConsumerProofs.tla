-------------------------- MODULE TowerConsumerProofs --------------------------
(***************************************************************************)
(* Proofs about TowerConsumer for every set of messages, every batch size   *)
(* and every bound.                                                         *)
(***************************************************************************)
EXTENDS TowerConsumer, SequenceTheorems, TLAPS

(***************************************************************************)
(* The inductive invariant.  The actions fall into three groups: those of   *)
(* the server that send a message, those that only touch the delivery       *)
(* state, and those that end the work on the message at the head of the     *)
(* batch.                                                                   *)
(***************************************************************************)

LEMMA InitIInv == Init => IInv
BY ConsumerAssumption
DEF Init, IInv, TypeOK, SettledIsAccepted, Settled, BatchOutstanding, LoopInv, Steps

\* The head of a batch that is not empty is a message delivered and not settled,
\* and the tail does not name it again.
LEMMA HeadAndTail ==
  ASSUME IInv, batch # <<>>
  PROVE  /\ Current \in unacked
         /\ Current \in 1..(nextSeq - 1)
         /\ Tail(batch) \in Seq(Nat)
         /\ \A i \in 1..Len(Tail(batch)) :
              /\ i + 1 \in 1..Len(batch)
              /\ Tail(batch)[i] = batch[i + 1]
              /\ Tail(batch)[i] # Current
<1>1. Len(batch) \in Nat \ {0} /\ Current = batch[1] /\ 1 \in 1..Len(batch)
  BY DEF IInv, TypeOK, Current
<1>2. Len(Tail(batch)) = Len(batch) - 1 /\ Tail(batch) \in Seq(Nat)
  BY DEF IInv, TypeOK
<1>3. ASSUME NEW i \in 1..Len(Tail(batch))
      PROVE  /\ i + 1 \in 1..Len(batch)
             /\ Tail(batch)[i] = batch[i + 1]
             /\ Tail(batch)[i] # Current
  <2>1. i + 1 \in 1..Len(batch) /\ i + 1 # 1
    BY <1>1, <1>2
  <2>2. Tail(batch)[i] = batch[i + 1]
    BY <1>1, <1>2 DEF IInv, TypeOK
  <2>3. batch[i + 1] # batch[1]
    BY <1>1, <2>1 DEF IInv, BatchOutstanding
  <2>. QED
    BY <1>1, <2>1, <2>2, <2>3
<1>. QED
  BY <1>1, <1>2, <1>3 DEF IInv, TypeOK, BatchOutstanding

\* Sending a message settles nothing and takes it out of redeliver.
LEMMA SendFacts ==
  ASSUME IInv, NEW s \in 1..Len(stream), SendToConsumer(s)
  PROVE  /\ nextSeq' \in 1..(Len(stream') + 1)
         /\ nextSeq <= nextSeq'
         /\ s \in 1..(nextSeq' - 1)
         /\ unacked' \subseteq 1..(nextSeq' - 1)
         /\ redeliver' \subseteq unacked'
         /\ Settled' = Settled
<1>1. s \in redeliver \/ s = nextSeq
  BY DEF SendToConsumer, Deliverable
<1>2. CASE s \in redeliver
  BY <1>2 DEF IInv, TypeOK, SendToConsumer, Settled
<1>3. CASE s = nextSeq
  BY <1>3 DEF IInv, TypeOK, SendToConsumer, Settled
<1>. QED
  BY <1>1, <1>2, <1>3

LEMMA DeliverIInv ==
  ASSUME IInv, NEW s \in 1..Len(stream), Deliver(s)
  PROVE  IInv'
<1>. USE DEF Deliver, Fetching
<1>1. SendToConsumer(s)
  OBVIOUS
<1>2. \A i \in 1..Len(batch) : batch[i] # s
  BY <1>1 DEF IInv, TypeOK, LoopInv, SendToConsumer, Deliverable
<1>3. /\ batch' \in Seq(Nat)
      /\ Len(batch') = Len(batch) + 1
      /\ batch'[Len(batch) + 1] = s
      /\ \A i \in 1..Len(batch) : batch'[i] = batch[i]
  BY DEF IInv, TypeOK
<1>4. \A i \in 1..Len(batch') : i \in 1..Len(batch) \/ i = Len(batch) + 1
  BY <1>3 DEF IInv, TypeOK
<1>5. TypeOK'
  BY <1>1, <1>3, <1>4, SendFacts DEF IInv, TypeOK, SendToConsumer
<1>6. SettledIsAccepted'
  BY <1>1, SendFacts DEF IInv, SettledIsAccepted, SendToConsumer
<1>7. BatchOutstanding'
  BY <1>1, <1>2, <1>3, <1>4 DEF IInv, BatchOutstanding, SendToConsumer
<1>8. LoopInv'
  BY <1>1, <1>2, <1>3, <1>4 DEF IInv, LoopInv, SendToConsumer
<1>. QED
  BY <1>5, <1>6, <1>7, <1>8 DEF IInv

LEMMA LoseDeliveryIInv ==
  ASSUME IInv, NEW s \in 1..Len(stream), LoseDelivery(s)
  PROVE  IInv'
<1>1. SendToConsumer(s) /\ UNCHANGED batch /\ faults' \in 0..MaxFaults
  BY ConsumerAssumption DEF LoseDelivery, Fault, IInv, TypeOK
<1>2. TypeOK'
  BY <1>1, SendFacts DEF IInv, TypeOK, SendToConsumer
<1>3. SettledIsAccepted'
  BY <1>1, SendFacts DEF IInv, SettledIsAccepted, SendToConsumer
<1>4. BatchOutstanding' /\ LoopInv'
  BY <1>1 DEF IInv, BatchOutstanding, LoopInv, SendToConsumer, Current
<1>. QED
  BY <1>2, <1>3, <1>4 DEF IInv

\* Ack, Nak and LoseAnswer go on with the tail of the batch; what is left in the
\* batch stays outstanding because the head is not named again.
LEMMA NextMessageIInv ==
  ASSUME IInv, NextMessage, batch # <<>>,
         unacked' \subseteq unacked,
         unacked \ unacked' \subseteq accepted \cap {Current},
         redeliver' \subseteq unacked',
         faults' \in 0..MaxFaults
  PROVE  IInv'
<1>. USE DEF NextMessage
<1>1. TypeOK'
  BY HeadAndTail DEF IInv, TypeOK, Steps
<1>2. SettledIsAccepted'
  BY DEF IInv, TypeOK, SettledIsAccepted, Settled
<1>3. BatchOutstanding'
  <2>1. ASSUME NEW i \in 1..Len(batch'), NEW j \in 1..Len(batch'), batch'[i] = batch'[j]
        PROVE  i = j
    BY <2>1, HeadAndTail DEF IInv, BatchOutstanding
  <2>2. ASSUME NEW i \in 1..Len(batch')
        PROVE  batch'[i] \in unacked'
    BY HeadAndTail DEF IInv, BatchOutstanding
  <2>. QED
    BY <2>1, <2>2 DEF BatchOutstanding
<1>4. LoopInv'
  <2>1. step' # "ack" /\ Len(stream') <= MaxMessages
    BY DEF IInv, LoopInv
  <2>2. step' = "fetch" => 1..Len(batch') = {}
    BY DEF IInv, TypeOK
  <2>. QED
    BY <2>1, <2>2 DEF LoopInv
<1>. QED
  BY <1>1, <1>2, <1>3, <1>4 DEF IInv

\* A step of the consumer beside any other step of the program: a module that
\* composes the consumer with a service and other actors takes no other, whatever
\* it adds to faults.
Grow(m) ==
  /\ Len(stream) < MaxMessages
  /\ stream' = Append(stream, m)
  /\ UNCHANGED <<nextSeq, unacked, redeliver, batch, step, accepted>>

ConsumerStep ==
  \/ \E m \in Messages : Grow(m)
  \/ Server
  \/ Loop
  \/ Accept
  \/ Reject
  \/ Restart
  \/ UNCHANGED <<serverVars, batch, step, accepted>>

LEMMA StepIInv == IInv /\ ConsumerStep /\ faults' \in 0..MaxFaults => IInv'
<1> SUFFICES ASSUME IInv, ConsumerStep, faults' \in 0..MaxFaults
             PROVE  IInv'
  OBVIOUS
<1>1. ASSUME NEW m \in Messages, Grow(m)
      PROVE  IInv'
  <2>1. stream' \in Seq(Messages) /\ Len(stream') = Len(stream) + 1
    BY <1>1 DEF Grow, IInv, TypeOK
  <2>. QED
    BY <1>1, <2>1, ConsumerAssumption
    DEF Grow, IInv, TypeOK, SettledIsAccepted, Settled, BatchOutstanding, LoopInv, Current
<1>2. ASSUME NEW s \in 1..Len(stream), Deliver(s)
      PROVE  IInv'
  BY <1>2, DeliverIInv
<1>3. ASSUME NEW s \in 1..Len(stream), LoseDelivery(s)
      PROVE  IInv'
  BY <1>3, LoseDeliveryIInv
<1>4. ASSUME NEW s \in 1..Len(stream), AckWaitExpires(s)
      PROVE  IInv'
  BY <1>4
  DEF AckWaitExpires, IInv, TypeOK, SettledIsAccepted, Settled, BatchOutstanding, LoopInv,
      Current
<1>5. CASE FetchEnds
  BY <1>5
  DEF FetchEnds, serverVars, IInv, TypeOK, SettledIsAccepted, Settled, BatchOutstanding,
      LoopInv, Steps
<1>6. CASE CallService
  BY <1>6
  DEF CallService, serverVars, IInv, TypeOK, SettledIsAccepted, Settled, BatchOutstanding,
      LoopInv, Steps
<1>7. CASE Ack
  <2>1. batch # <<>> /\ Current \in accepted
    BY <1>7 DEF Ack, IInv, TypeOK, LoopInv
  <2>. QED
    BY <1>7, <2>1, NextMessageIInv DEF Ack, IInv, TypeOK
<1>8. CASE Nak
  <2>1. batch # <<>>
    BY <1>8 DEF Nak, IInv, TypeOK
  <2>. QED
    BY <1>8, <2>1, HeadAndTail, NextMessageIInv DEF Nak, IInv, TypeOK
<1>9. CASE LoseAnswer
  <2>1. batch # <<>>
    BY <1>9 DEF LoseAnswer, IInv, TypeOK
  <2>. QED
    BY <1>9, <2>1, NextMessageIInv DEF LoseAnswer, IInv, TypeOK
<1>10. CASE Accept
  BY <1>10, HeadAndTail
  DEF Accept, serverVars, IInv, TypeOK, SettledIsAccepted, Settled, BatchOutstanding,
      LoopInv, Steps, Current
<1>11. CASE Reject
  BY <1>11
  DEF Reject, serverVars, IInv, TypeOK, SettledIsAccepted, Settled, BatchOutstanding,
      LoopInv, Steps
<1>12. CASE Restart
  BY <1>12
  DEF Restart, serverVars, IInv, TypeOK, SettledIsAccepted, Settled,
      BatchOutstanding, LoopInv, Steps
<1>13. CASE UNCHANGED <<serverVars, batch, step, accepted>>
  BY <1>13
  DEF serverVars, IInv, TypeOK, SettledIsAccepted, Settled, BatchOutstanding,
      LoopInv, Current
<1>. QED
  BY <1>1, <1>2, <1>3, <1>4, <1>5, <1>6, <1>7, <1>8, <1>9, <1>10, <1>11, <1>12, <1>13
  DEF ConsumerStep, Server, Loop

\* The consumer on its own, with a service that answers anything.
LEMMA NextIsConsumerStep ==
  ASSUME IInv, [Next]_vars
  PROVE  ConsumerStep /\ faults' \in 0..MaxFaults
<1>1. ASSUME NEW kind, Fault(kind)
      PROVE  faults' \in 0..MaxFaults
  BY <1>1, ConsumerAssumption DEF Fault, IInv, TypeOK
<1>2. UNCHANGED faults => faults' \in 0..MaxFaults
  BY DEF IInv, TypeOK
<1>3. ASSUME NEW m \in Messages, Publish(m)
      PROVE  Grow(m) /\ UNCHANGED faults
  BY <1>3 DEF Publish, Grow
<1>4. CASE Server
  BY <1>1, <1>2, <1>4
  DEF Server, Deliver, LoseDelivery, AckWaitExpires, ConsumerStep
<1>5. CASE Loop
  BY <1>1, <1>2, <1>5
  DEF Loop, FetchEnds, CallService, Ack, Nak, LoseAnswer, ConsumerStep
<1>. QED
  BY <1>1, <1>2, <1>3, <1>4, <1>5 DEF Next, Service, vars, ConsumerStep

LEMMA NextIInv == IInv /\ [Next]_vars => IInv'
BY StepIInv, NextIsConsumerStep

\* Whatever is published, delivered, lost, expires or restarts, IInv holds.
THEOREM Invariance == Spec => []IInv
<1>1. Init => IInv
  BY InitIInv
<1>2. IInv /\ [Next]_vars => IInv'
  BY NextIInv
<1>. QED
  BY <1>1, <1>2, PTL DEF Spec

\* Every variable keeps its type.
THEOREM TypeCorrect == Spec => []TypeOK
<1>1. IInv => TypeOK
  BY DEF IInv
<1>. QED
  BY <1>1, Invariance, PTL

\* At least once: the server forgets a message only after the service has
\* accepted it.
THEOREM AtLeastOnce == Spec => []SettledIsAccepted
<1>1. IInv => SettledIsAccepted
  BY DEF IInv
<1>. QED
  BY <1>1, Invariance, PTL

\* The loop may be dropped wherever it is: what its batch names, once each, the
\* server still holds for redelivery.
THEOREM BatchCanBeDropped == Spec => []BatchOutstanding
<1>1. IInv => BatchOutstanding
  BY DEF IInv
<1>. QED
  BY <1>1, Invariance, PTL

(***************************************************************************)
(* The consumer implements a work queue.                                    *)
(***************************************************************************)

\* Ack settles the head of the batch, and only that.
LEMMA AckSettles ==
  ASSUME IInv, Ack
  PROVE  Queue!Settle(Current)
<1>1. batch # <<>> /\ Current \in accepted
  BY DEF Ack, IInv, TypeOK, LoopInv
<1>2. Current \in unacked /\ Current \in 1..(nextSeq - 1)
  BY <1>1, HeadAndTail
<1>3. Settled' = Settled \cup {Current}
  BY <1>2 DEF Ack, NextMessage, Settled
<1>. QED
  BY <1>1, <1>2, <1>3 DEF Queue!Settle, Ack, NextMessage, Settled

\* The service accepts the head of the batch, which is not settled yet.
LEMMA AcceptAccepts ==
  ASSUME IInv, Accept
  PROVE  Queue!Accept(Current)
<1>1. batch # <<>>
  BY DEF Accept, IInv, TypeOK
<1>2. Current \in unacked /\ Current \in 1..Len(stream)
  BY <1>1, HeadAndTail DEF IInv, TypeOK
<1>. QED
  BY <1>2 DEF Queue!Accept, Accept, serverVars, Settled

\* The head of the batch is one of the items that the queue may hold.
LEMMA CurrentIsAnItem ==
  ASSUME IInv, batch # <<>>
  PROVE  Current \in 1..MaxMessages
BY HeadAndTail, ConsumerAssumption DEF IInv, TypeOK, LoopInv

LEMMA StepRefines == IInv /\ ConsumerStep => [Queue!Next]_(Queue!vars)
<1> SUFFICES ASSUME IInv, ConsumerStep
             PROVE  [Queue!Next]_(Queue!vars)
  OBVIOUS
<1>. USE DEF Queue!vars
<1>1. ASSUME NEW m \in Messages, Grow(m)
      PROVE  Queue!Next
  <2>1. Len(stream') = Len(stream) + 1
    BY <1>1 DEF Grow, IInv, TypeOK
  <2>. QED
    BY <1>1, <2>1 DEF Grow, Queue!Next, Queue!Submit, Settled
<1>2. ASSUME NEW s \in 1..Len(stream), Deliver(s) \/ LoseDelivery(s)
      PROVE  UNCHANGED Queue!vars
  BY <1>2, SendFacts DEF Deliver, LoseDelivery, SendToConsumer
<1>3. ASSUME NEW s \in 1..Len(stream), AckWaitExpires(s)
      PROVE  UNCHANGED Queue!vars
  BY <1>3 DEF AckWaitExpires, Settled
<1>4. CASE FetchEnds \/ CallService
  BY <1>4 DEF FetchEnds, CallService, serverVars, Settled
<1>5. CASE Ack
  <2>1. batch # <<>>
    BY <1>5 DEF Ack, IInv, TypeOK
  <2>. QED
    BY <1>5, <2>1, AckSettles, CurrentIsAnItem DEF Queue!Next
<1>6. CASE Nak \/ LoseAnswer
  BY <1>6 DEF Nak, LoseAnswer, NextMessage, Settled
<1>7. CASE Accept
  <2>1. batch # <<>>
    BY <1>7 DEF Accept, IInv, TypeOK
  <2>. QED
    BY <1>7, <2>1, AcceptAccepts, CurrentIsAnItem DEF Queue!Next
<1>8. CASE Reject
  BY <1>8 DEF Reject, serverVars, Settled
<1>9. CASE Restart
  BY <1>9 DEF Restart, serverVars, Settled
<1>10. CASE UNCHANGED <<serverVars, batch, step, accepted>>
  BY <1>10 DEF serverVars, Settled
<1>. QED
  BY <1>1, <1>2, <1>3, <1>4, <1>5, <1>6, <1>7, <1>8, <1>9, <1>10
  DEF ConsumerStep, Server, Loop

\* Seen from those who publish, the consumer is a work queue that offers an item
\* again until it is accepted and settles it only then.
THEOREM ImplementsQueueSafety == Spec => Queue!Spec
<1>1. Init => Queue!Init
  BY DEF Init, Queue!Init, Settled
<1>2. IInv /\ [Next]_vars => [Queue!Next]_(Queue!vars)
  BY StepRefines, NextIsConsumerStep
<1>. QED
  BY <1>1, <1>2, Invariance, PTL DEF Spec, Queue!Spec
=============================================================================
