---------------------------- MODULE TowerConsumer ----------------------------
(***************************************************************************)
(* TowerConsumer: one durable pull consumer of a JetStream stream and the   *)
(* loop that fetches a batch, calls the service with each message in turn   *)
(* and acknowledges or rejects it.  What the service does and answers is    *)
(* left to the module that composes this one; on its own it may answer      *)
(* anything.                                                                *)
(*                                                                         *)
(* The stream and the delivery state belong to the server and survive the   *)
(* program; batch and step do not.                                          *)
(***************************************************************************)
EXTENDS Naturals, Sequences

CONSTANTS
  Messages,     \* what may be published on the stream
  BatchSize,    \* messages per fetch
  MaxMessages,  \* bound on the messages of the stream
  MaxFaults,    \* bound on the faults of a behaviour
  Faults        \* the kinds of fault that may happen

ASSUME ConsumerAssumption ==
  BatchSize \in Nat \ {0} /\ MaxMessages \in Nat /\ MaxFaults \in Nat

VARIABLES
  stream,    \* the messages of the stream
  nextSeq,   \* the first sequence number never delivered
  unacked,   \* sequence numbers delivered and not acknowledged
  redeliver, \* those of unacked that the server will deliver again
  batch,     \* sequence numbers fetched and not yet answered
  step,      \* where fetch_and_process_batch is
  accepted,  \* history: those the service has answered with Ack
  faults     \* counts the faults, for MaxFaults

serverVars == <<stream, nextSeq, unacked, redeliver>>
vars == <<serverVars, batch, step, accepted, faults>>

Steps == {"fetch", "next", "call", "ack", "nak"}

Fault(kind) ==
  /\ kind \in Faults
  /\ faults < MaxFaults
  /\ faults' = faults + 1

Init ==
  /\ stream = <<>>
  /\ nextSeq = 1
  /\ unacked = {}
  /\ redeliver = {}
  /\ batch = <<>>
  /\ step = "fetch"
  /\ accepted = {}
  /\ faults = 0

(***************************************************************************)
(* JetStream.                                                               *)
(***************************************************************************)
Publish(m) ==
  /\ Len(stream) < MaxMessages
  /\ stream' = Append(stream, m)
  /\ UNCHANGED <<nextSeq, unacked, redeliver, batch, step, accepted, faults>>

\* What the server sends next: messages to be redelivered before new ones.
Deliverable ==
  IF redeliver # {} THEN redeliver ELSE {nextSeq} \cap 1..Len(stream)

SendToConsumer(s) ==
  /\ s \in Deliverable
  /\ nextSeq' = IF s = nextSeq THEN nextSeq + 1 ELSE nextSeq
  /\ unacked' = unacked \cup {s}
  /\ redeliver' = redeliver \ {s}
  /\ UNCHANGED <<stream, step, accepted>>

\* A fetch is shorter than ack_wait, so no message of the fetch in progress
\* expires; one of an earlier fetch may, even while the service works on it.
AckWaitExpires(s) ==
  /\ s \in unacked \ redeliver
  /\ step = "fetch" => \A i \in 1..Len(batch) : batch[i] # s
  /\ redeliver' = redeliver \cup {s}
  /\ UNCHANGED <<stream, nextSeq, unacked, batch, step, accepted, faults>>

(***************************************************************************)
(* fetch_messages.                                                          *)
(***************************************************************************)
Fetching == step = "fetch" /\ Len(batch) < BatchSize

Deliver(s) ==
  /\ Fetching
  /\ SendToConsumer(s)
  /\ batch' = Append(batch, s)
  /\ UNCHANGED faults

\* The message leaves the server and an error takes its place in the fetch.
LoseDelivery(s) ==
  /\ Fetching
  /\ Fault("deliveryLost")
  /\ SendToConsumer(s)
  /\ UNCHANGED batch

\* The server sends what it has at once, so a fetch that ends short of its size
\* leaves nothing behind.  A fetch that returns nothing is repeated.
FetchEnds ==
  /\ step = "fetch"
  /\ batch # <<>>
  /\ Len(batch) = BatchSize \/ Deliverable = {}
  /\ step' = "next"
  /\ UNCHANGED <<serverVars, batch, accepted, faults>>

(***************************************************************************)
(* The loop over the batch.                                                 *)
(***************************************************************************)
Current == Head(batch)

CallService ==
  /\ step = "next"
  /\ step' = "call"
  /\ UNCHANGED <<serverVars, batch, accepted, faults>>

Accept ==
  /\ step = "call"
  /\ step' = "ack"
  /\ accepted' = accepted \cup {Current}
  /\ UNCHANGED <<serverVars, batch>>

\* A nak in the answer, or an error of the service, which becomes one.
Reject ==
  /\ step = "call"
  /\ step' = "nak"
  /\ UNCHANGED <<serverVars, batch, accepted>>

NextMessage ==
  /\ batch' = Tail(batch)
  /\ step' = IF Tail(batch) = <<>> THEN "fetch" ELSE "next"
  /\ UNCHANGED <<stream, nextSeq, accepted>>

\* Mutant: the consumer is created with AckPolicy::All.
AckUpTo ==
  /\ step = "ack"
  /\ NextMessage
  /\ unacked' = unacked \ 1..Current
  /\ redeliver' = redeliver \ 1..Current
  /\ UNCHANGED faults

Ack ==
  /\ step = "ack"
  /\ NextMessage
  /\ unacked' = unacked \ {Current}
  /\ redeliver' = redeliver \ {Current}
  /\ UNCHANGED faults

\* Mutant: a rejected message is acknowledged.
AckRejected ==
  /\ step = "nak"
  /\ NextMessage
  /\ unacked' = unacked \ {Current}
  /\ redeliver' = redeliver \ {Current}
  /\ UNCHANGED faults

\* AckKind::Nak(None): the server redelivers without a delay.
Nak ==
  /\ step = "nak"
  /\ NextMessage
  /\ redeliver' = redeliver \cup {Current}
  /\ UNCHANGED <<unacked, faults>>

\* ack and ack_with do not wait for the server; their errors are logged.
LoseAnswer ==
  /\ step \in {"ack", "nak"}
  /\ Fault("ackLost")
  /\ NextMessage
  /\ UNCHANGED <<unacked, redeliver>>

\* Mutant: the fetched messages outlive the token's cancellation.
RestartKeepsBatch ==
  /\ step' = "fetch"
  /\ UNCHANGED <<serverVars, batch, accepted>>

\* The token is cancelled or the process dies: the batch is dropped wherever
\* the loop is.  The durable consumer is taken up again by the next process.
Restart ==
  /\ batch' = <<>>
  /\ step' = "fetch"
  /\ UNCHANGED <<serverVars, accepted>>

-----------------------------------------------------------------------------
Server == \E s \in 1..Len(stream) : Deliver(s) \/ LoseDelivery(s) \/ AckWaitExpires(s)

Loop == FetchEnds \/ CallService \/ Ack \/ Nak \/ LoseAnswer

\* A service of its own mind.
Service == (Accept \/ Reject) /\ UNCHANGED faults

Next ==
  \/ \E m \in Messages : Publish(m)
  \/ Server
  \/ Loop
  \/ Service
  \/ Fault("restart") /\ Restart

Spec == Init /\ [][Next]_vars

ServerFairness ==
  /\ WF_vars(\E s \in 1..Len(stream) : Deliver(s))
  /\ \A s \in 1..MaxMessages : WF_vars(AckWaitExpires(s))

LoopFairness == WF_vars(FetchEnds) /\ WF_vars(CallService) /\ WF_vars(Ack) /\ WF_vars(Nak)

\* A service that returns, and accepts any message offered often enough.
ServiceFairness ==
  /\ WF_vars(Service)
  /\ \A s \in 1..MaxMessages :
       SF_vars(step = "call" /\ Current = s /\ Accept /\ UNCHANGED faults)

FairSpec == Spec /\ ServerFairness /\ LoopFairness /\ ServiceFairness

-----------------------------------------------------------------------------
TypeOK ==
  /\ stream \in Seq(Messages)
  /\ nextSeq \in 1..(Len(stream) + 1)
  /\ unacked \subseteq 1..(nextSeq - 1)
  /\ redeliver \subseteq unacked
  /\ batch \in Seq(Nat)
  /\ \A i \in 1..Len(batch) : batch[i] \in 1..(nextSeq - 1)
  /\ step \in Steps
  /\ step # "fetch" => batch # <<>>
  /\ accepted \subseteq 1..(nextSeq - 1)
  /\ faults \in 0..MaxFaults

\* The server has forgotten these.
Settled == 1..(nextSeq - 1) \ unacked

\* At least once: the server forgets a message only after the service accepted
\* it, whatever expires, is lost or restarts in between.
SettledIsAccepted == Settled \subseteq accepted

\* A batch names a message once, and the server still holds each of them for
\* redelivery: dropping the batch anywhere loses nothing.
BatchOutstanding ==
  /\ \A i, j \in 1..Len(batch) : batch[i] = batch[j] => i = j
  /\ \A i \in 1..Len(batch) : batch[i] \in unacked

\* What the consumer promises to those who publish on its stream.
Queue == INSTANCE WorkQueue WITH
  submitted <- Len(stream), settled <- Settled, MaxSubmitted <- MaxMessages

ImplementsQueue == Queue!FairSpec

-----------------------------------------------------------------------------
(***************************************************************************)
(* The inductive invariant behind SettledIsAccepted and BatchOutstanding.   *)
(***************************************************************************)

\* A fetch names no message that the server would send again, so it cannot name
\* one twice; and only an accepted message is about to be acknowledged.
LoopInv ==
  /\ Len(stream) <= MaxMessages
  /\ step = "fetch" => \A i \in 1..Len(batch) : batch[i] \notin redeliver
  /\ step = "ack" => Current \in accepted

IInv == TypeOK /\ SettledIsAccepted /\ BatchOutstanding /\ LoopInv
=============================================================================
