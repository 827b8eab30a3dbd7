------------------------ MODULE EnvelopePipelineProofs ------------------------
(***************************************************************************)
(* Proofs about EnvelopePipeline for any payloads, contracts, batch sizes   *)
(* and bounds.  What its two consumers keep is taken from the proofs about  *)
(* TowerConsumer, once for each.  At the end, the pure functions that the   *)
(* worker runs on a payload: its contracts and the Cayenne LPP decoder.     *)
(***************************************************************************)
EXTENDS EnvelopePipeline, FiniteSetTheorems, SequenceTheorems, TLAPS

RawLemmas == INSTANCE TowerConsumerProofs WITH
  Messages <- Payloads, BatchSize <- RawBatch, MaxMessages <- MaxRaw,
  stream <- rStream, nextSeq <- rNext, unacked <- rUnacked,
  redeliver <- rRedeliver, batch <- rBatch, step <- rStep, accepted <- rAccepted

ProcessedLemmas == INSTANCE TowerConsumerProofs WITH
  Messages <- Nat, BatchSize <- ProcessedBatch, MaxMessages <- MaxProcessed,
  stream <- pStream, nextSeq <- pNext, unacked <- pUnacked,
  redeliver <- pRedeliver, batch <- pBatch, step <- pStep, accepted <- pAccepted

(***************************************************************************)
(* The consumers of the pipeline are those of the instances.                *)
(***************************************************************************)
LEMMA RawIInvIsInstance == RawLemmas!IInv <=> Raw!IInv
BY DEF RawLemmas!IInv, RawLemmas!TypeOK, RawLemmas!SettledIsAccepted, RawLemmas!Settled,
       RawLemmas!BatchOutstanding, RawLemmas!LoopInv, RawLemmas!Steps, RawLemmas!Current,
       Raw!IInv, Raw!TypeOK, Raw!SettledIsAccepted, Raw!Settled,
       Raw!BatchOutstanding, Raw!LoopInv, Raw!Steps, Raw!Current

LEMMA ProcessedIInvIsInstance == ProcessedLemmas!IInv <=> Processed!IInv
BY DEF ProcessedLemmas!IInv, ProcessedLemmas!TypeOK, ProcessedLemmas!SettledIsAccepted,
       ProcessedLemmas!Settled, ProcessedLemmas!BatchOutstanding, ProcessedLemmas!LoopInv,
       ProcessedLemmas!Steps, ProcessedLemmas!Current,
       Processed!IInv, Processed!TypeOK, Processed!SettledIsAccepted, Processed!Settled,
       Processed!BatchOutstanding, Processed!LoopInv, Processed!Steps, Processed!Current

LEMMA RawConsumerSteps ==
  ASSUME \/ \E m \in Payloads : Raw!Publish(m)
         \/ Raw!Server \/ Raw!Loop \/ Raw!Accept \/ Raw!Reject \/ Raw!Restart
         \/ UNCHANGED rawVars
  PROVE  RawLemmas!ConsumerStep
<1>. USE DEF RawLemmas!ConsumerStep
<1>1. CASE \E m \in Payloads : Raw!Publish(m)
  BY <1>1 DEF Raw!Publish, RawLemmas!Grow
<1>2. CASE Raw!Server
  BY <1>2
  DEF Raw!Server, Raw!Deliver, Raw!LoseDelivery, Raw!AckWaitExpires, Raw!Fetching,
      Raw!SendToConsumer, Raw!Deliverable, Raw!Fault,
      RawLemmas!Server, RawLemmas!Deliver, RawLemmas!LoseDelivery,
      RawLemmas!AckWaitExpires, RawLemmas!Fetching, RawLemmas!SendToConsumer,
      RawLemmas!Deliverable, RawLemmas!Fault
<1>3. CASE Raw!Loop
  BY <1>3
  DEF Raw!Loop, Raw!FetchEnds, Raw!CallService, Raw!Ack, Raw!Nak, Raw!LoseAnswer,
      Raw!NextMessage, Raw!Current, Raw!Deliverable, Raw!Fault, Raw!serverVars,
      RawLemmas!Loop, RawLemmas!FetchEnds, RawLemmas!CallService, RawLemmas!Ack,
      RawLemmas!Nak, RawLemmas!LoseAnswer, RawLemmas!NextMessage, RawLemmas!Current,
      RawLemmas!Deliverable, RawLemmas!Fault, RawLemmas!serverVars
<1>4. CASE Raw!Accept \/ Raw!Reject \/ Raw!Restart
  BY <1>4
  DEF Raw!Accept, Raw!Reject, Raw!Restart, Raw!Current, Raw!serverVars,
      RawLemmas!Accept, RawLemmas!Reject, RawLemmas!Restart, RawLemmas!Current,
      RawLemmas!serverVars
<1>5. CASE UNCHANGED rawVars
  BY <1>5 DEF rawVars, RawLemmas!serverVars
<1>. QED
  BY <1>1, <1>2, <1>3, <1>4, <1>5

\* PublishProcessed adds to the stream, and so may PublishFails.
AddToProcessed(s) ==
  /\ Len(pStream) < MaxProcessed
  /\ pStream' = Append(pStream, s)
  /\ UNCHANGED <<pNext, pUnacked, pRedeliver, pBatch, pStep, pAccepted>>

LEMMA ProcessedConsumerSteps ==
  ASSUME \/ \E s \in Nat : AddToProcessed(s)
         \/ Processed!Server \/ Processed!Loop \/ Processed!Accept \/ Processed!Reject
         \/ Processed!Restart
         \/ UNCHANGED processedVars
  PROVE  ProcessedLemmas!ConsumerStep
<1>. USE DEF ProcessedLemmas!ConsumerStep
<1>1. CASE \E s \in Nat : AddToProcessed(s)
  BY <1>1 DEF AddToProcessed, ProcessedLemmas!Grow
<1>2. CASE Processed!Server
  BY <1>2
  DEF Processed!Server, Processed!Deliver, Processed!LoseDelivery,
      Processed!AckWaitExpires, Processed!Fetching, Processed!SendToConsumer,
      Processed!Deliverable, Processed!Fault,
      ProcessedLemmas!Server, ProcessedLemmas!Deliver, ProcessedLemmas!LoseDelivery,
      ProcessedLemmas!AckWaitExpires, ProcessedLemmas!Fetching,
      ProcessedLemmas!SendToConsumer, ProcessedLemmas!Deliverable, ProcessedLemmas!Fault
<1>3. CASE Processed!Loop
  BY <1>3
  DEF Processed!Loop, Processed!FetchEnds, Processed!CallService, Processed!Ack,
      Processed!Nak, Processed!LoseAnswer, Processed!NextMessage, Processed!Current,
      Processed!Deliverable, Processed!Fault, Processed!serverVars,
      ProcessedLemmas!Loop, ProcessedLemmas!FetchEnds, ProcessedLemmas!CallService,
      ProcessedLemmas!Ack, ProcessedLemmas!Nak, ProcessedLemmas!LoseAnswer,
      ProcessedLemmas!NextMessage, ProcessedLemmas!Current, ProcessedLemmas!Deliverable,
      ProcessedLemmas!Fault, ProcessedLemmas!serverVars
<1>4. CASE Processed!Accept \/ Processed!Reject \/ Processed!Restart
  BY <1>4
  DEF Processed!Accept, Processed!Reject, Processed!Restart, Processed!Current,
      Processed!serverVars,
      ProcessedLemmas!Accept, ProcessedLemmas!Reject, ProcessedLemmas!Restart,
      ProcessedLemmas!Current, ProcessedLemmas!serverVars
<1>5. CASE UNCHANGED processedVars
  BY <1>5 DEF processedVars, ProcessedLemmas!serverVars
<1>. QED
  BY <1>1, <1>2, <1>3, <1>4, <1>5

LEMMA RawIInvStep ==
  ASSUME Raw!IInv, RawLemmas!ConsumerStep, faults' \in 0..MaxFaults
  PROVE  Raw!IInv'
<1>1. RawLemmas!IInv
  BY RawIInvIsInstance
<1>2. RawLemmas!IInv'
  BY <1>1, RawLemmas!StepIInv, BoundsAssumption
<1>3. (RawLemmas!IInv <=> Raw!IInv)'
  BY RawIInvIsInstance, PTL
<1>. QED
  BY <1>2, <1>3

LEMMA ProcessedIInvStep ==
  ASSUME Processed!IInv, ProcessedLemmas!ConsumerStep, faults' \in 0..MaxFaults
  PROVE  Processed!IInv'
<1>1. ProcessedLemmas!IInv
  BY ProcessedIInvIsInstance
<1>2. ProcessedLemmas!IInv'
  BY <1>1, ProcessedLemmas!StepIInv, BoundsAssumption
<1>3. (ProcessedLemmas!IInv <=> Processed!IInv)'
  BY ProcessedIInvIsInstance, PTL
<1>. QED
  BY <1>2, <1>3

\* The message that a service is called with is one of its stream.
LEMMA CurrentIsOnStream ==
  /\ Raw!IInv /\ rStep # "fetch" => Raw!Current \in 1..Len(rStream)
  /\ Processed!IInv /\ pStep # "fetch" => Processed!Current \in 1..Len(pStream)
<1>1. ASSUME Raw!IInv, rStep # "fetch"
      PROVE  Raw!Current \in 1..Len(rStream)
  <2>1. rBatch \in Seq(Nat) /\ rBatch # <<>> /\ Raw!Current = rBatch[1]
    BY <1>1 DEF Raw!IInv, Raw!TypeOK, Raw!Current
  <2>2. 1 \in 1..Len(rBatch)
    BY <2>1
  <2>. QED
    BY <1>1, <2>1, <2>2 DEF Raw!IInv, Raw!TypeOK
<1>2. ASSUME Processed!IInv, pStep # "fetch"
      PROVE  Processed!Current \in 1..Len(pStream)
  <2>1. pBatch \in Seq(Nat) /\ pBatch # <<>> /\ Processed!Current = pBatch[1]
    BY <1>2 DEF Processed!IInv, Processed!TypeOK, Processed!Current
  <2>2. 1 \in 1..Len(pBatch)
    BY <2>1
  <2>. QED
    BY <1>2, <2>1, <2>2 DEF Processed!IInv, Processed!TypeOK
<1>. QED
  BY <1>1, <1>2

(***************************************************************************)
(* The steps of the pipeline, as its two consumers see them.                *)
(***************************************************************************)
LEMMA FaultsStay ==
  ASSUME IInv
  PROVE  /\ UNCHANGED faults => faults' \in 0..MaxFaults
         /\ \A kind : Raw!Fault(kind) \/ Processed!Fault(kind) => faults' \in 0..MaxFaults
BY BoundsAssumption DEF IInv, Raw!IInv, Raw!TypeOK, Raw!Fault, Processed!Fault

LEMMA ConsumersStep ==
  ASSUME IInv, [Next]_vars
  PROVE  /\ faults' \in 0..MaxFaults
         /\ RawLemmas!ConsumerStep
         /\ ProcessedLemmas!ConsumerStep
<1>1. CASE Environment
  BY <1>1, FaultsStay, RawConsumerSteps, ProcessedConsumerSteps
  DEF Environment, Ingest, Raw!Publish, RegisterDevice, DeleteOrganization, UpdateDefinition
<1>2. CASE RawConsumer
  <2>1. faults' \in 0..MaxFaults
    BY <1>2, FaultsStay
    DEF RawConsumer, Raw!Server, Raw!Deliver, Raw!LoseDelivery, Raw!AckWaitExpires,
        Raw!Loop, Raw!FetchEnds, Raw!CallService, Raw!Ack, Raw!Nak, Raw!LoseAnswer
  <2>. QED
    BY <1>2, <2>1, RawConsumerSteps, ProcessedConsumerSteps DEF RawConsumer
<1>3. CASE ProcessedConsumer
  <2>1. faults' \in 0..MaxFaults
    BY <1>3, FaultsStay
    DEF ProcessedConsumer, Processed!Server, Processed!Deliver, Processed!LoseDelivery,
        Processed!AckWaitExpires, Processed!Loop, Processed!FetchEnds,
        Processed!CallService, Processed!Ack, Processed!Nak, Processed!LoseAnswer
  <2>. QED
    BY <1>3, <2>1, RawConsumerSteps, ProcessedConsumerSteps DEF ProcessedConsumer
<1>4. CASE FetchDevice
  BY <1>4, FaultsStay, RawConsumerSteps, ProcessedConsumerSteps DEF FetchDevice
<1>5. CASE DeviceNotFound \/ QueryFails \/ OrganizationNotFound
  BY <1>5, FaultsStay, RawConsumerSteps, ProcessedConsumerSteps
  DEF DeviceNotFound, QueryFails, OrganizationNotFound, ReturnErr, Fault
<1>6. CASE RunContracts
  BY <1>6, FaultsStay, RawConsumerSteps, ProcessedConsumerSteps
  DEF RunContracts, ReturnOk, ReturnErr
<1>7. CASE PublishProcessed \/ PublishFails
  <2>1. Raw!Accept \/ Raw!Reject
    BY <1>7 DEF PublishProcessed, PublishFails, ReturnOk, ReturnErr
  <2>2. Raw!Current \in Nat
    BY <2>1, CurrentIsOnStream DEF IInv, Raw!Accept, Raw!Reject
  <2>3. AddToProcessed(Raw!Current) \/ UNCHANGED processedVars
    BY <1>7
    DEF PublishProcessed, PublishFails, AddToProcessed, Processed!Publish
  <2>4. faults' \in 0..MaxFaults
    BY <1>7, FaultsStay DEF PublishProcessed, PublishFails, Processed!Publish, Fault
  <2>. QED
    BY <2>1, <2>2, <2>3, <2>4, RawConsumerSteps, ProcessedConsumerSteps
<1>7a. CASE ProcessedService
  BY <1>7a, FaultsStay, RawConsumerSteps, ProcessedConsumerSteps
  DEF ProcessedService, BufferRow, BufferFails, Fault
<1>8. CASE Commit \/ FinalCommit \/ Shutdown
  BY <1>8, FaultsStay, RawConsumerSteps, ProcessedConsumerSteps
  DEF Commit, FinalCommit, Shutdown, Flush, FlushFails, Fault
<1>9. CASE Exit \/ Crash
  BY <1>9, FaultsStay, RawConsumerSteps, ProcessedConsumerSteps
  DEF Exit, Crash, Restart, Fault
<1>10. CASE UNCHANGED vars
  BY <1>10, FaultsStay, RawConsumerSteps, ProcessedConsumerSteps DEF vars
<1>. QED
  BY <1>1, <1>2, <1>3, <1>4, <1>5, <1>6, <1>7, <1>7a, <1>8, <1>9, <1>10
  DEF Next, RawService

(***************************************************************************)
(* What a step does to the envelopes: the services put them on the          *)
(* processed stream, drop them or buffer them, and nothing else does.       *)
(***************************************************************************)
Stores == buffer \cup table \cup lost

\* What the services have answered and what it stands for stays as it is.
NoAnswer == UNCHANGED <<rAccepted, dropped, pStream, pAccepted>> /\ Stores' = Stores

\* The contracts drop the current envelope.
DropsCurrent ==
  /\ rStep = "call"
  /\ rAccepted' = rAccepted \cup {Raw!Current}
  /\ dropped' = dropped \cup {Raw!Current}
  /\ UNCHANGED <<pStream, pAccepted, buffer, table, lost>>

\* The current envelope gets on the processed stream, and the service may know.
PublishesCurrent ==
  /\ rStep = "call" /\ at = "publish"
  /\ pStream' = Append(pStream, Raw!Current)
  /\ rAccepted' \in {rAccepted, rAccepted \cup {Raw!Current}}
  /\ UNCHANGED <<rStream, org, deletedAt, dropped, pAccepted, buffer, table, lost>>

\* The row of the current processed envelope is buffered.
BuffersCurrent ==
  /\ pStep = "call"
  /\ pAccepted' = pAccepted \cup {Processed!Current}
  /\ buffer' = buffer \cup {Row}
  /\ UNCHANGED <<rAccepted, dropped, pStream, table, lost>>

LEMMA RawConsumerAnswersNothing ==
  ASSUME Raw!Server \/ Raw!Loop
  PROVE  UNCHANGED <<rAccepted, rStream>>
BY DEF Raw!Server, Raw!Deliver, Raw!LoseDelivery, Raw!SendToConsumer, Raw!AckWaitExpires,
       Raw!Loop, Raw!FetchEnds, Raw!CallService, Raw!Ack, Raw!Nak, Raw!LoseAnswer,
       Raw!NextMessage, Raw!serverVars

LEMMA ProcessedConsumerAnswersNothing ==
  ASSUME Processed!Server \/ Processed!Loop
  PROVE  UNCHANGED <<pAccepted, pStream>>
BY DEF Processed!Server, Processed!Deliver, Processed!LoseDelivery,
       Processed!SendToConsumer, Processed!AckWaitExpires, Processed!Loop,
       Processed!FetchEnds, Processed!CallService, Processed!Ack, Processed!Nak,
       Processed!LoseAnswer, Processed!NextMessage, Processed!serverVars

LEMMA StepAnswers ==
  ASSUME [Next]_vars
  PROVE  NoAnswer \/ DropsCurrent \/ PublishesCurrent \/ BuffersCurrent
<1>. USE DEF NoAnswer, Stores, serviceVars, inserterVars, registryVars
<1>1. CASE Environment
  BY <1>1
  DEF Environment, Ingest, Raw!Publish, RegisterDevice, DeleteOrganization,
      UpdateDefinition, rawVars, processedVars
<1>2. CASE RawConsumer
  BY <1>2, RawConsumerAnswersNothing DEF RawConsumer, processedVars
<1>3. CASE ProcessedConsumer
  BY <1>3, ProcessedConsumerAnswersNothing DEF ProcessedConsumer, rawVars
<1>4. CASE FetchDevice \/ DeviceNotFound \/ QueryFails \/ OrganizationNotFound
  BY <1>4
  DEF FetchDevice, DeviceNotFound, QueryFails, OrganizationNotFound, Working, ReturnErr,
      Raw!Reject, Raw!serverVars, rawVars, processedVars
<1>5. CASE RunContracts
  BY <1>5
  DEF RunContracts, Working, ReturnOk, ReturnErr, Raw!Accept, Raw!Reject, Raw!serverVars,
      rawVars, processedVars, DropsCurrent
<1>6. CASE PublishProcessed
  BY <1>6
  DEF PublishProcessed, Processed!Publish, Working, ReturnOk, Raw!Accept,
      Raw!serverVars, PublishesCurrent
<1>7. CASE PublishFails
  BY <1>7
  DEF PublishFails, Working, ReturnErr, Raw!Reject, Raw!serverVars, processedVars,
      PublishesCurrent
<1>8. CASE ProcessedService
  BY <1>8
  DEF ProcessedService, BufferRow, BufferFails, Processed!Accept, Processed!Reject,
      Processed!serverVars, rawVars, BuffersCurrent
<1>9. CASE Commit \/ FinalCommit \/ Shutdown
  BY <1>9 DEF Commit, FinalCommit, Shutdown, Flush, FlushFails, rawVars, processedVars
<1>10. CASE Exit \/ Crash
  BY <1>10
  DEF Exit, Crash, Restart, Raw!Restart, Processed!Restart, Raw!serverVars,
      Processed!serverVars
<1>11. CASE UNCHANGED vars
  BY <1>11 DEF vars, rawVars, processedVars
<1>. QED
  BY <1>1, <1>2, <1>3, <1>4, <1>5, <1>6, <1>7, <1>8, <1>9, <1>10, <1>11
  DEF Next, RawService

\* An envelope that is published is added at the end of the stream.
LEMMA PublishedGrows ==
  ASSUME pStream \in Seq(Nat), NEW s \in Nat, pStream' = Append(pStream, s)
  PROVE  /\ Published' = Published \cup {s}
         /\ \A i \in 1..Len(pStream) : pStream'[i] = pStream[i]
<1>1. /\ Len(pStream') = Len(pStream) + 1
      /\ pStream'[Len(pStream) + 1] = s
      /\ \A i \in 1..Len(pStream) : pStream'[i] = pStream[i]
  OBVIOUS
<1>2. 1..Len(pStream') = 1..Len(pStream) \cup {Len(pStream) + 1}
  BY <1>1
<1>. QED
  BY <1>1, <1>2 DEF Published

(***************************************************************************)
(* The inductive invariant.                                                 *)
(***************************************************************************)

\* The raw stream and the record of the deletion: an organization is deleted once.
LEMMA RegistryStep ==
  ASSUME IInv, [Next]_vars
  PROVE  /\ Len(rStream) <= Len(rStream')
         /\ org \in {"active", "deleted"} /\ org' \in {"active", "deleted"}
         /\ UNCHANGED <<org, deletedAt>>
              \/ /\ org = "active" /\ deletedAt' = Len(rStream)
                 /\ UNCHANGED <<rawVars, processedVars, serviceVars, inserterVars>>
<1>1. org \in {"active", "deleted"}
  BY DEF IInv, TypeOK
<1>. USE <1>1 DEF registryVars
<1>2. CASE Environment
  <2>1. ASSUME NEW m \in Payloads, Ingest(m)
        PROVE  Len(rStream) <= Len(rStream') /\ UNCHANGED <<org, deletedAt>>
    <3>1. rStream \in Seq(Payloads) /\ rStream' = Append(rStream, m)
      BY <2>1 DEF IInv, Raw!IInv, Raw!TypeOK, Ingest, Raw!Publish
    <3>. QED
      BY <2>1, <3>1 DEF Ingest
  <2>2. rStream \in Seq(Payloads)
    BY DEF IInv, Raw!IInv, Raw!TypeOK
  <2>. QED
    BY <1>2, <2>1, <2>2
    DEF Environment, RegisterDevice, DeleteOrganization, UpdateDefinition, rawVars
<1>3. CASE ~Environment
  <2>1. UNCHANGED <<org, deletedAt>>
    BY <1>3
    DEF Next, vars, RawConsumer, ProcessedConsumer, RawService, FetchDevice,
        DeviceNotFound, QueryFails, OrganizationNotFound, RunContracts,
        PublishProcessed, PublishFails, Working, ProcessedService, BufferRow, BufferFails,
        Commit, FinalCommit, Flush, FlushFails, Shutdown, Exit, Crash, Restart
  <2>2. UNCHANGED rStream
    BY <1>3, RawConsumerAnswersNothing
    DEF Next, vars, RawConsumer, ProcessedConsumer, RawService, FetchDevice,
        DeviceNotFound, QueryFails, OrganizationNotFound, RunContracts,
        PublishProcessed, PublishFails, ProcessedService, BufferRow, BufferFails,
        Commit, FinalCommit, Flush, FlushFails, Shutdown, Exit, Crash, Restart,
        ReturnOk, ReturnErr, Raw!Accept, Raw!Reject, Raw!Restart, Raw!serverVars, rawVars
  <2>3. rStream \in Seq(Payloads)
    BY DEF IInv, Raw!IInv, Raw!TypeOK
  <2>. QED
    BY <2>1, <2>2, <2>3
<1>. QED
  BY <1>2, <1>3

\* Rows are those of raw envelopes.
LEMMA OriginStep ==
  ASSUME IInv, [Next]_vars
  PROVE  /\ OriginInv'
         /\ dropped' \subseteq 1..Len(rStream')
<1>. DEFINE old == 1..Len(rStream)
<1>1. old \subseteq 1..Len(rStream')
  <2>1. Len(rStream) \in Nat /\ Len(rStream') \in Nat
    <3>1. Raw!IInv'
      BY ConsumersStep, RawIInvStep DEF IInv
    <3>. QED
      BY <3>1 DEF IInv, Raw!IInv, Raw!TypeOK
  <2>. QED
    BY <2>1, RegistryStep
<1>2. Published \subseteq old /\ Stores \subseteq Published /\ dropped \subseteq old
  BY DEF IInv, TypeOK, OriginInv, Stores
<1>3. CASE NoAnswer
  BY <1>1, <1>2, <1>3 DEF NoAnswer, OriginInv, Stores, Published
<1>4. CASE DropsCurrent
  <2>1. Raw!Current \in old
    BY <1>4, CurrentIsOnStream DEF DropsCurrent, IInv
  <2>. QED
    BY <1>1, <1>2, <1>4, <2>1 DEF DropsCurrent, OriginInv, Stores, Published
<1>5. CASE PublishesCurrent
  <2>1. Raw!Current \in old
    BY <1>5, CurrentIsOnStream DEF PublishesCurrent, IInv
  <2>2. Raw!Current \in Nat
    BY <2>1
  <2>3. Published' = Published \cup {Raw!Current}
    BY <1>5, <2>2, PublishedGrows
    DEF PublishesCurrent, IInv, Processed!IInv, Processed!TypeOK
  <2>. QED
    BY <1>1, <1>2, <1>5, <2>1, <2>3 DEF PublishesCurrent, OriginInv, Stores
<1>6. CASE BuffersCurrent
  <2>1. Processed!Current \in 1..Len(pStream)
    BY <1>6, CurrentIsOnStream DEF BuffersCurrent, IInv
  <2>2. Row \in Published
    BY <2>1 DEF Row, Published
  <2>. QED
    BY <1>1, <1>2, <1>6, <2>2 DEF BuffersCurrent, OriginInv, Stores, Published
<1>. QED
  BY <1>3, <1>4, <1>5, <1>6, StepAnswers

LEMMA AcceptedStep ==
  ASSUME IInv, [Next]_vars
  PROVE  AcceptedInv'
<1>1. /\ rAccepted \subseteq Published \cup dropped
      /\ \A i \in pAccepted : pStream[i] \in Stores
      /\ pAccepted \subseteq 1..Len(pStream)
  BY DEF IInv, AcceptedInv, Stores, Processed!IInv, Processed!TypeOK
<1>. SUFFICES /\ rAccepted' \subseteq Published' \cup dropped'
              /\ \A i \in pAccepted' : pStream'[i] \in Stores'
  BY DEF AcceptedInv, Stores
<1>2. CASE NoAnswer
  BY <1>1, <1>2 DEF NoAnswer, Published
<1>3. CASE DropsCurrent
  BY <1>1, <1>3 DEF DropsCurrent, Stores, Published
<1>4. CASE PublishesCurrent
  <2>1. Raw!Current \in Nat
    BY <1>4, CurrentIsOnStream DEF PublishesCurrent, IInv
  <2>2. /\ Published' = Published \cup {Raw!Current}
        /\ \A i \in 1..Len(pStream) : pStream'[i] = pStream[i]
    BY <1>4, <2>1, PublishedGrows
    DEF PublishesCurrent, IInv, Processed!IInv, Processed!TypeOK
  <2>. QED
    BY <1>1, <1>4, <2>2 DEF PublishesCurrent, Stores
<1>5. CASE BuffersCurrent
  BY <1>1, <1>5 DEF BuffersCurrent, Row, Stores, Published
<1>. QED
  BY <1>2, <1>3, <1>4, <1>5, StepAnswers

\* A deletion finds only envelopes that arrived before it; after it, the one that is
\* about to be published was checked before it.
LEMMA NoneAfterStep ==
  ASSUME IInv, [Next]_vars
  PROVE  NoneAfterDeletion'
<1>1. CASE org = "active" /\ deletedAt' = Len(rStream) /\ UNCHANGED processedVars
  BY <1>1 DEF IInv, OriginInv, NoneAfterDeletion, Published, processedVars
<1>2. CASE UNCHANGED <<org, deletedAt>>
  <2>1. CASE PublishesCurrent
    <3>1. Raw!Current \in Nat
      BY <2>1, CurrentIsOnStream DEF PublishesCurrent, IInv
    <3>2. Published' = Published \cup {Raw!Current}
      BY <2>1, <3>1, PublishedGrows
      DEF PublishesCurrent, IInv, Processed!IInv, Processed!TypeOK
    <3>. QED
      BY <1>2, <2>1, <3>2 DEF PublishesCurrent, IInv, ServiceInv, NoneAfterDeletion
  <2>2. CASE UNCHANGED pStream
    BY <1>2, <2>2 DEF IInv, NoneAfterDeletion, Published
  <2>. QED
    BY <2>1, <2>2, StepAnswers DEF NoAnswer, DropsCurrent, BuffersCurrent
<1>. QED
  BY <1>1, <1>2, RegistryStep

\* While the service works on a message the batch stays as it is.
LEMMA ServiceStep ==
  ASSUME IInv, [Next]_vars
  PROVE  ServiceInv'
<1>1. UNCHANGED <<at, rStep, rBatch, org, deletedAt>> => ServiceInv'
  BY DEF IInv, ServiceInv, Raw!Current
<1>2. at' = "device" => ServiceInv'
  BY DEF ServiceInv
<1>3. CASE Environment
  <2>1. CASE DeleteOrganization
    <3>1. at = "publish" => Raw!Current \in 1..Len(rStream)
      BY CurrentIsOnStream DEF IInv, ServiceInv
    <3>. QED
      BY <2>1, <3>1
      DEF DeleteOrganization, rawVars, serviceVars, IInv, ServiceInv, Raw!Current
  <2>. QED
    BY <1>1, <1>3, <2>1
    DEF Environment, Ingest, Raw!Publish, RegisterDevice, UpdateDefinition, rawVars,
        registryVars, serviceVars
<1>4. CASE RawConsumer
  <2>1. CASE at = "device"
    BY <1>2, <1>4, <2>1 DEF RawConsumer, serviceVars
  <2>2. CASE at # "device"
    <3>1. rStep = "call"
      BY <2>2 DEF IInv, ServiceInv
    <3>2. UNCHANGED <<rBatch, rStep>>
      BY <1>4, <3>1
      DEF RawConsumer, Raw!Server, Raw!Deliver, Raw!LoseDelivery, Raw!Fetching,
          Raw!AckWaitExpires, Raw!Loop, Raw!FetchEnds, Raw!CallService, Raw!Ack, Raw!Nak,
          Raw!LoseAnswer
    <3>. QED
      BY <1>1, <1>4, <3>2 DEF RawConsumer, serviceVars, registryVars
  <2>. QED
    BY <2>1, <2>2
<1>5. CASE FetchDevice
  BY <1>5 DEF FetchDevice, Working, rawVars, ServiceInv
<1>6. CASE DeviceNotFound \/ QueryFails \/ OrganizationNotFound
           \/ PublishProcessed \/ PublishFails
  BY <1>2, <1>6
  DEF DeviceNotFound, QueryFails, OrganizationNotFound, PublishProcessed, PublishFails,
      ReturnOk, ReturnErr
<1>7. CASE RunContracts
  <2>1. CASE at' = "publish" /\ UNCHANGED rawVars
    BY <1>7, <2>1 DEF RunContracts, Working, registryVars, rawVars, ServiceInv
  <2>. QED
    BY <1>2, <1>7, <2>1 DEF RunContracts, ReturnOk, ReturnErr
<1>8. CASE ProcessedConsumer \/ ProcessedService \/ Commit \/ FinalCommit \/ Shutdown
           \/ UNCHANGED vars
  BY <1>1, <1>8
  DEF ProcessedConsumer, ProcessedService, BufferRow, BufferFails, Commit, FinalCommit,
      Flush, FlushFails, Shutdown, rawVars, registryVars, serviceVars, vars
<1>9. CASE Exit \/ Crash
  BY <1>2, <1>9 DEF Exit, Crash, Restart
<1>. QED
  BY <1>3, <1>4, <1>5, <1>6, <1>7, <1>8, <1>9 DEF Next, RawService

LEMMA TypeStep ==
  ASSUME IInv, [Next]_vars
  PROVE  TypeOK'
<1>1. Raw!IInv' /\ Processed!IInv'
  BY ConsumersStep, RawIInvStep, ProcessedIInvStep DEF IInv
<1>2. Raw!TypeOK' /\ Processed!TypeOK'
  BY <1>1 DEF Raw!IInv, Processed!IInv
<1>3. deletedAt' \in 0..Len(rStream') /\ org' \in {"active", "deleted"}
  <2>1. Len(rStream) \in Nat /\ Len(rStream') \in Nat
    BY <1>2 DEF IInv, Raw!IInv, Raw!TypeOK
  <2>. QED
    BY <2>1, RegistryStep DEF IInv, TypeOK
<1>4. /\ dropped' \subseteq 1..Len(rStream')
      /\ (buffer \cup table \cup lost)' \subseteq 1..Len(rStream')
  BY OriginStep DEF OriginInv
<1>. DEFINE Enums == /\ device \in {"missing", "present"}
                     /\ definition \in Definitions /\ read \in Definitions
                     /\ at \in {"device", "organization", "publish"}
                     /\ committing \in BOOLEAN
                     /\ phase \in {"up", "stopping"}
<1>5. Enums'
  <2>. USE DEF serviceVars, inserterVars, registryVars
  <2>0. Enums
    BY DEF IInv, TypeOK
  <2>1. CASE Environment
    BY <2>0, <2>1
    DEF Environment, Ingest, RegisterDevice, DeleteOrganization, UpdateDefinition
  <2>2. CASE RawConsumer \/ ProcessedConsumer \/ ProcessedService \/ UNCHANGED vars
    BY <2>0, <2>2
    DEF RawConsumer, ProcessedConsumer, ProcessedService, BufferRow, BufferFails, vars
  <2>3. CASE RawService
    BY <2>0, <2>3
    DEF RawService, FetchDevice, DeviceNotFound, QueryFails, OrganizationNotFound,
        RunContracts, PublishProcessed, PublishFails, Working, ReturnOk, ReturnErr
  <2>4. CASE Commit \/ FinalCommit \/ Shutdown \/ Exit \/ Crash
    BY <2>0, <2>4
    DEF Commit, FinalCommit, Flush, FlushFails, Shutdown, Exit, Crash, Restart
  <2>. QED
    BY <2>1, <2>2, <2>3, <2>4 DEF Next
<1>. QED
  BY <1>2, <1>3, <1>4, <1>5 DEF TypeOK

LEMMA InitIInv == Init => IInv
<1> SUFFICES ASSUME Init
             PROVE  IInv
  OBVIOUS
<1>1. RawLemmas!Init /\ ProcessedLemmas!Init
  BY DEF Init, Raw!Init, Processed!Init, RawLemmas!Init, ProcessedLemmas!Init
<1>2. Raw!IInv /\ Processed!IInv
  BY <1>1, RawLemmas!InitIInv, ProcessedLemmas!InitIInv, BoundsAssumption,
     RawIInvIsInstance, ProcessedIInvIsInstance
<1>3. TypeOK
  BY <1>2 DEF Init, TypeOK, Raw!IInv, Processed!IInv, Raw!TypeOK
<1>4. Published = {}
  BY DEF Init, Processed!Init, Published
<1>. QED
  BY <1>2, <1>3, <1>4
  DEF Init, IInv, Raw!Init, Processed!Init, OriginInv, AcceptedInv, ServiceInv,
      NoneAfterDeletion

LEMMA NextIInv == IInv /\ [Next]_vars => IInv'
<1> SUFFICES ASSUME IInv, [Next]_vars
             PROVE  IInv'
  OBVIOUS
<1>1. Raw!IInv' /\ Processed!IInv'
  BY ConsumersStep, RawIInvStep, ProcessedIInvStep DEF IInv
<1>. QED
  BY <1>1, TypeStep, OriginStep, AcceptedStep, ServiceStep, NoneAfterStep DEF IInv

\* Whatever fails, expires, restarts or is deleted, IInv holds.
THEOREM Invariance == Spec => []IInv
BY InitIInv, NextIInv, PTL DEF Spec

\* Every variable keeps its type, and an envelope, a row and a time of deletion are
\* numbers of the raw stream.
THEOREM TypeCorrect == Spec => []TypeOK
<1>1. IInv => TypeOK
  BY DEF IInv
<1>. QED
  BY <1>1, Invariance, PTL

\* The raw stream forgets no envelope that was neither published nor dropped by a
\* contract list, for any contracts, batches and faults.
THEOREM NoEnvelopeVanishes == Spec => []NothingVanishes
<1>1. IInv => NothingVanishes
  BY DEF IInv, Raw!IInv, Raw!SettledIsAccepted, AcceptedInv, NothingVanishes
<1>. QED
  BY <1>1, Invariance, PTL

\* The processed stream forgets an envelope only when its row is in the buffer, in
\* the table, or lost with the buffer.
THEOREM NoRowVanishes == Spec => []RowsAccountedFor
<1>1. IInv => RowsAccountedFor
  BY DEF IInv, Processed!IInv, Processed!SettledIsAccepted, AcceptedInv, RowsAccountedFor
<1>. QED
  BY <1>1, Invariance, PTL

\* No envelope that arrives after its organization was deleted is published.
THEOREM DeletionIsFinal == Spec => []NoneAfterDeletion
<1>1. IInv => NoneAfterDeletion
  BY DEF IInv
<1>. QED
  BY <1>1, Invariance, PTL

\* From one end to the other: an envelope that the raw stream has forgotten was
\* dropped by the contracts or was published, and each of its copies that the
\* processed stream has forgotten has left its row.
EndToEnd ==
  \A s \in Raw!Settled :
    \/ s \in dropped
    \/ /\ s \in Published
       /\ \A i \in Processed!Settled : pStream[i] = s => s \in buffer \cup table \cup lost

\* An envelope that the raw stream has forgotten went on or was dropped, and one that
\* went on is accounted for once the processed stream has forgotten it.
THEOREM EnvelopesAccountedFor == Spec => []EndToEnd
<1>1. IInv => EndToEnd
  BY DEF IInv, Raw!IInv, Raw!SettledIsAccepted, Processed!IInv,
         Processed!SettledIsAccepted, AcceptedInv, EndToEnd
<1>. QED
  BY <1>1, Invariance, PTL

(***************************************************************************)
(* Each consumer goes on being a work queue, though its service now does    *)
(* things of its own, and the other consumer and the program go on beside   *)
(* it.                                                                      *)
(***************************************************************************)
LEMMA RawQueueInit == Init => Raw!Queue!Init
BY DEF Init, Raw!Init, Raw!Queue!Init, Raw!Settled

LEMMA RawQueueStep == IInv /\ [Next]_vars => [Raw!Queue!Next]_(Raw!Queue!vars)
<1> SUFFICES ASSUME IInv, [Next]_vars
             PROVE  [Raw!Queue!Next]_(Raw!Queue!vars)
  OBVIOUS
<1>1. RawLemmas!IInv
  BY RawIInvIsInstance DEF IInv
<1>2. [RawLemmas!Queue!Next]_(RawLemmas!Queue!vars)
  BY <1>1, ConsumersStep, RawLemmas!StepRefines, BoundsAssumption
<1>. QED
  BY <1>2
  DEF RawLemmas!Queue!Next, RawLemmas!Queue!vars, RawLemmas!Queue!Submit,
      RawLemmas!Queue!Accept, RawLemmas!Queue!Settle, RawLemmas!Settled,
      Raw!Queue!Next, Raw!Queue!vars, Raw!Queue!Submit, Raw!Queue!Accept,
      Raw!Queue!Settle, Raw!Settled

LEMMA ProcessedQueueInit == Init => Processed!Queue!Init
BY DEF Init, Processed!Init, Processed!Queue!Init, Processed!Settled

LEMMA ProcessedQueueStep ==
  IInv /\ [Next]_vars => [Processed!Queue!Next]_(Processed!Queue!vars)
<1> SUFFICES ASSUME IInv, [Next]_vars
             PROVE  [Processed!Queue!Next]_(Processed!Queue!vars)
  OBVIOUS
<1>1. ProcessedLemmas!IInv
  BY ProcessedIInvIsInstance DEF IInv
<1>2. [ProcessedLemmas!Queue!Next]_(ProcessedLemmas!Queue!vars)
  BY <1>1, ConsumersStep, ProcessedLemmas!StepRefines, BoundsAssumption
<1>. QED
  BY <1>2
  DEF ProcessedLemmas!Queue!Next, ProcessedLemmas!Queue!vars,
      ProcessedLemmas!Queue!Submit, ProcessedLemmas!Queue!Accept,
      ProcessedLemmas!Queue!Settle, ProcessedLemmas!Settled,
      Processed!Queue!Next, Processed!Queue!vars, Processed!Queue!Submit,
      Processed!Queue!Accept, Processed!Queue!Settle, Processed!Settled

\* Both consumers of the worker implement a work queue on their streams: what
\* TowerConsumer promises on its own survives the composition.
THEOREM ConsumersAreQueues == Spec => Raw!Queue!Spec /\ Processed!Queue!Spec
BY RawQueueInit, RawQueueStep, ProcessedQueueInit, ProcessedQueueStep, Invariance, PTL
DEF Spec, Raw!Queue!Spec, Processed!Queue!Spec

-----------------------------------------------------------------------------
(***************************************************************************)
(* process_contracts, for every list of contracts.  The loop is a function   *)
(* given by recursion: that there is one follows from the verdict written    *)
(* out, which satisfies its equation, and that it comes to that verdict by   *)
(* an induction, which LastOfRun is the form of: a set of numbers up to n    *)
(* that has with each of its members the next one too cannot be finite.      *)
(***************************************************************************)

\* A run of numbers from b on ends somewhere.
LEMMA LastOfRun ==
  ASSUME NEW n \in Nat, NEW B \in SUBSET (0..n), NEW b \in B
  PROVE  \E j \in B : j >= b /\ j + 1 \notin B
<1>. DEFINE From == {j \in B : j >= b}
            next == [j \in From |-> j + 1]
<1>1. SUFFICES ASSUME \A j \in From : j + 1 \in From
               PROVE  FALSE
  BY DEF From
<1>2. IsFiniteSet(From)
  BY FS_Interval, FS_Subset, 0 \in Int, n \in Int, From \subseteq 0..n
<1>3. b \in From
  OBVIOUS
<1>4. /\ IsFiniteSet(From \ {b})
      /\ Cardinality(From \ {b}) < Cardinality(From)
  <2>1. /\ Cardinality(From) \in Nat
        /\ IsFiniteSet(From \ {b})
        /\ Cardinality(From \ {b}) = Cardinality(From) - 1
    BY <1>2, <1>3, FS_RemoveElement, FS_CardinalityType
  <2>. QED
    BY <2>1
<1>5. next \in [From -> From \ {b}]
  <2>1. ASSUME NEW j \in From
        PROVE  j \in Nat /\ b \in Nat /\ j + 1 \in From /\ j + 1 # b
    BY <1>1
  <2>. QED
    BY <2>1
<1>6. PICK x \in From, y \in From : x # y /\ next[x] = next[y]
  <2>. HIDE DEF From, next
  <2>. QED
    BY <1>2, <1>4, <1>5, FS_PigeonHole
<1>. QED
  BY <1>6

\* The contract that decides, of those from the i-th on: the first that does
\* not say no.  It is the only member, and there is none if all say no.
Deciding(contracts, i) ==
  {k \in i..Len(contracts) :
     /\ contracts[k].match # "no"
     /\ \A j \in i..(k - 1) : contracts[j].match = "no"}

\* What comes of the contract that decides.
Outcome(c) == IF c.match = "error" THEN "error" ELSE Take(c, "drop")

VerdictFrom(contracts, i) ==
  IF Deciding(contracts, i) = {} THEN "drop"
  ELSE Outcome(contracts[CHOOSE k \in Deciding(contracts, i) : TRUE])

\* If some contract does not say no, then one is the first of those.
LEMMA SomeoneDecides ==
  ASSUME NEW contracts \in Seq(Contract), NEW k \in DOMAIN contracts,
         contracts[k].match # "no"
  PROVE  Deciding(contracts, 1) # {}
<1>. DEFINE Undecided == {j \in 0..(k - 1) : \A i \in 1..j : contracts[i].match = "no"}
<1>1. k \in Nat \ {0} /\ k - 1 \in Nat /\ k <= Len(contracts)
  OBVIOUS
<1>2. 0 \in Undecided
  BY <1>1
<1>3. PICK j \in Undecided : j >= 0 /\ j + 1 \notin Undecided
  <2>. HIDE DEF Undecided
  <2>. QED
    BY <1>1, <1>2, LastOfRun, Undecided \in SUBSET (0..(k - 1)) DEF Undecided
<1>4. contracts[j + 1].match # "no"
  <2>1. CASE j + 1 = k
    BY <2>1
  <2>2. CASE j + 1 # k
    BY <2>2, <1>1, <1>3
  <2>. QED
    BY <2>1, <2>2
<1>. QED
  BY <1>1, <1>3, <1>4 DEF Deciding

\* The loop from the i-th contract on, written out.
LoopFrom(contracts, i, rest) ==
  IF i > Len(contracts) THEN "drop"
  ELSE CASE contracts[i].match = "error" -> "error"
         [] contracts[i].match = "no"    -> rest
         [] OTHER -> Take(contracts[i], rest)

IsLoop(contracts, from) ==
  from = [i \in 1..(Len(contracts) + 1) |-> LoopFrom(contracts, i, from[i + 1])]

\* A contract that matches claims the payload: what the rest would come to
\* makes no difference.
LEMMA OutcomeIgnoresRest ==
  ASSUME NEW c \in Contract, NEW rest
  PROVE  Take(c, rest) = Take(c, "drop")
BY DEF Take

\* The verdict written out satisfies it.
LEMMA LoopExists ==
  ASSUME NEW contracts \in Seq(Contract)
  PROVE  \E from : IsLoop(contracts, from)
<1>. DEFINE verdict == [i \in 1..(Len(contracts) + 1) |-> VerdictFrom(contracts, i)]
<1>1. ASSUME NEW i \in 1..(Len(contracts) + 1)
      PROVE  VerdictFrom(contracts, i) = LoopFrom(contracts, i, verdict[i + 1])
  <2>0. i \in Nat /\ Len(contracts) \in Nat
    OBVIOUS
  <2>1. CASE i > Len(contracts)
    BY <2>0, <2>1 DEF VerdictFrom, Deciding, LoopFrom
  <2>2. CASE i <= Len(contracts) /\ contracts[i].match = "no"
    <3>1. Deciding(contracts, i) = Deciding(contracts, i + 1)
      BY <2>0, <2>2 DEF Deciding
    <3>2. i + 1 \in 1..(Len(contracts) + 1)
      BY <2>0, <2>2
    <3>3. VerdictFrom(contracts, i) = verdict[i + 1]
      BY <3>1, <3>2 DEF VerdictFrom
    <3>. QED
      BY <2>0, <2>2, <3>3 DEF LoopFrom
  <2>3. CASE i <= Len(contracts) /\ contracts[i].match # "no"
    <3>1. contracts[i] \in Contract
      BY <2>0, <2>3
    <3>2. Deciding(contracts, i) = {i}
      BY <2>0, <2>3 DEF Deciding
    <3>3. VerdictFrom(contracts, i) = Outcome(contracts[i])
      BY <3>2 DEF VerdictFrom
    <3>4. Take(contracts[i], verdict[i + 1]) = Take(contracts[i], "drop")
      BY <3>1, OutcomeIgnoresRest
    <3>. QED
      BY <2>0, <2>3, <3>1, <3>3, <3>4 DEF LoopFrom, Outcome, Contract
  <2>. QED
    BY <2>0, <2>1, <2>2, <2>3
<1>2. verdict = [i \in 1..(Len(contracts) + 1) |-> LoopFrom(contracts, i, verdict[i + 1])]
  BY <1>1
<1>3. IsLoop(contracts, verdict)
  BY <1>2 DEF IsLoop
<1>. QED
  BY <1>3

\* What ProcessContracts computes satisfies the equation of the loop.
LEMMA LoopIsRun ==
  ASSUME NEW contracts \in Seq(Contract)
  PROVE  \E from : IsLoop(contracts, from) /\ ProcessContracts(contracts) = from[1]
<1>. DEFINE from == CHOOSE f : IsLoop(contracts, f)
<1>1. IsLoop(contracts, from)
  BY LoopExists
<1>2. ProcessContracts(contracts) = from[1]
  BY DEF ProcessContracts, IsLoop, LoopFrom
<1>. QED
  BY <1>1, <1>2

\* What the loop comes to at one contract.
LEMMA LoopSteps ==
  ASSUME NEW contracts \in Seq(Contract), NEW from, IsLoop(contracts, from),
         NEW i \in 1..(Len(contracts) + 1)
  PROVE  /\ i > Len(contracts) => from[i] = "drop"
         /\ i <= Len(contracts) /\ contracts[i].match = "no" => from[i] = from[i + 1]
         /\ i <= Len(contracts) /\ contracts[i].match # "no" =>
              from[i] = Outcome(contracts[i])
<1>1. i \in Nat /\ Len(contracts) \in Nat
  OBVIOUS
<1>2. from[i] = LoopFrom(contracts, i, from[i + 1])
  BY DEF IsLoop
<1>3. CASE i > Len(contracts)
  BY <1>1, <1>2, <1>3 DEF LoopFrom
<1>4. CASE i <= Len(contracts) /\ contracts[i].match = "no"
  BY <1>1, <1>2, <1>4 DEF LoopFrom
<1>5. CASE i <= Len(contracts) /\ contracts[i].match # "no"
  <2>1. contracts[i] \in Contract
    BY <1>1, <1>5
  <2>2. Take(contracts[i], from[i + 1]) = Take(contracts[i], "drop")
    BY <2>1, OutcomeIgnoresRest
  <2>. QED
    BY <1>1, <1>2, <1>5, <2>1, <2>2 DEF LoopFrom, Outcome, Contract
<1>. QED
  BY <1>1, <1>3, <1>4, <1>5

\* Contracts that say no are passed over, however many.
LEMMA SkipsTo ==
  ASSUME NEW contracts \in Seq(Contract), NEW from, IsLoop(contracts, from),
         NEW k \in 1..(Len(contracts) + 1),
         \A j \in 1..(k - 1) : contracts[j].match = "no"
  PROVE  from[1] = from[k]
<1>. DEFINE Same == {j \in 0..k : j >= 1 /\ from[j] = from[1]}
<1>1. k \in Nat /\ k >= 1 /\ Len(contracts) \in Nat
  OBVIOUS
<1>2. PICK j \in Same : j >= 1 /\ j + 1 \notin Same
  <2>1. 1 \in Same /\ Same \in SUBSET (0..k)
    BY <1>1
  <2>. HIDE DEF Same
  <2>. QED
    BY <1>1, <2>1, LastOfRun
<1>3. CASE j = k
  BY <1>2, <1>3
<1>4. CASE j # k
  <2>1. j \in 1..(k - 1) /\ j \in 1..(Len(contracts) + 1) /\ j <= Len(contracts)
    BY <1>1, <1>2, <1>4
  <2>2. from[j] = from[j + 1]
    BY <2>1, LoopSteps
  <2>. QED
    BY <1>1, <1>2, <2>1, <2>2
<1>. QED
  BY <1>3, <1>4

\* RawEnvelopeService::process_contracts, for a definition of any length: a
\* payload that every contract declines is dropped, and otherwise the first
\* contract that does not decline it decides alone, whatever follows it: an
\* error if its match cannot be evaluated, else what its transform and its
\* schema make of the payload.
THEOREM FirstContractDecides ==
  ASSUME NEW contracts \in Seq(Contract)
  PROVE  /\ (\A k \in DOMAIN contracts : contracts[k].match = "no") =>
              ProcessContracts(contracts) = "drop"
         /\ (\E k \in DOMAIN contracts : contracts[k].match # "no") =>
              \E k \in Deciding(contracts, 1) :
                ProcessContracts(contracts) = Outcome(contracts[k])
<1>1. PICK from : IsLoop(contracts, from) /\ ProcessContracts(contracts) = from[1]
  BY LoopIsRun
<1>2. ASSUME \A k \in DOMAIN contracts : contracts[k].match = "no"
      PROVE  ProcessContracts(contracts) = "drop"
  <2>1. /\ Len(contracts) + 1 \in 1..(Len(contracts) + 1)
        /\ \A j \in 1..(Len(contracts) + 1 - 1) : contracts[j].match = "no"
        /\ Len(contracts) + 1 > Len(contracts)
    BY <1>2
  <2>2. from[1] = from[Len(contracts) + 1]
    BY <1>1, <2>1, SkipsTo
  <2>3. from[Len(contracts) + 1] = "drop"
    BY <1>1, <2>1, LoopSteps
  <2>. QED
    BY <1>1, <2>2, <2>3
<1>3. ASSUME NEW d \in DOMAIN contracts, contracts[d].match # "no"
      PROVE  \E k \in Deciding(contracts, 1) :
               ProcessContracts(contracts) = Outcome(contracts[k])
  <2>1. PICK k \in Deciding(contracts, 1) : TRUE
    BY <1>3, SomeoneDecides
  <2>2. /\ k \in 1..(Len(contracts) + 1) /\ k <= Len(contracts)
        /\ contracts[k].match # "no"
        /\ \A j \in 1..(k - 1) : contracts[j].match = "no"
    BY <2>1 DEF Deciding
  <2>3. from[1] = from[k]
    BY <1>1, <2>2, SkipsTo
  <2>4. from[k] = Outcome(contracts[k])
    BY <1>1, <2>2, LoopSteps
  <2>. QED
    BY <1>1, <2>1, <2>3, <2>4
<1>. QED
  BY <1>2, <1>3

-----------------------------------------------------------------------------
(***************************************************************************)
(* The Cayenne LPP decoder that the contracts' transforms call, for payloads *)
(* of any length.  Its loop is a function given by recursion too.            *)
(***************************************************************************)
Lpp == INSTANCE CayenneLpp

Bytes == 0..255

Turn(bytes, o, from) ==
  IF o = Len(bytes) THEN [readings |-> <<>>]
  ELSE IF Lpp!IsError(Lpp!Reading(bytes, o)) THEN Lpp!Reading(bytes, o)
  ELSE IF Lpp!IsError(from[Lpp!Reading(bytes, o).end]) THEN from[Lpp!Reading(bytes, o).end]
  ELSE [readings |-> <<Lpp!Reading(bytes, o)>> \o from[Lpp!Reading(bytes, o).end].readings]

IsDecoding(bytes, from) ==
  from = [o \in 0..Len(bytes) |-> Turn(bytes, o, from)]

Types == {0, 1, 102, 104, 120, 142} \cup {2, 3, 101, 103, 115, 116, 117, 121, 125, 128, 132}
         \cup {135} \cup {100, 118, 130, 131, 133} \cup {113, 134} \cup {136}

LEMMA SupportedTypes ==
  ASSUME NEW t \in Lpp!Supported
  PROVE  t \in Types \cup {Lpp!Polyline}
BY Zenon DEF Lpp!Supported, Lpp!TypeName, Lpp!Polyline, Types

LEMMA TypesSupported ==
  ASSUME NEW t \in Types
  PROVE  t \in Lpp!Supported
<1>1. t \in 0..255
  BY DEF Types
<1>2. Lpp!TypeName(t) # "unknown"
  BY SMT DEF Types, Lpp!TypeName, Lpp!Polyline
<1>. QED
  BY <1>1, <1>2 DEF Lpp!Supported

LEMMA Sizes ==
  ASSUME NEW t \in Types
  PROVE  Lpp!DataSize(t) \in 1..9
<1>. USE DEF Lpp!DataSize
<1>1. t \in {0, 1, 102, 104, 120, 142} => Lpp!DataSize(t) = 1
  BY SMT
<1>2. t \in {2, 3, 101, 103, 115, 116, 117, 121, 125, 128, 132} => Lpp!DataSize(t) = 2
  BY SMT
<1>3. t = 135 => Lpp!DataSize(t) = 3
  BY SMT
<1>4. t \in {100, 118, 130, 131, 133} => Lpp!DataSize(t) = 4
  BY SMT
<1>5. t \in {113, 134} => Lpp!DataSize(t) = 6
  BY SMT
<1>6. t = 136 => Lpp!DataSize(t) = 9
  BY SMT
<1>. HIDE DEF Lpp!DataSize
<1>. QED
  BY <1>1, <1>2, <1>3, <1>4, <1>5, <1>6 DEF Types

LEMMA Errors == \A kind : Lpp!IsError(Lpp!Error(kind))
BY DEF Lpp!IsError, Lpp!Error

LEMMA Ranges ==
  /\ \A a \in 0..255 : ~(a < 8) => a \in 8..255
  /\ \A s : \A n \in 1..9 \cup 8..255 : s = [size |-> n] => s.size \in 1..255
  /\ \A n \in Nat, o \in Nat, s \in 1..255 :
       ~(o + 2 + s > n) => o + 2 + s \in (o + 3)..n
<1>1. \A a \in 0..255 : ~(a < 8) => a \in 8..255
  OBVIOUS
<1>2. \A s : \A n \in 1..9 \cup 8..255 : s = [size |-> n] => s.size \in 1..255
  OBVIOUS
<1>3. \A n \in Nat, o \in Nat, s \in 1..255 :
        ~(o + 2 + s > n) => o + 2 + s \in (o + 3)..n
  OBVIOUS
<1>. QED
  BY <1>1, <1>2, <1>3

LEMMA SizeCases ==
  ASSUME NEW bytes \in Seq(Bytes), NEW o \in 0..Len(bytes), NEW t,
         ~Lpp!IsError(Lpp!SizeAt(bytes, o, t))
  PROVE  \/ /\ t = Lpp!Polyline /\ o # Len(bytes) /\ bytes[o + 1] \in 8..255
            /\ Lpp!SizeAt(bytes, o, t) = [size |-> bytes[o + 1]]
         \/ /\ t \in Types /\ t # Lpp!Polyline
            /\ Lpp!SizeAt(bytes, o, t) = [size |-> Lpp!DataSize(t)]
<1>1. CASE t = Lpp!Polyline
  <2>1. o # Len(bytes)
    BY <1>1, Errors DEF Lpp!SizeAt
  <2>2. bytes[o + 1] \in 0..255
    <3>1. o + 1 \in 1..Len(bytes) /\ bytes[o + 1] \in Bytes
      BY <2>1
    <3>. QED
      BY <3>1 DEF Bytes
  <2>3. ~(bytes[o + 1] < 8) /\ Lpp!SizeAt(bytes, o, t) = [size |-> bytes[o + 1]]
    BY <1>1, <2>1, Errors, Zenon DEF Lpp!SizeAt, Lpp!MinPolylineSize
  <2>. QED
    BY <1>1, <2>1, <2>2, <2>3, Ranges, Zenon
<1>2. CASE t # Lpp!Polyline
  <2>1. t \in Lpp!Supported
    BY <1>2, Errors DEF Lpp!SizeAt
  <2>2. t \in Types
    BY <1>2, <2>1, SupportedTypes
  <2>. QED
    BY <1>2, <2>1, <2>2 DEF Lpp!SizeAt
<1>. QED
  BY <1>1, <1>2

\* The bytes that a reading after the first o takes.
Size(bytes, o) == Lpp!SizeAt(bytes, o + 2, bytes[o + 2])

\* Its data, and what becomes of them.
Data(bytes, o) == SubSeq(bytes, o + 3, o + 2 + Size(bytes, o).size)
BadPrecision(t, data) == t = Lpp!Polyline /\ data[2] \notin Lpp!PrecisionCodes
Result(channel, t, data, end) ==
  [name  |-> <<Lpp!TypeName(t), channel>>,
   value |-> IF t = Lpp!Polyline THEN Lpp!PolylineValue(data) ELSE Lpp!Value(t, data),
   end   |-> end]

LEMMA ReadingIs ==
  ASSUME NEW bytes, NEW o
  PROVE  Lpp!Reading(bytes, o) =
           IF o + 2 > Len(bytes) THEN Lpp!Error("insufficient")
           ELSE IF Lpp!IsError(Size(bytes, o)) THEN Size(bytes, o)
           ELSE IF o + 2 + Size(bytes, o).size > Len(bytes) THEN Lpp!Error("insufficient")
           ELSE IF BadPrecision(bytes[o + 2], Data(bytes, o)) THEN Lpp!Error("invalid")
           ELSE Result(bytes[o + 1], bytes[o + 2], Data(bytes, o),
                       o + 2 + Size(bytes, o).size)
BY Zenon DEF Lpp!Reading, Size, Data, BadPrecision, Result

LEMMA ResultFacts ==
  ASSUME NEW channel, NEW t, NEW data, NEW end
  PROVE  /\ ~Lpp!IsError(Result(channel, t, data, end))
         /\ Result(channel, t, data, end).end = end
         /\ Result(channel, t, data, end).name = <<Lpp!TypeName(t), channel>>
         /\ Result(channel, t, data, end).value =
              IF t = Lpp!Polyline THEN Lpp!PolylineValue(data) ELSE Lpp!Value(t, data)
BY DEF Result, Lpp!IsError

LEMMA ReadingCases ==
  ASSUME NEW bytes \in Seq(Bytes), NEW o \in 0..Len(bytes),
         ~Lpp!IsError(Lpp!Reading(bytes, o))
  PROVE  /\ o + 2 <= Len(bytes)
         /\ ~Lpp!IsError(Size(bytes, o))
         /\ ~(o + 2 + Size(bytes, o).size > Len(bytes))
         /\ ~BadPrecision(bytes[o + 2], Data(bytes, o))
         /\ Lpp!Reading(bytes, o) =
              Result(bytes[o + 1], bytes[o + 2], Data(bytes, o), o + 2 + Size(bytes, o).size)
         /\ Lpp!Reading(bytes, o).end = o + 2 + Size(bytes, o).size
<1>1. ~(o + 2 > Len(bytes)) => o + 2 <= Len(bytes)
  OBVIOUS
<1>2. /\ ~(o + 2 > Len(bytes))
      /\ ~Lpp!IsError(Size(bytes, o))
      /\ ~(o + 2 + Size(bytes, o).size > Len(bytes))
      /\ ~BadPrecision(bytes[o + 2], Data(bytes, o))
  BY ReadingIs, Errors, Zenon
<1>3. Lpp!Reading(bytes, o) =
        Result(bytes[o + 1], bytes[o + 2], Data(bytes, o), o + 2 + Size(bytes, o).size)
  BY <1>2, ReadingIs, Zenon
<1>4. Lpp!Reading(bytes, o).end = o + 2 + Size(bytes, o).size
  BY <1>3, ResultFacts
<1>. QED
  BY <1>1, <1>2, <1>3, <1>4, Zenon

LEMMA SizeRange ==
  ASSUME NEW bytes \in Seq(Bytes), NEW o \in 0..Len(bytes),
         ~Lpp!IsError(Lpp!Reading(bytes, o))
  PROVE  Size(bytes, o).size \in 1..255
<1>1. o + 2 \in 0..Len(bytes)
  BY ReadingCases
<1>2. ~Lpp!IsError(Size(bytes, o))
  BY ReadingCases
<1>3. CASE /\ bytes[o + 3] \in 8..255
           /\ Size(bytes, o) = [size |-> bytes[o + 3]]
  BY <1>3, Ranges, Zenon
<1>4. CASE /\ bytes[o + 2] \in Types
           /\ Size(bytes, o) = [size |-> Lpp!DataSize(bytes[o + 2])]
  BY <1>4, Sizes, Ranges, Zenon
<1>. QED
  BY <1>1, <1>2, <1>3, <1>4, SizeCases, o + 2 + 1 = o + 3 DEF Size

LEMMA ReadingEnds ==
  ASSUME NEW bytes \in Seq(Bytes), NEW o \in 0..Len(bytes),
         ~Lpp!IsError(Lpp!Reading(bytes, o))
  PROVE  Lpp!Reading(bytes, o).end \in (o + 3)..Len(bytes)
<1>1. o \in Nat /\ Len(bytes) \in Nat
  OBVIOUS
<1>. QED
  BY <1>1, SizeRange, ReadingCases, Ranges, Zenon

LEMMA Window ==
  ASSUME NEW c \in Seq(Bytes), NEW m \in Nat, NEW n \in Nat,
         1 <= m, m <= n, n <= Len(c)
  PROVE  /\ SubSeq(c, m, n) \in Seq(Bytes)
         /\ Len(SubSeq(c, m, n)) = n - m + 1
         /\ \A i \in 1..(n - m + 1) : SubSeq(c, m, n)[i] = c[m + i - 1]
<1>1. \A i \in m..n : i \in 1..Len(c)
  OBVIOUS
<1>2. \A i \in m..n : c[i] \in Bytes
  BY <1>1, ElementOfSeq, Zenon
<1>3. m \in Int /\ n \in Int
  OBVIOUS
<1>4. /\ SubSeq(c, m, n) \in Seq(Bytes)
      /\ Len(SubSeq(c, m, n)) = IF m <= n THEN n - m + 1 ELSE 0
      /\ \A i \in 1..(n - m + 1) : SubSeq(c, m, n)[i] = c[m + i - 1]
  BY <1>2, <1>3, SubSeqProperties
<1>. QED
  BY <1>4, Zenon

\* The bytes of the reading behind o in a are those behind p in b.
Carries(a, o, b, p) ==
  \E s \in Nat : /\ Lpp!Reading(a, o).end = o + s
                 /\ p + s <= Len(b)
                 /\ \A i \in 1..s : a[o + i] = b[p + i]

SameReading(a, o, b, p) ==
  /\ ~Lpp!IsError(Lpp!Reading(b, p))
  /\ Lpp!Reading(b, p).name = Lpp!Reading(a, o).name
  /\ Lpp!Reading(b, p).value = Lpp!Reading(a, o).value
  /\ \E s \in Nat : Lpp!Reading(a, o).end = o + s /\ Lpp!Reading(b, p).end = p + s

\* A reading is the same in every payload that has its bytes, wherever it has them.
LEMMA ReadingMoves ==
  ASSUME NEW a \in Seq(Bytes), NEW o \in 0..Len(a), ~Lpp!IsError(Lpp!Reading(a, o)),
         NEW b \in Seq(Bytes), NEW p \in 0..Len(b), Carries(a, o, b, p)
  PROVE  SameReading(a, o, b, p)
<1>0. PICK s \in Nat : /\ Lpp!Reading(a, o).end = o + s
                       /\ p + s <= Len(b)
                       /\ \A i \in 1..s : a[o + i] = b[p + i]
  BY DEF Carries
<1>. DEFINE size == Size(a, o).size
            t == a[o + 2]
<1>1. size \in 1..255
  BY SizeRange
<1>2. /\ o + 2 <= Len(a) /\ ~Lpp!IsError(Size(a, o)) /\ ~BadPrecision(t, Data(a, o))
      /\ Lpp!Reading(a, o) = Result(a[o + 1], t, Data(a, o), o + 2 + size)
      /\ o + s = o + 2 + size
  BY <1>0, ReadingCases
<1>3. o \in Nat /\ p \in Nat /\ Len(a) \in Nat /\ Len(b) \in Nat
  OBVIOUS
<1>4. /\ s = size + 2 /\ p + 2 + size = p + s /\ 1 \in 1..s /\ 2 \in 1..s /\ 3 \in 1..s
      /\ p + 2 + 1 = p + 3 /\ o + 2 + 1 = o + 3 /\ p + 2 # Len(b) /\ ~(p + 2 > Len(b))
      /\ ~(p + 2 + size > Len(b)) /\ o + 2 \in 0..Len(a) /\ p + 2 \in 0..Len(b)
      /\ o + 2 + size <= Len(a)
  <2>1. o + 2 + size <= Len(a)
    <3>1. ~(o + 2 + size > Len(a))
      BY ReadingCases
    <3>. HIDE DEF size
    <3>. QED
      BY <1>1, <1>3, <3>1
  <2>. HIDE DEF size
  <2>. QED
    BY <1>0, <1>1, <1>2, <1>3, <2>1
<1>5. b[p + 1] = a[o + 1] /\ b[p + 2] = t /\ b[p + 3] = a[o + 3]
  BY <1>0, <1>4, Zenon
<1>6. Size(b, p) = Size(a, o)
  <2>1. CASE /\ t = Lpp!Polyline /\ a[o + 3] \in 8..255
             /\ Size(a, o) = [size |-> a[o + 3]]
    <3>1. ~(b[p + 3] < 8)
      BY <1>5, <2>1, \A x \in 8..255 : ~(x < 8)
    <3>. QED
      BY <1>4, <1>5, <2>1, <3>1, Zenon DEF Size, Lpp!SizeAt, Lpp!MinPolylineSize
  <2>2. CASE /\ t \in Types /\ t # Lpp!Polyline
             /\ Size(a, o) = [size |-> Lpp!DataSize(t)]
    <3>1. t \in Lpp!Supported
      BY <1>2, <2>2, Errors, Zenon DEF Size, Lpp!SizeAt
    <3>. QED
      BY <1>5, <2>2, <3>1, Zenon DEF Size, Lpp!SizeAt
  <2>. QED
    BY <1>2, <1>4, <2>1, <2>2, SizeCases, Zenon DEF Size
<1>7. Data(b, p) = Data(a, o)
  <2>. DEFINE m == o + 3
              n == o + 2 + size
              k == p + 3
              l == p + 2 + size
  <2>1. /\ m \in Nat /\ n \in Nat /\ 1 <= m /\ m <= n /\ n <= Len(a)
        /\ k \in Nat /\ l \in Nat /\ 1 <= k /\ l <= Len(b) /\ l - k = n - m
        /\ \A i \in 0..(n - m) : i + 3 \in 1..s /\ o + (i + 3) = m + i /\ p + (i + 3) = k + i
    <3>. HIDE DEF size
    <3>. QED
      BY <1>1, <1>3, <1>4
  <2>2. \A i \in 0..(n - m) : a[o + (i + 3)] = b[p + (i + 3)]
    BY <1>0, <2>1, Zenon
  <2>3. \A i \in 0..(n - m) : a[m + i] = b[k + i]
    <3>. HIDE DEF m, n, k, size
    <3>. QED
      BY <2>1, <2>2
  <2>4. SubSeq(a, m, n) = SubSeq(b, k, l)
    <3>. HIDE DEF m, n, k, l, size
    <3>1. k <= l /\ l - k + 1 = n - m + 1
      BY <2>1
    <3>2. /\ SubSeq(a, m, n) \in Seq(Bytes)
          /\ Len(SubSeq(a, m, n)) = n - m + 1
          /\ \A i \in 1..(n - m + 1) : SubSeq(a, m, n)[i] = a[m + i - 1]
      BY <2>1, Window, Zenon
    <3>3. /\ SubSeq(b, k, l) \in Seq(Bytes)
          /\ Len(SubSeq(b, k, l)) = l - k + 1
          /\ \A i \in 1..(l - k + 1) : SubSeq(b, k, l)[i] = b[k + i - 1]
      BY <2>1, <3>1, Window, Zenon
    <3>4. \A i \in 1..(n - m + 1) : /\ i - 1 \in 0..(n - m)
                                   /\ m + i - 1 = m + (i - 1) /\ k + i - 1 = k + (i - 1)
      BY <2>1
    <3>5. \A i \in 1..(n - m + 1) : SubSeq(a, m, n)[i] = SubSeq(b, k, l)[i]
      BY <2>3, <3>1, <3>2, <3>3, <3>4, Zenon
    <3>. QED
      BY <3>1, <3>2, <3>3, <3>5, SeqEqual
  <2>. QED
    BY <1>6, <2>4, Zenon DEF Data
<1>8. Lpp!Reading(b, p) = Result(a[o + 1], t, Data(a, o), p + s)
  BY <1>2, <1>4, <1>5, <1>6, <1>7, ReadingIs, Zenon
<1>9. /\ Lpp!Reading(b, p).name = <<Lpp!TypeName(t), a[o + 1]>>
      /\ Lpp!Reading(a, o).name = <<Lpp!TypeName(t), a[o + 1]>>
  BY <1>2, <1>8, ResultFacts
<1>10. Lpp!Reading(b, p).value = Lpp!Reading(a, o).value
  BY <1>2, <1>8, ResultFacts
<1>11. ~Lpp!IsError(Lpp!Reading(b, p)) /\ Lpp!Reading(b, p).end = p + s
  BY <1>8, ResultFacts
<1>. QED
  BY <1>0, <1>9, <1>10, <1>11, Zenon DEF SameReading

\* A turn of the loop looks at what is behind its reading only.
LEMMA TurnLooksAhead ==
  ASSUME NEW bytes \in Seq(Bytes), NEW o \in 0..Len(bytes), NEW f, NEW g,
         \A p \in (o + 1)..Len(bytes) : f[p] = g[p]
  PROVE  Turn(bytes, o, f) = Turn(bytes, o, g)
<1>1. CASE o = Len(bytes) \/ Lpp!IsError(Lpp!Reading(bytes, o))
  BY <1>1, Zenon DEF Turn
<1>2. CASE ~Lpp!IsError(Lpp!Reading(bytes, o))
  <2>1. Lpp!Reading(bytes, o).end \in (o + 3)..Len(bytes)
    BY <1>2, ReadingEnds
  <2>2. \A x \in (o + 3)..Len(bytes) : x \in (o + 1)..Len(bytes)
    OBVIOUS
  <2>3. f[Lpp!Reading(bytes, o).end] = g[Lpp!Reading(bytes, o).end]
    BY <2>1, <2>2, Zenon
  <2>. QED
    BY <2>3, Zenon DEF Turn
<1>. QED
  BY <1>1, <1>2

\* Decoding from the m-th byte on.
DecodesFrom(bytes, m, f) ==
  f = [o \in m..Len(bytes) |-> Turn(bytes, o, f)]

LEMMA DecodingExists ==
  ASSUME NEW bytes \in Seq(Bytes)
  PROVE  \E from : IsDecoding(bytes, from)
<1>. DEFINE n == Len(bytes)
            Done == {k \in 0..n : \E f : DecodesFrom(bytes, n - k, f)}
<1>0. n \in Nat
  OBVIOUS
<1>1. 0 \in Done
  <2>. DEFINE f == [o \in n..n |-> [readings |-> <<>>]]
  <2>1. f = [o \in n..n |-> Turn(bytes, o, f)]
    BY <1>0 DEF Turn
  <2>2. DecodesFrom(bytes, n - 0, f)
    BY <1>0, <2>1, n - 0 = n DEF DecodesFrom
  <2>. QED
    BY <1>0, <2>2
<1>2. PICK k \in Done : k >= 0 /\ k + 1 \notin Done
  <2>1. Done \in SUBSET (0..n)
    OBVIOUS
  <2>. HIDE DEF Done
  <2>. QED
    BY <1>0, <1>1, <2>1, LastOfRun
<1>3. PICK f : DecodesFrom(bytes, n - k, f)
  BY <1>2
<1>4. CASE k = n
  BY <1>0, <1>3, <1>4, n - n = 0 DEF DecodesFrom, IsDecoding
<1>5. CASE k # n
  <2>. DEFINE m == n - k - 1
              g == [o \in m..n |-> IF o = m THEN Turn(bytes, m, f) ELSE f[o]]
  <2>1. /\ k + 1 \in 0..n /\ n - (k + 1) = m /\ m \in 0..n /\ n - k = m + 1
        /\ \A o \in m..n : o = m \/ o \in (m + 1)..n
        /\ \A o \in m..n : o \in 0..n
        /\ \A o \in m..n : \A p \in (o + 1)..n : p \in m..n /\ p # m
    BY <1>0, <1>2, <1>5
  <2>2. ASSUME NEW o \in m..n PROVE g[o] = Turn(bytes, o, g)
    <3>1. \A p \in (o + 1)..n : g[p] = f[p]
      BY <2>1
    <3>2. Turn(bytes, o, g) = Turn(bytes, o, f)
      <4>. HIDE DEF g, m
      <4>. QED
        BY <2>1, <3>1, TurnLooksAhead
    <3>3. CASE o = m
      BY <3>2, <3>3
    <3>4. CASE o # m
      <4>1. o \in (m + 1)..n
        BY <2>1, <3>4, Zenon
      <4>2. f[o] = Turn(bytes, o, f)
        <5>1. f = [x \in (m + 1)..n |-> Turn(bytes, x, f)]
          BY <1>3, <2>1, Zenon DEF DecodesFrom
        <5>. HIDE DEF m, n
        <5>. QED
          BY <4>1, <5>1, Zenon
      <4>3. g[o] = f[o]
        BY <3>4
      <4>. QED
        BY <3>2, <4>2, <4>3, Zenon
    <3>. QED
      BY <3>3, <3>4
  <2>3. g = [o \in m..n |-> Turn(bytes, o, g)]
    BY <2>2
  <2>4. DecodesFrom(bytes, n - (k + 1), g)
    BY <2>1, <2>3, Zenon DEF DecodesFrom
  <2>5. k + 1 \in Done
    BY <2>1, <2>4
  <2>. QED
    BY <1>2, <2>5
<1>. QED
  BY <1>4, <1>5

LEMMA DecodeRuns ==
  ASSUME NEW bytes \in Seq(Bytes)
  PROVE  \E from :
           /\ IsDecoding(bytes, from)
           /\ Lpp!Decode(bytes) =
                IF Lpp!IsError(from[0]) THEN from[0]
                ELSE [object |-> Lpp!Object(from[0].readings)]
<1>. DEFINE from == CHOOSE f : IsDecoding(bytes, f)
<1>1. IsDecoding(bytes, from)
  BY DecodingExists
<1>2. Lpp!Decode(bytes) =
        IF Lpp!IsError(from[0]) THEN from[0]
        ELSE [object |-> Lpp!Object(from[0].readings)]
  BY Zenon DEF Lpp!Decode, IsDecoding, Turn
<1>. QED
  BY <1>1, <1>2

\* A payload is cut into readings at the bytes cut[0], cut[1], ..., cut[n].
Framed(bytes, n, cut) ==
  /\ cut \in [0..n -> 0..Len(bytes)]
  /\ cut[0] = 0
  /\ \A k \in 1..n :
       /\ cut[k - 1] # Len(bytes)
       /\ ~Lpp!IsError(Lpp!Reading(bytes, cut[k - 1]))
       /\ cut[k] = Lpp!Reading(bytes, cut[k - 1]).end

Readings(bytes, n, cut) == [k \in 1..n |-> Lpp!Reading(bytes, cut[k - 1])]

LEMMA ReadingsSequence ==
  ASSUME NEW bytes, NEW n \in Nat, NEW cut
  PROVE  /\ Readings(bytes, n, cut) \in Seq({Readings(bytes, n, cut)[k] : k \in 1..n})
         /\ Len(Readings(bytes, n, cut)) = n
<1>1. ASSUME NEW f, NEW S, f \in [1..n -> S]
      PROVE  f \in Seq(S) /\ Len(f) = n
  BY <1>1
<1>2. Readings(bytes, n, cut) \in [1..n -> {Readings(bytes, n, cut)[k] : k \in 1..n}]
  BY Zenon DEF Readings
<1>. QED
  BY <1>1, <1>2, Zenon

LEMMA Listed == \A x, r : x = [readings |-> r] => ~Lpp!IsError(x) /\ x.readings = r
BY DEF Lpp!IsError

LEMMA ReadingsFromLast ==
  ASSUME NEW bytes \in Seq(Bytes), NEW n \in Nat, NEW cut, Framed(bytes, n, cut),
         NEW from, IsDecoding(bytes, from)
  PROVE  /\ cut[n] = Len(bytes) => from[0] = [readings |-> Readings(bytes, n, cut)]
         /\ cut[n] # Len(bytes) /\ Lpp!IsError(Lpp!Reading(bytes, cut[n])) =>
              from[0] = Lpp!Reading(bytes, cut[n])
<1>. DEFINE all == Readings(bytes, n, cut)
            S == {all[k] : k \in 1..n}
            whole == cut[n] = Len(bytes)
            result(j) == IF whole THEN [readings |-> SubSeq(all, n - j + 1, n)]
                         ELSE Lpp!Reading(bytes, cut[n])
            B == {j \in 0..n : from[cut[n - j]] = result(j)}
<1>1. SUFFICES ASSUME whole \/ Lpp!IsError(Lpp!Reading(bytes, cut[n]))
               PROVE  n \in B
  <2>1. all \in Seq(S) /\ Len(all) = n
    BY ReadingsSequence, Zenon
  <2>2. SubSeq(all, 1, n) = all
    BY <2>1, SubSeqFull
  <2>3. n - n = 0 /\ n - n + 1 = 1
    OBVIOUS
  <2>. QED
    BY <2>2, <2>3, Zenon DEF Framed
<1>2. \A o \in 0..Len(bytes) : from[o] = Turn(bytes, o, from)
  BY Zenon DEF IsDecoding
<1>3. \A k \in 0..n : cut[k] \in 0..Len(bytes)
  BY DEF Framed
<1>4. 0 \in B
  <2>1. n \in 0..n /\ n - 0 = n /\ 0 \in 0..n
    OBVIOUS
  <2>2. SubSeq(all, n - 0 + 1, n) = <<>>
    BY SubSeqEmpty
  <2>3. from[cut[n]] = Turn(bytes, cut[n], from)
    BY <1>2, <1>3, <2>1, Zenon
  <2>4. from[cut[n - 0]] = result(0)
    BY <1>1, <2>1, <2>2, <2>3, Zenon DEF Turn
  <2>. QED
    BY <2>1, <2>4, Zenon
<1>5. PICK j \in B : j >= 0 /\ j + 1 \notin B
  <2>1. B \in SUBSET (0..n)
    OBVIOUS
  <2>. HIDE DEF B
  <2>. QED
    BY <1>4, <2>1, LastOfRun
<1>6. CASE j = n
  BY <1>6
<1>7. CASE j # n
  <2>. DEFINE k == n - j
  <2>1. /\ k \in 1..n /\ k - 1 \in 0..n /\ j + 1 \in 0..n /\ n - (j + 1) = k - 1
        /\ n - (j + 1) + 1 = k /\ n - j + 1 = k + 1
    BY <1>7
  <2>2. /\ cut[k - 1] # Len(bytes)
        /\ ~Lpp!IsError(Lpp!Reading(bytes, cut[k - 1]))
        /\ cut[k] = Lpp!Reading(bytes, cut[k - 1]).end
    BY <2>1, Zenon DEF Framed
  <2>3. from[cut[k - 1]] =
          IF Lpp!IsError(from[cut[k]]) THEN from[cut[k]]
          ELSE [readings |-> <<Lpp!Reading(bytes, cut[k - 1])>> \o from[cut[k]].readings]
    BY <1>2, <1>3, <2>1, <2>2, Zenon DEF Turn
  <2>4. from[cut[k]] = result(j)
    BY <1>5
  <2>5. CASE whole
    <3>1. from[cut[k]] = [readings |-> SubSeq(all, k + 1, n)]
      BY <2>1, <2>4, <2>5, Zenon
    <3>2. ~Lpp!IsError(from[cut[k]]) /\ from[cut[k]].readings = SubSeq(all, k + 1, n)
      BY <3>1, Listed, Zenon
    <3>3. SubSeq(all, k, n) = <<all[k]>> \o SubSeq(all, k + 1, n)
      <4>1. all \in Seq(S) /\ Len(all) = n
        BY ReadingsSequence, Zenon
      <4>2. k \in 1..Len(all) /\ n \in k..Len(all)
        BY <2>1, <4>1
      <4>. QED
        BY <4>1, <4>2, SubSeqRecursiveFirst
    <3>4. all[k] = Lpp!Reading(bytes, cut[k - 1])
      BY <2>1 DEF Readings
    <3>5. from[cut[k - 1]] = [readings |-> SubSeq(all, k, n)]
      BY <2>3, <3>2, <3>3, <3>4, Zenon
    <3>. QED
      BY <1>5, <2>1, <2>5, <3>5, Zenon
  <2>6. CASE ~whole
    <3>1. from[cut[k]] = Lpp!Reading(bytes, cut[n])
      BY <2>4, <2>6, Zenon
    <3>2. from[cut[k - 1]] = Lpp!Reading(bytes, cut[n])
      BY <1>1, <2>3, <2>6, <3>1, Zenon
    <3>. QED
      BY <1>5, <2>1, <2>6, <3>2, Zenon
  <2>. QED
    BY <2>5, <2>6
<1>. QED
  BY <1>6, <1>7

\* Every payload has its cuts.
LEMMA FramesExist ==
  ASSUME NEW bytes \in Seq(Bytes)
  PROVE  \E n \in Nat : \E cut :
           /\ Framed(bytes, n, cut)
           /\ cut[n] = Len(bytes) \/ Lpp!IsError(Lpp!Reading(bytes, cut[n]))
<1>. DEFINE B == {n \in 0..Len(bytes) : \E cut : Framed(bytes, n, cut) /\ cut[n] >= n}
<1>0. Len(bytes) \in Nat
  OBVIOUS
<1>1. 0 \in B
  <2>1. Framed(bytes, 0, [k \in 0..0 |-> 0])
    BY <1>0 DEF Framed
  <2>. QED
    BY <1>0, <2>1
<1>2. PICK n \in B : n >= 0 /\ n + 1 \notin B
  <2>1. B \in SUBSET (0..Len(bytes))
    OBVIOUS
  <2>. HIDE DEF B
  <2>. QED
    BY <1>0, <1>1, <2>1, LastOfRun
<1>3. PICK cut : Framed(bytes, n, cut) /\ cut[n] >= n
  BY <1>2
<1>4. n \in Nat /\ n \in 0..n
  BY <1>2
<1>5. ASSUME cut[n] # Len(bytes), ~Lpp!IsError(Lpp!Reading(bytes, cut[n]))
      PROVE  FALSE
  <2>. DEFINE e == Lpp!Reading(bytes, cut[n]).end
              next == [k \in 0..(n + 1) |-> IF k = n + 1 THEN e ELSE cut[k]]
  <2>1. cut[n] \in 0..Len(bytes) /\ cut[0] = 0
    BY <1>3, <1>4, Zenon DEF Framed
  <2>2. e \in (cut[n] + 3)..Len(bytes)
    BY <1>5, <2>1, ReadingEnds
  <2>3. /\ e \in 0..Len(bytes) /\ e >= n + 1 /\ n + 1 \in 0..Len(bytes)
        /\ \A k \in 0..(n + 1) : k = n + 1 \/ k \in 0..n
        /\ \A k \in 1..(n + 1) : k - 1 \in 0..n /\ k - 1 \in 0..(n + 1) /\ k - 1 # n + 1
        /\ \A k \in 1..(n + 1) : k = n + 1 \/ (k \in 1..n /\ k # n + 1)
        /\ \A k \in 1..(n + 1) : k \in 0..(n + 1)
        /\ 0 \in 0..(n + 1) /\ 0 # n + 1 /\ n + 1 - 1 = n /\ n + 1 \in 0..(n + 1)
    <3>. HIDE DEF e
    <3>. QED
      BY <1>0, <1>3, <1>4, <2>1, <2>2
  <2>4. next \in [0..(n + 1) -> 0..Len(bytes)] /\ next[0] = 0
    BY <1>3, <2>1, <2>3, Zenon DEF Framed
  <2>5. ASSUME NEW k \in 1..(n + 1)
        PROVE  /\ next[k - 1] # Len(bytes)
               /\ ~Lpp!IsError(Lpp!Reading(bytes, next[k - 1]))
               /\ next[k] = Lpp!Reading(bytes, next[k - 1]).end
    <3>1. next[k - 1] = cut[k - 1]
      BY <2>3, Zenon
    <3>2. CASE k = n + 1
      <4>1. k - 1 = n
        BY <1>4, <3>2
      <4>2. next[k] = e
        BY <2>3, <3>2, Zenon
      <4>. QED
        BY <1>5, <3>1, <4>1, <4>2, Zenon
    <3>3. CASE k \in 1..n /\ k # n + 1
      <4>1. next[k] = cut[k]
        BY <2>3, <3>3, Zenon
      <4>. QED
        BY <1>3, <3>1, <3>3, <4>1, Zenon DEF Framed
    <3>. QED
      BY <2>3, <3>2, <3>3, Zenon
  <2>6. Framed(bytes, n + 1, next)
    BY <2>4, <2>5, Zenon DEF Framed
  <2>7. next[n + 1] = e
    BY <2>3, Zenon
  <2>8. n + 1 \in B
    BY <2>3, <2>6, <2>7, Zenon
  <2>. QED
    BY <1>2, <2>8
<1>. QED
  BY <1>3, <1>4, <1>5, Zenon

\* CayenneLppDecoder::decode, for a payload of any length: cut into readings up
\* to its end, it is decoded to the object of these readings; cut until a reading
\* fails, to that reading's error, and what came before is lost.  There is always
\* such a cutting, so decode returns one or the other for whatever bytes arrive.
THEOREM PayloadsAreFramed ==
  ASSUME NEW bytes \in Seq(Bytes)
  PROVE  /\ \A n \in Nat : \A cut :
              Framed(bytes, n, cut) =>
                /\ cut[n] = Len(bytes) =>
                     Lpp!Decode(bytes) = [object |-> Lpp!Object(Readings(bytes, n, cut))]
                /\ cut[n] # Len(bytes) /\ Lpp!IsError(Lpp!Reading(bytes, cut[n])) =>
                     Lpp!Decode(bytes) = Lpp!Reading(bytes, cut[n])
         /\ \E n \in Nat : \E cut :
              /\ Framed(bytes, n, cut)
              /\ cut[n] = Len(bytes) \/ Lpp!IsError(Lpp!Reading(bytes, cut[n]))
<1>1. PICK from : /\ IsDecoding(bytes, from)
                  /\ Lpp!Decode(bytes) =
                       IF Lpp!IsError(from[0]) THEN from[0]
                       ELSE [object |-> Lpp!Object(from[0].readings)]
  BY DecodeRuns
<1>2. ASSUME NEW n \in Nat, NEW cut, Framed(bytes, n, cut), cut[n] = Len(bytes)
      PROVE  Lpp!Decode(bytes) = [object |-> Lpp!Object(Readings(bytes, n, cut))]
  <2>1. from[0] = [readings |-> Readings(bytes, n, cut)]
    BY <1>1, <1>2, ReadingsFromLast
  <2>2. ~Lpp!IsError(from[0]) /\ from[0].readings = Readings(bytes, n, cut)
    BY <2>1, Listed, Zenon
  <2>. QED
    BY <1>1, <2>2, Zenon
<1>3. ASSUME NEW n \in Nat, NEW cut, Framed(bytes, n, cut), cut[n] # Len(bytes),
             Lpp!IsError(Lpp!Reading(bytes, cut[n]))
      PROVE  Lpp!Decode(bytes) = Lpp!Reading(bytes, cut[n])
  BY <1>1, <1>3, ReadingsFromLast
<1>. QED
  BY <1>2, <1>3, FramesExist, Zenon

\* What a payload begins with, cut off after m bytes.
LEMMA Beginning ==
  ASSUME NEW bytes \in Seq(Bytes), NEW m \in 0..Len(bytes)
  PROVE  /\ SubSeq(bytes, 1, m) \in Seq(Bytes)
         /\ Len(SubSeq(bytes, 1, m)) = m
         /\ \A i \in 1..m : SubSeq(bytes, 1, m)[i] = bytes[i]
<1>1. m \in Nat /\ Len(bytes) \in Nat
  OBVIOUS
<1>2. \A i \in 1..m : bytes[i] \in Bytes
  <2>1. \A i \in 1..m : i \in 1..Len(bytes)
    OBVIOUS
  <2>. QED
    BY <2>1, ElementOfSeq, Zenon
<1>3. 1 \in Int /\ m \in Int /\ m - 1 + 1 = m /\ (IF 1 <= m THEN m - 1 + 1 ELSE 0) = m
      /\ \A i \in 1..m : 1 + i - 1 = i
  BY <1>1
<1>4. /\ SubSeq(bytes, 1, m) \in Seq(Bytes)
      /\ Len(SubSeq(bytes, 1, m)) = IF 1 <= m THEN m - 1 + 1 ELSE 0
      /\ \A i \in 1..(m - 1 + 1) : SubSeq(bytes, 1, m)[i] = bytes[1 + i - 1]
  BY <1>2, <1>3, SubSeqProperties
<1>. QED
  BY <1>3, <1>4, Zenon

\* A reading that is there whole is read, and one that is not is refused.
LEMMA ReadingOfBeginning ==
  ASSUME NEW bytes \in Seq(Bytes), NEW m \in 0..Len(bytes), NEW o \in 0..m,
         ~Lpp!IsError(Lpp!Reading(bytes, o)), NEW pre, pre = SubSeq(bytes, 1, m)
  PROVE  /\ Lpp!Reading(bytes, o).end <= m =>
              /\ ~Lpp!IsError(Lpp!Reading(pre, o))
              /\ Lpp!Reading(pre, o).end = Lpp!Reading(bytes, o).end
              /\ Lpp!Reading(pre, o).name = Lpp!Reading(bytes, o).name
              /\ Lpp!Reading(pre, o).value = Lpp!Reading(bytes, o).value
         /\ Lpp!Reading(bytes, o).end > m => Lpp!IsError(Lpp!Reading(pre, o))
<1>1. /\ pre \in Seq(Bytes) /\ Len(pre) = m
      /\ \A i \in 1..m : pre[i] = bytes[i]
  BY Beginning
<1>2. m \in Nat /\ o \in Nat /\ Len(bytes) \in Nat /\ m <= Len(bytes)
      /\ o \in 0..Len(bytes) /\ o \in 0..Len(pre)
  BY <1>1
<1>3. ASSUME Lpp!Reading(bytes, o).end <= m
      PROVE  /\ ~Lpp!IsError(Lpp!Reading(pre, o))
             /\ Lpp!Reading(pre, o).end = Lpp!Reading(bytes, o).end
             /\ Lpp!Reading(pre, o).name = Lpp!Reading(bytes, o).name
             /\ Lpp!Reading(pre, o).value = Lpp!Reading(bytes, o).value
  <2>. DEFINE e == Lpp!Reading(bytes, o).end
              s == e - o
  <2>1. e \in (o + 3)..Len(bytes)
    BY <1>2, ReadingEnds
  <2>2. /\ s \in Nat /\ e = o + s /\ o + s <= Len(pre)
        /\ \A i \in 1..s : o + i \in 1..m
    <3>. HIDE DEF e
    <3>1. e <= m
      BY <1>3 DEF e
    <3>. QED
      BY <1>1, <1>2, <2>1, <3>1
  <2>3. \A i \in 1..s : bytes[o + i] = pre[o + i]
    BY <1>1, <2>2, Zenon
  <2>4. Carries(bytes, o, pre, o)
    BY <2>2, <2>3, Zenon DEF Carries
  <2>5. SameReading(bytes, o, pre, o)
    BY <1>1, <1>2, <2>4, ReadingMoves, Zenon
  <2>. QED
    BY <2>5, Zenon DEF SameReading
<1>4. ASSUME Lpp!Reading(bytes, o).end > m, ~Lpp!IsError(Lpp!Reading(pre, o))
      PROVE  FALSE
  <2>. DEFINE e == Lpp!Reading(pre, o).end
              s == e - o
  <2>1. e \in (o + 3)..m
    BY <1>1, <1>2, <1>4, ReadingEnds
  <2>2. /\ s \in Nat /\ e = o + s /\ o + s <= Len(bytes)
        /\ \A i \in 1..s : o + i \in 1..m
    <3>. HIDE DEF e
    <3>. QED
      BY <1>1, <1>2, <2>1
  <2>3. \A i \in 1..s : pre[o + i] = bytes[o + i]
    BY <1>1, <2>2, Zenon
  <2>4. Carries(pre, o, bytes, o)
    BY <2>2, <2>3, Zenon DEF Carries
  <2>5. SameReading(pre, o, bytes, o)
    BY <1>1, <1>2, <1>4, <2>4, ReadingMoves, Zenon
  <2>6. Lpp!Reading(bytes, o).end \in (o + 3)..m
    BY <2>1, <2>5, Zenon DEF SameReading
  <2>. QED
    BY <1>2, <1>4, <2>6
<1>. QED
  BY <1>3, <1>4

\* What was decoded is an object that has the values of these readings: a value for
\* each name and, of two readings with one name, that of the later one.
Reports(decoded, n, rs) ==
  \E object :
    /\ decoded = [object |-> object]
    /\ DOMAIN object = {rs[i].name : i \in 1..n}
    /\ \A i \in 1..n :
         (\A j \in (i + 1)..n : rs[j].name # rs[i].name) =>
           object[rs[i].name] = rs[i].value

LEMMA ObjectOfReadings ==
  ASSUME NEW rs, NEW i \in 1..Len(rs), Len(rs) \in Nat,
         \A j \in (i + 1)..Len(rs) : rs[j].name # rs[i].name
  PROVE  Lpp!Object(rs)[rs[i].name] = rs[i].value
<1>. DEFINE n == Len(rs)
            Last(name) == CHOOSE k \in 1..n : /\ rs[k].name = name
                                             /\ \A j \in (k + 1)..n : rs[j].name # name
            k == Last(rs[i].name)
<1>1. Lpp!Object(rs) = [name \in {rs[x].name : x \in 1..n} |-> rs[Last(name)].value]
  BY DEF Lpp!Object
<1>2. k \in 1..n /\ rs[k].name = rs[i].name /\ \A j \in (k + 1)..n : rs[j].name # rs[i].name
  BY Zenon
<1>. HIDE DEF k
<1>3. k \in (i + 1)..n \/ i \in (k + 1)..n \/ i = k
  BY <1>2
<1>4. i = k
  BY <1>2, <1>3, Zenon
<1>. QED
  BY <1>1, <1>4, Zenon DEF k

LEMMA ObjectReports ==
  ASSUME NEW n \in Nat, NEW rs, Len(rs) = n
  PROVE  Reports([object |-> Lpp!Object(rs)], n, rs)
<1>1. DOMAIN Lpp!Object(rs) = {rs[i].name : i \in 1..n}
  BY DEF Lpp!Object
<1>2. ASSUME NEW i \in 1..n, \A j \in (i + 1)..n : rs[j].name # rs[i].name
      PROVE  Lpp!Object(rs)[rs[i].name] = rs[i].value
  BY <1>2, ObjectOfReadings, Zenon
<1>. QED
  BY <1>1, <1>2, Zenon DEF Reports

\* Only the names and the values count.
LEMMA SameReports ==
  ASSUME NEW decoded, NEW n \in Nat, NEW rs, NEW qs, Reports(decoded, n, rs),
         \A i \in 1..n : rs[i].name = qs[i].name /\ rs[i].value = qs[i].value
  PROVE  Reports(decoded, n, qs)
<1>1. PICK object : /\ decoded = [object |-> object]
                    /\ DOMAIN object = {rs[i].name : i \in 1..n}
                    /\ \A i \in 1..n :
                         (\A j \in (i + 1)..n : rs[j].name # rs[i].name) =>
                           object[rs[i].name] = rs[i].value
  BY Zenon DEF Reports
<1>2. {rs[i].name : i \in 1..n} = {qs[i].name : i \in 1..n}
  BY Zenon
<1>3. ASSUME NEW i \in 1..n, \A j \in (i + 1)..n : qs[j].name # qs[i].name
      PROVE  object[qs[i].name] = qs[i].value
  <2>1. \A j \in (i + 1)..n : j \in 1..n
    OBVIOUS
  <2>2. \A j \in (i + 1)..n : rs[j].name # rs[i].name
    BY <1>3, <2>1, Zenon
  <2>3. object[rs[i].name] = rs[i].value
    BY <1>1, <2>2, Zenon
  <2>. QED
    BY <2>3, Zenon
<1>. QED
  BY <1>1, <1>2, <1>3, Zenon DEF Reports

\* Each cut is behind the one before it.
LEMMA Increasing ==
  ASSUME NEW bytes \in Seq(Bytes), NEW n \in Nat, NEW cut, Framed(bytes, n, cut),
         NEW i \in 0..n, NEW j \in (i + 1)..n
  PROVE  cut[i] < cut[j]
<1>. DEFINE B == {x \in 0..n : x >= i /\ \A y \in (i + 1)..x : cut[i] < cut[y]}
<1>1. \A x \in 0..n : cut[x] \in Nat
  BY DEF Framed
<1>2. \A x \in 1..n : cut[x - 1] < cut[x]
  <2>1. ASSUME NEW x \in 1..n PROVE cut[x - 1] < cut[x]
    <3>1. cut[x - 1] \in 0..Len(bytes) /\ cut[x - 1] \in Nat
      BY DEF Framed
    <3>2. ~Lpp!IsError(Lpp!Reading(bytes, cut[x - 1]))
          /\ cut[x] = Lpp!Reading(bytes, cut[x - 1]).end
      BY Zenon DEF Framed
    <3>3. cut[x] \in (cut[x - 1] + 3)..Len(bytes)
      BY <3>1, <3>2, ReadingEnds, Zenon
    <3>. QED
      BY <3>1, <3>3, \A p \in Nat, q \in Nat : \A r \in (p + 3)..q : p < r
  <2>. QED
    BY <2>1
<1>3. PICK x \in B : x >= i /\ x + 1 \notin B
  <2>1. i \in B /\ B \in SUBSET (0..n)
    OBVIOUS
  <2>. HIDE DEF B
  <2>. QED
    BY <2>1, LastOfRun
<1>4. CASE x = n
  BY <1>3, <1>4
<1>5. CASE x # n
  <2>1. x + 1 \in 1..n /\ x + 1 - 1 = x /\ x \in 0..n /\ x + 1 \in 0..n
    BY <1>3, <1>5
  <2>2. cut[x] < cut[x + 1]
    <3>1. PICK y \in 1..n : y = x + 1 /\ y - 1 = x
      BY <2>1
    <3>. QED
      BY <1>2, <3>1, Zenon
  <2>3. x = i \/ x \in (i + 1)..x
    BY <1>3
  <2>4. cut[i] <= cut[x]
    BY <1>1, <1>3, <2>1, <2>3
  <2>5. cut[i] < cut[x + 1]
    BY <1>1, <2>1, <2>2, <2>4
  <2>. QED
    BY <1>3, <2>1, <2>5
<1>. QED
  BY <1>4, <1>5

\* The first k readings of a and b say the same.
SameReadings(a, b, k, cut) ==
  \A j \in 1..k :
    /\ Lpp!Reading(a, cut[j - 1]).name = Lpp!Reading(b, cut[j - 1]).name
    /\ Lpp!Reading(a, cut[j - 1]).value = Lpp!Reading(b, cut[j - 1]).value

\* A payload that is cut off keeps its cuts, up to there.
LEMMA BeginningFramed ==
  ASSUME NEW bytes \in Seq(Bytes), NEW n \in Nat, NEW cut, Framed(bytes, n, cut),
         NEW k \in 0..n, NEW m \in 0..Len(bytes), cut[k] <= m,
         NEW pre, pre = SubSeq(bytes, 1, m)
  PROVE  /\ Framed(pre, k, [j \in 0..k |-> cut[j]])
         /\ SameReadings(pre, bytes, k, cut)
<1>. DEFINE cuts == [j \in 0..k |-> cut[j]]
<1>1. Len(pre) = m
  BY Beginning
<1>2. /\ k \in Nat /\ \A j \in 0..k : j \in 0..n /\ (j = k \/ k \in (j + 1)..n)
      /\ \A j \in 1..k : j \in 1..n /\ j - 1 \in 0..n /\ j - 1 \in 0..k /\ j \in 0..k
                         /\ j \in (j - 1 + 1)..n
      /\ 0 \in 0..k
  OBVIOUS
<1>3. \A j \in 0..n : cut[j] \in 0..Len(bytes) /\ cut[j] \in Nat
  BY DEF Framed
<1>4. m \in Nat
  OBVIOUS
<1>5. \A j \in 0..k : cut[j] <= m
  <2>1. ASSUME NEW j \in 0..k PROVE cut[j] = cut[k] \/ cut[j] < cut[k]
    BY <1>2, Increasing, Zenon
  <2>2. m \in Nat /\ \A p \in Nat, q \in Nat : p < q /\ q <= m => p <= m
    OBVIOUS
  <2>3. k \in 0..n
    OBVIOUS
  <2>. QED
    BY <1>2, <1>3, <2>1, <2>2, <2>3, Zenon
<1>6. ASSUME NEW j \in 1..k
      PROVE  /\ cut[j - 1] # m
             /\ ~Lpp!IsError(Lpp!Reading(pre, cut[j - 1]))
             /\ cut[j] = Lpp!Reading(pre, cut[j - 1]).end
             /\ Lpp!Reading(pre, cut[j - 1]).name = Lpp!Reading(bytes, cut[j - 1]).name
             /\ Lpp!Reading(pre, cut[j - 1]).value = Lpp!Reading(bytes, cut[j - 1]).value
  <2>. DEFINE o == cut[j - 1]
  <2>1. ~Lpp!IsError(Lpp!Reading(bytes, o)) /\ cut[j] = Lpp!Reading(bytes, o).end
    BY <1>2, Zenon DEF Framed
  <2>2. o < cut[j] /\ cut[j] <= m
    BY <1>2, <1>5, Increasing, Zenon
  <2>3. o # m /\ o \in 0..m
    <3>1. o \in Nat /\ cut[j] \in Nat /\ m \in Nat
      BY <1>2, <1>3, <1>4, Zenon
    <3>. HIDE DEF o
    <3>. QED
      BY <2>2, <3>1
  <2>4. Lpp!Reading(bytes, o).end <= m
    BY <2>1, <2>2, Zenon
  <2>. HIDE DEF o
  <2>5. /\ ~Lpp!IsError(Lpp!Reading(pre, o))
        /\ Lpp!Reading(pre, o).end = Lpp!Reading(bytes, o).end
        /\ Lpp!Reading(pre, o).name = Lpp!Reading(bytes, o).name
        /\ Lpp!Reading(pre, o).value = Lpp!Reading(bytes, o).value
    BY <2>1, <2>3, <2>4, ReadingOfBeginning, Zenon
  <2>. QED
    BY <2>1, <2>3, <2>5, Zenon DEF o
<1>7. cuts \in [0..k -> 0..Len(pre)] /\ cuts[0] = 0
  <2>1. \A j \in 0..k : cut[j] \in 0..m
    BY <1>2, <1>3, <1>5
  <2>. QED
    BY <1>1, <1>2, <2>1, Zenon DEF Framed
<1>8. \A j \in 1..k : cuts[j] = cut[j] /\ cuts[j - 1] = cut[j - 1]
  BY <1>2, Zenon
<1>9. Framed(pre, k, cuts)
  <2>. HIDE DEF cuts
  <2>. QED
    BY <1>1, <1>6, <1>7, <1>8, Zenon DEF Framed
<1>. QED
  BY <1>6, <1>9, Zenon DEF SameReadings

\* The `remaining` checks of decode, for a payload that lost its end: cut off
\* between two readings it decodes to what it begins with; cut off anywhere else
\* it is refused as a whole, and never decoded to a reading with missing bytes.
THEOREM CutOffIsRefused ==
  ASSUME NEW bytes \in Seq(Bytes), NEW n \in Nat, NEW cut, Framed(bytes, n, cut),
         cut[n] = Len(bytes), NEW m \in 0..Len(bytes)
  PROVE  /\ \A k \in 0..n : m = cut[k] =>
              Reports(Lpp!Decode(SubSeq(bytes, 1, m)), k, Readings(bytes, k, cut))
         /\ (\A k \in 0..n : m # cut[k]) => Lpp!IsError(Lpp!Decode(SubSeq(bytes, 1, m)))
<1>. DEFINE pre == SubSeq(bytes, 1, m)
<1>1. pre \in Seq(Bytes) /\ Len(pre) = m
  BY Beginning
<1>. HIDE DEF pre
<1>2. m \in Nat /\ Len(bytes) \in Nat /\ m <= Len(bytes) /\ m <= m
  OBVIOUS
<1>3. ASSUME NEW k \in 0..n, m = cut[k]
      PROVE  Reports(Lpp!Decode(pre), k, Readings(bytes, k, cut))
  <2>. DEFINE cuts == [j \in 0..k |-> cut[j]]
  <2>1. k \in Nat /\ k \in 0..k /\ \A j \in 1..k : j - 1 \in 0..k
    OBVIOUS
  <2>2. Framed(pre, k, cuts) /\ SameReadings(pre, bytes, k, cut)
    <3>1. cut[k] <= m
      BY <1>2, <1>3, Zenon
    <3>. QED
      BY <3>1, BeginningFramed, Zenon DEF pre
  <2>3. Lpp!Decode(pre) = [object |-> Lpp!Object(Readings(pre, k, cuts))]
    <3>1. cuts[k] = Len(pre)
      BY <1>1, <1>3, <2>1, Zenon
    <3>. HIDE DEF cuts
    <3>. QED
      BY <1>1, <2>1, <2>2, <3>1, PayloadsAreFramed, Zenon
  <2>4. Reports(Lpp!Decode(pre), k, Readings(pre, k, cuts))
    BY <2>1, <2>3, ReadingsSequence, ObjectReports, Zenon
  <2>5. \A j \in 1..k : Readings(pre, k, cuts)[j].name = Readings(bytes, k, cut)[j].name
                        /\ Readings(pre, k, cuts)[j].value = Readings(bytes, k, cut)[j].value
    <3>1. \A j \in 1..k : /\ Readings(pre, k, cuts)[j] = Lpp!Reading(pre, cut[j - 1])
                          /\ Readings(bytes, k, cut)[j] = Lpp!Reading(bytes, cut[j - 1])
      BY <2>1, Zenon DEF Readings
    <3>. HIDE DEF cuts
    <3>. QED
      BY <2>2, <3>1, Zenon DEF SameReadings
  <2>. HIDE DEF cuts
  <2>. QED
    BY <2>1, <2>4, <2>5, SameReports, Zenon
<1>4. ASSUME \A k \in 0..n : m # cut[k]
      PROVE  Lpp!IsError(Lpp!Decode(pre))
  <2>. DEFINE B == {k \in 0..n : cut[k] <= m}
  <2>1. \A k \in 0..n : cut[k] \in 0..Len(bytes) /\ cut[k] \in Nat
    BY DEF Framed
  <2>2. PICK k \in B : k >= 0 /\ k + 1 \notin B
    <3>1. 0 \in 0..n /\ cut[0] = 0 /\ 0 <= m
      BY <1>2 DEF Framed
    <3>2. 0 \in B /\ B \in SUBSET (0..n)
      BY <3>1
    <3>. HIDE DEF B
    <3>. QED
      BY <3>2, LastOfRun
  <2>3. k \in 0..n /\ k \in Nat /\ n \in 0..n /\ cut[k] <= m /\ m # cut[k] /\ k \in 0..k
    BY <1>4, <2>2
  <2>4. k # n
    BY <1>2, <1>4, <2>1, <2>3
  <2>5. k + 1 \in 1..n /\ k + 1 \in 0..n /\ k + 1 - 1 = k
    BY <2>3, <2>4
  <2>6. cut[k + 1] > m
    BY <1>2, <2>1, <2>2, <2>5
  <2>. DEFINE o == cut[k]
              cuts == [j \in 0..k |-> cut[j]]
  <2>7. ~Lpp!IsError(Lpp!Reading(bytes, o)) /\ Lpp!Reading(bytes, o).end > m
    <3>1. PICK x \in 1..n : x = k + 1 /\ x - 1 = k
      BY <2>5
    <3>2. ~Lpp!IsError(Lpp!Reading(bytes, cut[x - 1]))
          /\ cut[x] = Lpp!Reading(bytes, cut[x - 1]).end
      BY Zenon DEF Framed
    <3>. QED
      BY <2>6, <3>1, <3>2, Zenon
  <2>8. o \in 0..m
    BY <1>2, <2>1, <2>3
  <2>9. Lpp!IsError(Lpp!Reading(pre, o))
    <3>. HIDE DEF o
    <3>. QED
      BY <2>7, <2>8, ReadingOfBeginning, Zenon DEF pre
  <2>10. Framed(pre, k, cuts)
    BY <2>3, BeginningFramed, Zenon DEF pre
  <2>11. cuts[k] = o
    BY <2>3, Zenon
  <2>12. o # Len(pre)
    BY <1>1, <2>3, Zenon
  <2>13. Lpp!Decode(pre) = Lpp!Reading(pre, o)
    <3>. HIDE DEF cuts, o
    <3>. QED
      BY <1>1, <2>3, <2>9, <2>10, <2>11, <2>12, PayloadsAreFramed, Zenon
  <2>. QED
    BY <2>9, <2>13, Zenon
<1>. QED
  BY <1>3, <1>4, Zenon DEF pre

\* One reading, and nothing else.
IsWhole(r) == ~Lpp!IsError(Lpp!Reading(r, 0)) /\ Lpp!Reading(r, 0).end = Len(r)

\* A payload that is n readings, one after another.
Joined(bytes, n, piece, cut) ==
  /\ piece \in [1..n -> Seq(Bytes)]
  /\ cut \in [0..n -> 0..Len(bytes)]
  /\ cut[0] = 0 /\ cut[n] = Len(bytes)
  /\ \A k \in 1..n :
       /\ IsWhole(piece[k])
       /\ cut[k] = cut[k - 1] + Len(piece[k])
       /\ \A i \in 1..Len(piece[k]) : piece[k][i] = bytes[cut[k - 1] + i]

\* decode advances by exactly what a reading takes, for any number of readings of
\* any types: readings put one after another decode to an object that has the value
\* each has alone, and of a channel and type that come twice the later value.
THEOREM EveryReadingCounts ==
  ASSUME NEW bytes \in Seq(Bytes), NEW n \in Nat, NEW piece, NEW cut,
         Joined(bytes, n, piece, cut)
  PROVE  /\ Framed(bytes, n, cut)
         /\ Reports(Lpp!Decode(bytes), n, [k \in 1..n |-> Lpp!Reading(piece[k], 0)])
<1>1. cut \in [0..n -> 0..Len(bytes)] /\ cut[0] = 0 /\ cut[n] = Len(bytes)
  BY Zenon DEF Joined
<1>2. ASSUME NEW k \in 1..n
      PROVE  /\ cut[k - 1] # Len(bytes)
             /\ ~Lpp!IsError(Lpp!Reading(bytes, cut[k - 1]))
             /\ cut[k] = Lpp!Reading(bytes, cut[k - 1]).end
             /\ Lpp!Reading(bytes, cut[k - 1]).name = Lpp!Reading(piece[k], 0).name
             /\ Lpp!Reading(bytes, cut[k - 1]).value = Lpp!Reading(piece[k], 0).value
  <2>1. PICK r \in Seq(Bytes) : r = piece[k]
    BY Zenon DEF Joined
  <2>2. PICK p \in 0..Len(bytes) : p = cut[k - 1]
    <3>1. k - 1 \in 0..n
      OBVIOUS
    <3>. QED
      BY <1>1, <3>1, Zenon
  <2>3. PICK e \in 0..Len(bytes) : e = cut[k]
    <3>1. k \in 0..n
      OBVIOUS
    <3>. QED
      BY <1>1, <3>1, Zenon
  <2>4. /\ ~Lpp!IsError(Lpp!Reading(r, 0)) /\ Lpp!Reading(r, 0).end = Len(r)
        /\ e = p + Len(r)
        /\ \A i \in 1..Len(r) : r[i] = bytes[p + i]
    BY <2>1, <2>2, <2>3, Zenon DEF Joined, IsWhole
  <2>5. Len(r) \in Nat /\ 0 \in 0..Len(r) /\ p \in Nat /\ e \in Nat /\ Len(bytes) \in Nat
        /\ Len(r) = 0 + Len(r) /\ \A i \in 1..Len(r) : 0 + i = i
    OBVIOUS
  <2>6. Lpp!Reading(r, 0).end \in 3..Len(r)
    <3>1. Lpp!Reading(r, 0).end \in (0 + 3)..Len(r)
      BY <2>4, <2>5, ReadingEnds, Zenon
    <3>. QED
      BY <3>1, 0 + 3 = 3
  <2>7. p # Len(bytes) /\ p + Len(r) <= Len(bytes)
    BY <2>3, <2>4, <2>5, <2>6
  <2>8. Carries(r, 0, bytes, p)
    <3>1. \A i \in 1..Len(r) : r[0 + i] = bytes[p + i]
      BY <2>4, <2>5, Zenon
    <3>2. Lpp!Reading(r, 0).end = 0 + Len(r)
      BY <2>4, <2>5, Zenon
    <3>. QED
      BY <2>5, <2>7, <3>1, <3>2, Zenon DEF Carries
  <2>9. SameReading(r, 0, bytes, p)
    BY <2>4, <2>5, <2>8, ReadingMoves, Zenon
  <2>10. PICK s \in Nat : Lpp!Reading(r, 0).end = 0 + s /\ Lpp!Reading(bytes, p).end = p + s
    BY <2>9, Zenon DEF SameReading
  <2>11. s = Len(r)
    <3>1. \A x \in Nat, y \in Nat : 0 + x = y => x = y
      OBVIOUS
    <3>2. 0 + s = Len(r) /\ s \in Nat
      BY <2>4, <2>10, Zenon
    <3>. QED
      BY <2>5, <3>1, <3>2, Zenon
  <2>12. Lpp!Reading(bytes, p).end = e
    BY <2>4, <2>10, <2>11, Zenon
  <2>. QED
    BY <2>1, <2>2, <2>3, <2>7, <2>9, <2>12, Zenon DEF SameReading
<1>3. Framed(bytes, n, cut)
  BY <1>1, <1>2, Zenon DEF Framed
<1>. DEFINE rs == Readings(bytes, n, cut)
            qs == [k \in 1..n |-> Lpp!Reading(piece[k], 0)]
<1>4. Reports(Lpp!Decode(bytes), n, rs)
  <2>1. Lpp!Decode(bytes) = [object |-> Lpp!Object(rs)]
    BY <1>1, <1>3, PayloadsAreFramed, Zenon
  <2>. QED
    BY <2>1, ReadingsSequence, ObjectReports, Zenon
<1>5. \A k \in 1..n : rs[k].name = qs[k].name /\ rs[k].value = qs[k].value
  <2>1. \A k \in 1..n : rs[k] = Lpp!Reading(bytes, cut[k - 1]) /\ qs[k] = Lpp!Reading(piece[k], 0)
    BY Zenon DEF Readings
  <2>. HIDE DEF rs, qs
  <2>. QED
    BY <1>2, <2>1, Zenon
<1>. HIDE DEF rs
<1>6. Reports(Lpp!Decode(bytes), n, qs)
  <2>. HIDE DEF qs
  <2>. QED
    BY <1>4, <1>5, SameReports, Zenon
<1>. QED
  BY <1>3, <1>6, Zenon

\* get_data_size and the slices of decode agree for every type: a channel, a
\* supported type and as many bytes as it takes (of a polyline, as many as its
\* first byte says) are one reading, named after both, with the value of these bytes.
THEOREM WholeReadings ==
  ASSUME NEW r \in Seq(Bytes), NEW t,
         \/ t \in Types /\ Len(r) = 2 + Lpp!DataSize(t)
         \/ t = Lpp!Polyline /\ Len(r) >= 10 /\ Len(r) = 2 + r[3] /\ r[4] \in Lpp!PrecisionCodes,
         r[2] = t
  PROVE  /\ IsWhole(r)
         /\ Lpp!Reading(r, 0).name = <<Lpp!TypeName(t), r[1]>>
         /\ Lpp!Reading(r, 0).value =
              IF t = Lpp!Polyline THEN Lpp!PolylineValue(SubSeq(r, 3, Len(r)))
              ELSE Lpp!Value(t, SubSeq(r, 3, Len(r)))
<1>0. 0 + 1 = 1 /\ 0 + 2 = 2 /\ 0 + 3 = 3 /\ 2 + 1 = 3
  OBVIOUS
<1>1. ASSUME NEW size \in Nat \ {0}, Size(r, 0) = [size |-> size], Len(r) = 2 + size,
             ~BadPrecision(t, SubSeq(r, 3, Len(r)))
      PROVE  Lpp!Reading(r, 0) = Result(r[1], t, SubSeq(r, 3, Len(r)), Len(r))
  <2>1. ~Lpp!IsError(Size(r, 0)) /\ Size(r, 0).size = size
    BY <1>1 DEF Lpp!IsError
  <2>2. ~(2 > Len(r)) /\ ~(2 + size > Len(r))
    <3>1. size \in Nat \ {0}
      OBVIOUS
    <3>. QED
      BY <1>1, <3>1
  <2>3. Data(r, 0) = SubSeq(r, 3, Len(r))
    BY <1>0, <1>1, <2>1, Zenon DEF Data
  <2>. QED
    BY <1>0, <1>1, <2>1, <2>2, <2>3, ReadingIs, Zenon
<1>2. \E size \in Nat \ {0} :
        /\ Size(r, 0) = [size |-> size] /\ Len(r) = 2 + size
        /\ ~BadPrecision(t, SubSeq(r, 3, Len(r)))
  <2>1. CASE t \in Types /\ Len(r) = 2 + Lpp!DataSize(t)
    <3>1. t # Lpp!Polyline /\ t \in Lpp!Supported
      <4>1. t # Lpp!Polyline
        BY <2>1 DEF Types, Lpp!Polyline
      <4>2. t \in Lpp!Supported
        BY <2>1, TypesSupported
      <4>. QED
        BY <4>1, <4>2
    <3>2. Size(r, 0) = [size |-> Lpp!DataSize(t)]
      BY <1>0, <3>1, Zenon DEF Size, Lpp!SizeAt
    <3>3. Lpp!DataSize(t) \in Nat \ {0}
      BY <2>1, Sizes, \A x \in 1..9 : x \in Nat \ {0}
    <3>. QED
      BY <2>1, <3>1, <3>2, <3>3, Zenon DEF BadPrecision
  <2>2. CASE /\ t = Lpp!Polyline /\ Len(r) >= 10 /\ Len(r) = 2 + r[3]
             /\ r[4] \in Lpp!PrecisionCodes
    <3>1. PICK size \in Bytes : size = r[3]
      <4>1. 3 \in 1..Len(r)
        BY <2>2
      <4>. QED
        BY <4>1, ElementOfSeq, Zenon
    <3>2. size \in Nat \ {0} /\ ~(size < 8) /\ Len(r) = 2 + size
      <4>1. Len(r) = 2 + size
        BY <2>2, <3>1, Zenon
      <4>2. size \in 0..255
        BY DEF Bytes
      <4>3. \A l \in Nat : \A x \in 0..255 :
              l >= 10 /\ l = 2 + x => x \in Nat \ {0} /\ ~(x < 8)
        OBVIOUS
      <4>4. Len(r) \in Nat
        OBVIOUS
      <4>. QED
        BY <2>2, <4>1, <4>2, <4>3, <4>4, Zenon
    <3>3. Size(r, 0) = [size |-> size]
      <4>1. 2 # Len(r)
        BY <2>2
      <4>. QED
        BY <1>0, <2>2, <3>1, <3>2, <4>1, Zenon DEF Size, Lpp!SizeAt, Lpp!MinPolylineSize
    <3>4. SubSeq(r, 3, Len(r))[2] = r[4]
      <4>1. /\ 3 \in Nat /\ Len(r) \in Nat /\ 1 <= 3 /\ 3 <= Len(r) /\ Len(r) <= Len(r)
            /\ 2 \in 1..(Len(r) - 3 + 1) /\ 3 + 2 - 1 = 4
        BY <2>2
      <4>2. \A i \in 1..(Len(r) - 3 + 1) : SubSeq(r, 3, Len(r))[i] = r[3 + i - 1]
        BY <4>1, Window, Zenon
      <4>. QED
        BY <4>1, <4>2
    <3>. QED
      BY <2>2, <3>2, <3>3, <3>4, Zenon DEF BadPrecision
  <2>. QED
    BY <2>1, <2>2
<1>3. Lpp!Reading(r, 0) = Result(r[1], t, SubSeq(r, 3, Len(r)), Len(r))
  BY <1>1, <1>2, Zenon
<1>. QED
  BY <1>3, ResultFacts DEF IsWhole

\* An integer is its high bytes and its low one.
LEMMA LowByte ==
  ASSUME NEW v \in Int
  PROVE  /\ v \div 256 \in Int /\ v % 256 \in 0..255
         /\ 256 * (v \div 256) + (v % 256) = v
BY SMT

\* A byte that is 128 or more stands for a negative number.
LEMMA HighByte ==
  ASSUME NEW q \in Int, -128 <= q, q < 128
  PROVE  /\ q % 256 \in Int
         /\ q % 256 < 128 => q % 256 = q
         /\ ~(q % 256 < 128) => q % 256 = q + 256
BY SMT

LEMMA Unsigned ==
  ASSUME NEW d, NEW i, NEW v \in Int, 0 <= v, v < 65536,
         d[i] = (v \div 256) % 256, d[i + 1] = v % 256
  PROVE  Lpp!U16(d, i) = v
<1>. DEFINE q == v \div 256
<1>1. q \in Int /\ 0 <= q /\ q < 256 /\ 256 * q + (v % 256) = v /\ v % 256 \in Int
  BY LowByte, SMT
<1>. HIDE DEF q
<1>2. d[i] = q
  BY <1>1, SMT DEF q
<1>. QED
  BY <1>1, <1>2, SMT DEF Lpp!U16

LEMMA Signed ==
  ASSUME NEW d, NEW i, NEW v \in Int, -32768 <= v, v < 32768,
         d[i] = (v \div 256) % 256, d[i + 1] = v % 256
  PROVE  Lpp!I16(d, i) = v
<1>. DEFINE q == v \div 256
<1>1. q \in Int /\ -128 <= q /\ q < 128 /\ 256 * q + (v % 256) = v /\ v % 256 \in Int
  BY LowByte, SMT
<1>. HIDE DEF q
<1>2. d[i] = q % 256
  BY DEF q
<1>3. d[i] \in Int /\ (d[i] < 128 => d[i] = q) /\ (~(d[i] < 128) => d[i] = q + 256)
  BY <1>1, <1>2, HighByte, SMT
<1>. QED
  BY <1>1, <1>2, <1>3, SMT DEF Lpp!I16, Lpp!U16

LEMMA Quotients ==
  ASSUME NEW v \in Int
  PROVE  (v \div 256) \div 256 = v \div 65536
<1>. DEFINE q == v \div 256
            r == v % 256
            h == q \div 256
            s == q % 256
<1>1. /\ q \in Int /\ r \in 0..255 /\ 256 * q + r = v
      /\ h \in Int /\ s \in 0..255 /\ 256 * h + s = q
  BY LowByte
<1>2. /\ 65536 * h <= v /\ v < 65536 * h + 65536
  BY <1>1, SMT
<1>. HIDE DEF q, r, h, s
<1>3. h = v \div 65536
  BY <1>1, <1>2, SMT
<1>. QED
  BY <1>3, SMT DEF h, q

LEMMA HighBytes ==
  ASSUME NEW v \in Int, -8388608 <= v, v < 8388608
  PROVE  /\ v \div 65536 \in Int
         /\ -128 <= v \div 65536 /\ v \div 65536 < 128
BY SMT

Composed(h, m, l) == 65536 * h + 256 * m + l

HighMidLow(d, i, h, m, l) ==
  d[i] = h % 256 /\ d[i + 1] = m /\ d[i + 1 + 1] = l

LEMMA Bytes24 ==
  ASSUME NEW d, NEW i, NEW h \in Int, NEW m \in 0..255, NEW l \in 0..255,
         -128 <= h, h < 128, HighMidLow(d, i, h, m, l)
  PROVE  Lpp!I24(d, i) = Composed(h, m, l)
<1>. USE DEF HighMidLow, Composed
<1>1. PICK b \in Int : b = d[i] /\ (b < 128 => b = h) /\ (~(b < 128) => b = h + 256)
  BY HighByte
<1>2. PICK w \in Int : w = Lpp!U16(d, i + 1) /\ w = 256 * m + l
  BY SMT DEF Lpp!U16
<1>3. Lpp!I24(d, i) = (IF b < 128 THEN 0 ELSE -16777216) + 65536 * b + w
  BY <1>1, <1>2, SMT DEF Lpp!I24
<1>. HIDE DEF Lpp!I24
<1>4. CASE b < 128
  BY <1>1, <1>2, <1>3, <1>4, SMT
<1>5. CASE ~(b < 128)
  BY <1>1, <1>2, <1>3, <1>5, SMT
<1>. QED
  BY <1>4, <1>5

AreDigits(v, h, m, l) == h = v \div 65536 /\ m = (v \div 256) % 256 /\ l = v % 256

LEMMA Digits ==
  ASSUME NEW v \in Int, NEW h, NEW m, NEW l, AreDigits(v, h, m, l)
  PROVE  /\ h \in Int /\ m \in 0..255 /\ l \in 0..255
         /\ Composed(h, m, l) = v
<1>. USE DEF AreDigits, Composed
<1>1. PICK q \in Int : q = v \div 256
  BY SMT
<1>2. l \in 0..255 /\ 256 * q + l = v
  BY <1>1, LowByte, SMT
<1>3. h \in Int /\ h = q \div 256
  BY <1>1, Quotients, SMT
<1>4. m \in 0..255 /\ 256 * h + m = q
  BY <1>1, <1>3, LowByte, SMT
<1>5. 65536 * h + 256 * m + l = v
  BY <1>2, <1>3, <1>4, SMT
<1>. QED
  BY <1>2, <1>3, <1>4, <1>5, SMT

\* Two bytes of d, the high one first, and three.
TwoBytes(d, i, v)   == d[i] = (v \div 256) % 256 /\ d[i + 1] = v % 256
ThreeBytes(d, i, v) == d[i] = (v \div 65536) % 256 /\ TwoBytes(d, i + 1, v)

Unsigned16 == 0..65535
Signed16   == {v \in Int : -32768 <= v /\ v < 32768}
Signed24   == {v \in Int : -8388608 <= v /\ v < 8388608}

LEMMA Three ==
  ASSUME NEW d, NEW i \in Nat, NEW v \in Signed24, ThreeBytes(d, i, v)
  PROVE  Lpp!I24(d, i) = v
<1>1. v \in Int /\ -8388608 <= v /\ v < 8388608
  BY SMT DEF Signed24
<1>. DEFINE h == v \div 65536
            m == (v \div 256) % 256
            l == v % 256
<1>2. HighMidLow(d, i, h, m, l)
  BY SMT DEF ThreeBytes, TwoBytes, HighMidLow
<1>3. AreDigits(v, h, m, l)
  BY DEF AreDigits
<1>4. -128 <= h /\ h < 128
  BY <1>1, HighBytes, SMT
<1>. HIDE DEF h, m, l
<1>5. /\ h \in Int /\ m \in 0..255 /\ l \in 0..255
      /\ Composed(h, m, l) = v
  BY <1>1, <1>3, Digits, SMT
<1>6. Lpp!I24(d, i) = Composed(h, m, l)
  BY <1>2, <1>4, <1>5, Bytes24, Zenon
<1>. QED
  BY <1>5, <1>6, SMT

\* The u16, i16 and i24 of decode_sensor_value: every integer of that width comes
\* back from its bytes, the high one first; the sign is that of the highest bit.
THEOREM IntegersReadBack ==
  ASSUME NEW d, NEW i \in Nat
  PROVE  /\ \A v \in Unsigned16 : TwoBytes(d, i, v) => Lpp!U16(d, i) = v
         /\ \A v \in Signed16 : TwoBytes(d, i, v) => Lpp!I16(d, i) = v
         /\ \A v \in Signed24 : ThreeBytes(d, i, v) => Lpp!I24(d, i) = v
<1>1. ASSUME NEW v \in Unsigned16, TwoBytes(d, i, v)
      PROVE  Lpp!U16(d, i) = v
  <2>1. v \in Int /\ 0 <= v /\ v < 65536
    BY SMT DEF Unsigned16
  <2>2. d[i] = (v \div 256) % 256 /\ d[i + 1] = v % 256
    BY <1>1, SMT DEF TwoBytes
  <2>. QED
    BY <2>1, <2>2, Unsigned, SMTT(60)
<1>2. ASSUME NEW v \in Signed16, TwoBytes(d, i, v)
      PROVE  Lpp!I16(d, i) = v
  <2>1. v \in Int /\ -32768 <= v /\ v < 32768
    BY SMT DEF Signed16
  <2>2. d[i] = (v \div 256) % 256 /\ d[i + 1] = v % 256
    BY <1>2, SMT DEF TwoBytes
  <2>. QED
    BY <2>1, <2>2, Signed, SMTT(60)
<1>3. ASSUME NEW v \in Signed24, ThreeBytes(d, i, v)
      PROVE  Lpp!I24(d, i) = v
  BY <1>3, Three, SMT
<1>. QED
  BY <1>1, <1>2, <1>3, SMT
=============================================================================
