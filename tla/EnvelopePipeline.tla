--------------------------- MODULE EnvelopePipeline ---------------------------
(***************************************************************************)
(* The analytics worker: the consumer of raw envelopes, which turns them    *)
(* into processed ones; the consumer of processed envelopes, which puts     *)
(* them in the buffer of the ClickHouse inserter; and the commit loop,      *)
(* which flushes the buffer.  Both consumers are TowerConsumers, each on a  *)
(* stream of its own.                                                       *)
(*                                                                         *)
(* The raw envelopes are those of one device.  A processed envelope, a row  *)
(* of the buffer and a row of the table are named by the sequence number of *)
(* the raw envelope they come from.                                         *)
(***************************************************************************)
EXTENDS PayloadContracts, FiniteSets

CONSTANTS
  Payloads,      \* what a device may send
  Definitions,   \* contracts of the device: what each makes of each payload
  RawBatch,      \* messages per fetch of the raw consumer
  ProcessedBatch,\* and of the processed one
  MaxRaw,        \* bound on the raw envelopes
  MaxProcessed,  \* bound on the processed envelopes
  MaxFaults,     \* bound on the faults of a behaviour
  Faults         \* the kinds of fault that may happen

ASSUME DefinitionsAssumption == Definitions \subseteq [Payloads -> Seq(Contract)]
ASSUME BoundsAssumption ==
  /\ RawBatch \in Nat \ {0} /\ ProcessedBatch \in Nat \ {0}
  /\ MaxRaw \in Nat /\ MaxProcessed \in Nat /\ MaxFaults \in Nat

VARIABLES
  rStream, rNext, rUnacked, rRedeliver, rBatch, rStep, rAccepted,
  pStream, pNext, pUnacked, pRedeliver, pBatch, pStep, pAccepted,
  device,     \* whether the end device's row exists
  org,        \* whether its organization is active or deleted
  definition, \* the contracts of its definition
  at,         \* where process_raw_envelope is
  read,       \* the contracts it has read
  buffer,     \* the rows in the inserter
  table,      \* the rows in ClickHouse
  committing, \* the commit loop runs
  phase,      \* "up", or "stopping" once the token is cancelled
  dropped,    \* history: raw envelopes acknowledged without a publish
  lost,       \* history: rows that were in the buffer when it was dropped
  deletedAt,  \* history: how many raw envelopes preceded the deletion
  faults      \* counts the faults, for MaxFaults

rawVars       == <<rStream, rNext, rUnacked, rRedeliver, rBatch, rStep, rAccepted>>
processedVars == <<pStream, pNext, pUnacked, pRedeliver, pBatch, pStep, pAccepted>>
registryVars  == <<device, org, definition, deletedAt>>
serviceVars   == <<at, read, dropped>>
inserterVars  == <<buffer, table, committing, lost>>
vars == <<rawVars, processedVars, registryVars, serviceVars, inserterVars, phase,
          faults>>

Raw == INSTANCE TowerConsumer WITH
  Messages <- Payloads, BatchSize <- RawBatch, MaxMessages <- MaxRaw,
  stream <- rStream, nextSeq <- rNext, unacked <- rUnacked,
  redeliver <- rRedeliver, batch <- rBatch, step <- rStep, accepted <- rAccepted

Processed == INSTANCE TowerConsumer WITH
  Messages <- Nat, BatchSize <- ProcessedBatch, MaxMessages <- MaxProcessed,
  stream <- pStream, nextSeq <- pNext, unacked <- pUnacked,
  redeliver <- pRedeliver, batch <- pBatch, step <- pStep, accepted <- pAccepted

Fault(kind) == Raw!Fault(kind)

Init ==
  /\ Raw!Init
  /\ Processed!Init
  /\ device \in {"missing", "present"}
  /\ org = "active"
  /\ definition \in Definitions
  /\ at = "device"
  /\ read \in Definitions /\ read = definition
  /\ buffer = {}
  /\ table = {}
  /\ committing = TRUE
  /\ phase = "up"
  /\ dropped = {}
  /\ lost = {}
  /\ deletedAt = 0

(***************************************************************************)
(* What goes on around the worker.  A subscriber publishes whatever arrives *)
(* for the organization, without a look at the device or at deleted_at.     *)
(***************************************************************************)
Ingest(m) ==
  /\ Raw!Publish(m)
  /\ UNCHANGED <<processedVars, registryVars, serviceVars, inserterVars, phase>>

RegisterDevice ==
  /\ device = "missing"
  /\ org = "active"
  /\ device' = "present"
  /\ UNCHANGED <<rawVars, processedVars, org, definition, deletedAt, serviceVars,
                 inserterVars, phase, faults>>

DeleteOrganization ==
  /\ org = "active"
  /\ org' = "deleted"
  /\ deletedAt' = Len(rStream)
  /\ UNCHANGED <<rawVars, processedVars, device, definition, serviceVars,
                 inserterVars, phase, faults>>

UpdateDefinition(d) ==
  /\ d # definition
  /\ definition' = d
  /\ UNCHANGED <<rawVars, processedVars, device, org, deletedAt, serviceVars,
                 inserterVars, phase, faults>>

(***************************************************************************)
(* The consumers of the two streams, except for their services.             *)
(***************************************************************************)
RawConsumer ==
  /\ Raw!Server \/ Raw!Loop
  /\ UNCHANGED <<processedVars, registryVars, serviceVars, inserterVars, phase>>

ProcessedConsumer ==
  /\ Processed!Server \/ Processed!Loop
  /\ UNCHANGED <<rawVars, registryVars, serviceVars, inserterVars, phase>>

(***************************************************************************)
(* process_raw_envelope.  It awaits the device, the organization and the    *)
(* publish; the contracts are run between the last two.                     *)
(***************************************************************************)
Working(where) ==
  /\ rStep = "call"
  /\ at = where
  /\ UNCHANGED <<registryVars, inserterVars, phase>>

\* The service returns Ok or Err; RawEnvelopeConsumerService turns that into
\* an ack or a nak.
ReturnOk  == Raw!Accept /\ at' = "device" /\ UNCHANGED read
ReturnErr == Raw!Reject /\ at' = "device" /\ UNCHANGED <<read, dropped>>

FetchDevice ==
  /\ Working("device")
  /\ device = "present"
  /\ at' = "organization"
  /\ read' = definition
  /\ UNCHANGED <<rawVars, processedVars, dropped, faults>>

DeviceNotFound ==
  /\ Working("device")
  /\ device = "missing"
  /\ ReturnErr
  /\ UNCHANGED <<processedVars, faults>>

QueryFails ==
  /\ Working("device") \/ Working("organization")
  /\ Fault("queryFails")
  /\ ReturnErr
  /\ UNCHANGED processedVars

\* get_organization finds no deleted organization.
OrganizationNotFound ==
  /\ Working("organization")
  /\ org = "deleted"
  /\ ReturnErr
  /\ UNCHANGED <<processedVars, faults>>

\* The device is validated after it was read, and then its contracts are run: a
\* list without any is an error.  The API keeps such lists out of the table.
Judge(contracts) == IF contracts = <<>> THEN "error" ELSE ProcessContracts(contracts)

Verdict == Judge(read[rStream[Raw!Current]])

\* Mutant: the organization is not looked up.
RunContractsOfAny ==
  /\ Working("organization")
  /\ \/ /\ Verdict = "publish"
        /\ at' = "publish"
        /\ UNCHANGED <<rawVars, read, dropped>>
     \/ Verdict = "drop" /\ ReturnOk /\ dropped' = dropped \cup {Raw!Current}
     \/ Verdict = "error" /\ ReturnErr
  /\ UNCHANGED <<processedVars, faults>>

RunContracts ==
  /\ Working("organization")
  /\ org = "active"
  /\ \/ /\ Verdict = "publish"
        /\ at' = "publish"
        /\ UNCHANGED <<rawVars, read, dropped>>
     \/ Verdict = "drop" /\ ReturnOk /\ dropped' = dropped \cup {Raw!Current}
     \/ Verdict = "error" /\ ReturnErr
  /\ UNCHANGED <<processedVars, faults>>

PublishProcessed ==
  /\ Working("publish")
  /\ Processed!Publish(Raw!Current)
  /\ ReturnOk
  /\ UNCHANGED dropped

\* Mutant: a failed publish is logged and acknowledged.
PublishFailureIgnored ==
  /\ Working("publish")
  /\ Fault("publishFails")
  /\ ReturnOk
  /\ UNCHANGED <<processedVars, dropped>>

\* The publish or its acknowledgement by the server is lost: the envelope may
\* or may not be on the stream.
PublishFails ==
  /\ Working("publish")
  /\ Fault("publishFails")
  /\ ReturnErr
  /\ \/ UNCHANGED processedVars
     \/ /\ Len(pStream) < MaxProcessed
        /\ pStream' = Append(pStream, Raw!Current)
        /\ UNCHANGED <<pNext, pUnacked, pRedeliver, pBatch, pStep, pAccepted>>

(***************************************************************************)
(* ProcessedEnvelopeConsumerService and the inserter.                       *)
(***************************************************************************)
Row == pStream[Processed!Current]

BufferRow ==
  /\ Processed!Accept
  /\ buffer' = buffer \cup {Row}
  /\ UNCHANGED <<rawVars, registryVars, serviceVars, table, committing, lost,
                 phase, faults>>

\* Mutant: a row that could not be buffered is acknowledged.
BufferFailureIgnored ==
  /\ Processed!Accept
  /\ Fault("bufferFails")
  /\ UNCHANGED <<rawVars, registryVars, serviceVars, inserterVars, phase>>

BufferFails ==
  /\ Processed!Reject
  /\ Fault("bufferFails")
  /\ UNCHANGED <<rawVars, registryVars, serviceVars, inserterVars, phase>>

Flush(goesOn) ==
  /\ committing
  /\ table' = table \cup buffer
  /\ buffer' = {}
  /\ committing' = goesOn
  /\ UNCHANGED <<rawVars, processedVars, registryVars, serviceVars, lost, phase,
                 faults>>

\* Mutant: the commit loop ends when a commit fails.
FlushFailureEndsLoop(goesOn) ==
  /\ committing
  /\ Fault("flushFails")
  /\ buffer' = {}
  /\ lost' = lost \cup buffer
  /\ committing' = FALSE
  /\ UNCHANGED <<rawVars, processedVars, registryVars, serviceVars, table, phase>>

\* A failed commit is logged.  The inserter has given up the insert in progress.
FlushFails(goesOn) ==
  /\ committing
  /\ Fault("flushFails")
  /\ buffer' = {}
  /\ lost' = lost \cup buffer
  /\ committing' = goesOn
  /\ UNCHANGED <<rawVars, processedVars, registryVars, serviceVars, table, phase>>

\* Every commit_interval, ...
Commit == Flush(TRUE) \/ FlushFails(TRUE)

\* ... and once more when the commit loop sees the cancelled token.
FinalCommit == phase = "stopping" /\ (Flush(FALSE) \/ FlushFails(FALSE))

(***************************************************************************)
(* The program.  Once the token is cancelled, each process goes on until it *)
(* sees the token or the runner, which waits for one process only, aborts   *)
(* it.  The supervisor starts the program again.                            *)
(***************************************************************************)
Shutdown ==
  /\ phase = "up"
  /\ Fault("shutdown")
  /\ phase' = "stopping"
  /\ UNCHANGED <<rawVars, processedVars, registryVars, serviceVars, inserterVars>>

Restart ==
  /\ Raw!Restart
  /\ Processed!Restart
  /\ at' = "device"
  /\ buffer' = {}
  /\ lost' = lost \cup buffer
  /\ committing' = TRUE
  /\ phase' = "up"
  /\ UNCHANGED <<registryVars, read, dropped, table>>

Exit == phase = "stopping" /\ Restart /\ UNCHANGED faults

Crash == Fault("crash") /\ Restart

-----------------------------------------------------------------------------
Environment ==
  \/ \E m \in Payloads : Ingest(m)
  \/ RegisterDevice
  \/ DeleteOrganization
  \/ \E d \in Definitions : UpdateDefinition(d)

RawService ==
  \/ FetchDevice
  \/ DeviceNotFound
  \/ QueryFails
  \/ OrganizationNotFound
  \/ RunContracts
  \/ PublishProcessed
  \/ PublishFails

ProcessedService == BufferRow \/ BufferFails

Next ==
  \/ Environment
  \/ RawConsumer
  \/ ProcessedConsumer
  \/ RawService
  \/ ProcessedService
  \/ Commit
  \/ FinalCommit
  \/ Shutdown
  \/ Exit
  \/ Crash

Spec == Init /\ [][Next]_vars

Fairness ==
  /\ Raw!ServerFairness /\ Raw!LoopFairness
  /\ Processed!ServerFairness /\ Processed!LoopFairness
  /\ WF_vars(RawService)
  /\ WF_vars(ProcessedService)
  /\ WF_vars(Flush(TRUE))
  /\ WF_vars(Exit)

FairSpec == Spec /\ Fairness

-----------------------------------------------------------------------------
TypeOK ==
  /\ Raw!TypeOK /\ Processed!TypeOK
  /\ device \in {"missing", "present"}
  /\ org \in {"active", "deleted"}
  /\ definition \in Definitions /\ read \in Definitions
  /\ at \in {"device", "organization", "publish"}
  /\ committing \in BOOLEAN
  /\ phase \in {"up", "stopping"}
  /\ deletedAt \in 0..Len(rStream)
  /\ dropped \subseteq 1..Len(rStream)
  /\ buffer \cup table \cup lost \subseteq 1..Len(rStream)

Published == {pStream[i] : i \in 1..Len(pStream)}

\* The raw stream forgets an envelope only if it was published as a processed
\* one or a contract list told to drop it; whatever fails, expires or restarts,
\* no envelope disappears between the two streams.  An unknown device, a deleted
\* organization and a contract that cannot be evaluated are no reasons: the worker
\* rejects such an envelope (docs/modules/analytics-worker.md:86 has it
\* acknowledged).
NothingVanishes == Raw!Settled \subseteq Published \cup dropped

\* The processed stream forgets an envelope only if its row is in the buffer or
\* the table, or was in the buffer when a flush failed or the program ended:
\* the acknowledgement precedes the flush, and that is all it can cost.
RowsAccountedFor ==
  {pStream[i] : i \in Processed!Settled} \subseteq buffer \cup table \cup lost

\* "Envelopes from deleted or missing organizations are rejected": no envelope
\* that arrives after the deletion is published, though one that is on its way
\* when the organization is deleted may still be.
NoneAfterDeletion ==
  org = "deleted" => \A s \in Published : s <= deletedAt

\* The envelopes that every definition in use agrees to publish.
Publishable(s) ==
  s <= Len(rStream) /\ Judge(definition[rStream[s]]) = "publish"

\* Those that are an error each time.
Poisoned == {s \in 1..Len(rStream) : Judge(definition[rStream[s]]) = "error"}

\* With a registered device, an organization that stays and contracts that do
\* not change, every envelope the contracts accept reaches the table, unless
\* its row was lost with the buffer, as long as the envelopes that can never be
\* processed are fewer than a fetch takes.  They are rejected each time, and sent
\* again before anything new: as many as RawBatch of them and the worker gets to
\* see nothing else.
EventuallyStored ==
  /\ \E d \in Definitions : [](definition = d)
  /\ []<>(device = "present")
  /\ [](org = "active")
  /\ [](Cardinality(Poisoned) < RawBatch)
  => \A s \in 1..MaxRaw : Publishable(s) ~> s \in table \cup lost

\* docs/modules/analytics-worker.md: "On graceful shutdown (cancellation token), the
\* commit loop performs one final flush".  An exit without a fault finds nothing
\* in the buffer.
FlushedAtExit == [][Exit => buffer = {}]_vars

-----------------------------------------------------------------------------
(***************************************************************************)
(* The inductive invariant behind NothingVanishes, RowsAccountedFor and     *)
(* NoneAfterDeletion: what the two services have done with the messages     *)
(* that they accepted, and what the one at work has checked.                *)
(***************************************************************************)

\* A processed envelope and a row come from a raw envelope.
OriginInv ==
  /\ Published \subseteq 1..Len(rStream)
  /\ buffer \cup table \cup lost \subseteq Published

\* An answer follows what it stands for.
AcceptedInv ==
  /\ rAccepted \subseteq Published \cup dropped
  /\ {pStream[i] : i \in pAccepted} \subseteq buffer \cup table \cup lost

\* process_raw_envelope is at work on the current message, and what it is about to
\* publish arrived before the organization was deleted.
ServiceInv ==
  /\ at # "device" => rStep = "call"
  /\ at = "publish" /\ org = "deleted" => Raw!Current <= deletedAt

IInv ==
  /\ TypeOK
  /\ Raw!IInv /\ Processed!IInv
  /\ OriginInv
  /\ AcceptedInv
  /\ ServiceInv
  /\ NoneAfterDeletion
=============================================================================
