------------------------- MODULE GatewayOrchestrator -------------------------
(***************************************************************************)
(* The gateway orchestrator: the gateway rows of PostgreSQL, the change     *)
(* events that the CDC worker publishes to JetStream, the durable consumer  *)
(* that hands them to GatewayOrchestrationService, the store of deployment  *)
(* handles and the subscriber tasks spawned by InProcessDeployer.           *)
(*                                                                         *)
(* One process of ponix_all_in_one is modelled, with its crashes, graceful  *)
(* shutdowns and restarts.  The handler is sequential: launch_gateways runs *)
(* before the consumer exists, and TowerConsumer handles one message at a   *)
(* time.  Rows, the write-ahead log, the stream and the state of the        *)
(* durable consumer outlive the process; everything else dies with it.      *)
(***************************************************************************)
EXTENDS Naturals, Sequences

CONSTANTS
  Gateways,    \* gateway ids
  Configs,     \* broker URLs, all that hash_gateway_config looks at
  Tasks,       \* identities of spawned tasks; bounds the tasks alive at once
  Absent,      \* the row was never inserted
  Deleted,     \* the row has deleted_at set
  NoTask,      \* the handler holds no handle
  NoJob,       \* the handler works on no gateway
  BatchSize,   \* messages per fetch (10 in gateway_cdc_consumer.rs)
  MaxChanges,  \* bound on the writes to the gateways table
  MaxFaults,   \* bound on the faults of a behaviour
  Faults       \* the kinds of fault that may happen

FaultKinds ==
  {"crash", "shutdown", "ackLost", "deliveryLost", "publishFails", "giveUp"}

ASSUME RowsAssumption ==
  Absent \notin Configs /\ Deleted \notin Configs /\ Absent # Deleted
ASSUME TaskAssumption == NoTask \notin Tasks
ASSUME BoundsAssumption ==
  /\ BatchSize \in Nat \ {0}
  /\ MaxChanges \in Nat
  /\ MaxFaults \in Nat
  /\ Faults \subseteq FaultKinds

VARIABLES
  rows,      \* gateway -> config of its row, or Absent, or Deleted
  wal,       \* changes committed since the copy that are yet to be published
  copied,    \* the CDC worker of this process has copied the gateways table
  missed,    \* history: gateways whose last change in this life, of those that
             \* the CDC worker is done with, was not published
  stream,    \* the change events in the gateways stream
  nextSeq,   \* the first sequence number never delivered
  unacked,   \* sequence numbers delivered and not acknowledged
  redeliver, \* those of unacked whose ack_wait has expired
  phase,     \* life cycle of the process
  todo,      \* gateways launch_gateways has yet to start
  batch,     \* sequence numbers fetched and not yet acknowledged
  step,      \* where the handler is
  job,       \* the gateway the handler works on, and the row it was given
  held,      \* the task of the handle that the handler alone owns
  handles,   \* the handle store: gateway -> [task, config]
  tasks,     \* the live subscriber tasks: task -> [gw, config, cancelled]
  shutdownToken, \* orchestrator_shutdown_token is cancelled
  changes,   \* counts the writes, for MaxChanges
  faults     \* counts the faults, for MaxFaults

dbVars      == <<rows, changes>>
cdcVars     == <<wal, copied, missed>>
streamVars  == <<stream, nextSeq, unacked, redeliver>>
handlerVars == <<step, job, held>>
vars == <<dbVars, cdcVars, streamVars, phase, todo, batch, handlerVars, handles,
          tasks, shutdownToken, faults>>

Phases == {"down", "launching", "consuming", "closing"}
Steps  == {"fetch", "next", "start", "deployed", "waiting", "done"}

Event  == [kind : {"created"}, gw : Gateways, row : Configs]
          \cup [kind : {"updated"}, gw : Gateways, row : Configs \cup {Deleted}]
          \cup [kind : {"deleted"}, gw : Gateways, row : {Deleted}]
Job    == [gw : Gateways, want : Configs \cup {Deleted}]
Handle == [task : Tasks, config : Configs]
Task   == [gw : Gateways, config : Configs, cancelled : BOOLEAN]

Fault(kind) ==
  /\ kind \in Faults
  /\ faults < MaxFaults
  /\ faults' = faults + 1

\* HashMap::new()
EmptyMap == [x \in {} |-> x]

Init ==
  /\ rows = [g \in Gateways |-> Absent]
  /\ wal = <<>>
  /\ copied = FALSE
  /\ missed = {}
  /\ stream = <<>>
  /\ nextSeq = 1
  /\ unacked = {}
  /\ redeliver = {}
  /\ phase = "down"
  /\ todo = {}
  /\ batch = <<>>
  /\ step = "next"
  /\ job = NoJob
  /\ held = NoTask
  /\ handles = EmptyMap
  /\ tasks = EmptyMap
  /\ shutdownToken = FALSE
  /\ changes = 0
  /\ faults = 0

(***************************************************************************)
(* The gateway API.  It is a process of the same runner, so it serves only  *)
(* once the orchestrator has launched.  Rows are never removed.  A change   *)
(* that is committed before the CDC worker copies the table will be in the  *)
(* copy, and so not among what the worker publishes.                        *)
(***************************************************************************)
Serving == phase = "consuming"

Replicate(change) ==
  IF copied THEN wal' = Append(wal, change) /\ UNCHANGED missed
            ELSE UNCHANGED wal /\ missed' = missed \cup {change.gw}

Write(kind, g, row) ==
  /\ Serving
  /\ changes < MaxChanges
  /\ changes' = changes + 1
  /\ rows' = [rows EXCEPT ![g] = row]
  /\ Replicate([kind |-> kind, gw |-> g, row |-> row])
  /\ UNCHANGED <<copied, streamVars, phase, todo, batch, handlerVars, handles, tasks,
                 shutdownToken, faults>>

CreateGateway(g, c) == rows[g] = Absent /\ Write("created", g, c)

UpdateGateway(g, c) == rows[g] \in Configs /\ Write("updated", g, c)

DeleteGateway(g) == rows[g] \in Configs /\ Write("updated", g, Deleted)

(***************************************************************************)
(* The CDC worker.  Its replication state is a MemoryStore of its process,  *)
(* so it copies the table once in every life, and write_table_rows does     *)
(* nothing: what is in the copy reaches no one.  write_events logs an event *)
(* it fails to publish and goes on to the next one.                         *)
(***************************************************************************)
CopyTable ==
  /\ Serving
  /\ ~copied
  /\ copied' = TRUE
  /\ UNCHANGED <<dbVars, wal, missed, streamVars, phase, todo, batch, handlerVars,
                 handles, tasks, shutdownToken, faults>>

PublishChange ==
  /\ Serving
  /\ wal # <<>>
  /\ stream' = Append(stream, Head(wal))
  /\ wal' = Tail(wal)
  /\ missed' = missed \ {Head(wal).gw}
  /\ UNCHANGED <<dbVars, copied, nextSeq, unacked, redeliver, phase, todo, batch,
                 handlerVars, handles, tasks, shutdownToken, faults>>

SkipChange ==
  /\ Serving
  /\ wal # <<>>
  /\ Fault("publishFails")
  /\ wal' = Tail(wal)
  /\ missed' = missed \cup {Head(wal).gw}
  /\ UNCHANGED <<dbVars, copied, streamVars, phase, todo, batch, handlerVars, handles,
                 tasks, shutdownToken>>

(***************************************************************************)
(* JetStream and fetch_messages.  The durable consumer delivers every       *)
(* message from the first one, those to be redelivered before new ones.     *)
(***************************************************************************)
Fetching == phase = "consuming" /\ step = "fetch" /\ Len(batch) < BatchSize

Redelivery(s) == s \in redeliver

Delivery(s) == redeliver = {} /\ s = nextSeq /\ s <= Len(stream)

SendToConsumer(s) ==
  /\ Redelivery(s) \/ Delivery(s)
  /\ nextSeq' = IF s = nextSeq THEN nextSeq + 1 ELSE nextSeq
  /\ unacked' = unacked \cup {s}
  /\ redeliver' = redeliver \ {s}
  /\ UNCHANGED <<dbVars, cdcVars, stream, phase, todo, handlerVars, handles, tasks,
                 shutdownToken>>

Deliver(s) ==
  /\ Fetching
  /\ SendToConsumer(s)
  /\ batch' = Append(batch, s)
  /\ UNCHANGED faults

\* The message leaves the server and an error takes its place in the fetch.
LoseDelivery(s) ==
  /\ Fetching
  /\ Fault("deliveryLost")
  /\ SendToConsumer(s)
  /\ UNCHANGED batch

\* A fetch lasts at most max_wait (5 s) and ack_wait is 30 s, so no message of
\* the fetch in progress expires.
AckWaitExpires(s) ==
  /\ s \in unacked \ redeliver
  /\ step = "fetch" => \A i \in 1..Len(batch) : batch[i] # s
  /\ redeliver' = redeliver \cup {s}
  /\ UNCHANGED <<dbVars, cdcVars, stream, nextSeq, unacked, phase, todo, batch,
                 handlerVars, handles, tasks, shutdownToken, faults>>

FetchEnds ==
  /\ phase = "consuming"
  /\ step = "fetch"
  /\ batch # <<>>
  /\ step' = "next"
  /\ UNCHANGED <<dbVars, cdcVars, streamVars, phase, todo, batch, job, held,
                 handles, tasks, shutdownToken, faults>>

(***************************************************************************)
(* The handle store and the tasks.                                          *)
(***************************************************************************)
Exists(g) == g \in DOMAIN handles

Upsert(g, h) ==
  handles' = [x \in DOMAIN handles \cup {g} |-> IF x = g THEN h ELSE handles[x]]

Remove(g) == handles' = [x \in DOMAIN handles \ {g} |-> handles[x]]

Cancel(t) ==
  tasks' = [x \in DOMAIN tasks |->
              IF x = t THEN [tasks[x] EXCEPT !.cancelled = TRUE] ELSE tasks[x]]

Spawn(t, r) ==
  tasks' = [x \in DOMAIN tasks \cup {t} |-> IF x = t THEN r ELSE tasks[x]]

Forget(t) == tasks' = [x \in DOMAIN tasks \ {t} |-> tasks[x]]

\* A task may be spawned under an identity that no task and no handle bears.
Unused(t) == t \notin DOMAIN tasks /\ \A g \in DOMAIN handles : handles[g].task # t

(***************************************************************************)
(* start_gateway_process: check the store, deploy, store the handle.        *)
(***************************************************************************)
\* Where the handler goes when it returns Ok.
Returned == IF phase = "launching" THEN "next" ELSE "done"

StartSkips ==
  /\ step = "start"
  /\ Exists(job.gw)
  /\ step' = Returned
  /\ job' = NoJob
  /\ UNCHANGED <<dbVars, cdcVars, streamVars, phase, todo, batch, held, handles,
                 tasks, shutdownToken, faults>>

\* Mutant: start_gateway_process does not look into the store.
DeployUnchecked(t) ==
  /\ step = "start"
  /\ Unused(t)
  /\ Spawn(t, [gw |-> job.gw, config |-> job.want, cancelled |-> FALSE])
  /\ held' = t
  /\ step' = "deployed"
  /\ UNCHANGED <<dbVars, cdcVars, streamVars, phase, todo, batch, job, handles,
                 shutdownToken, faults>>

Deploy(t) ==
  /\ step = "start"
  /\ ~Exists(job.gw)
  /\ Unused(t)
  /\ Spawn(t, [gw |-> job.gw, config |-> job.want, cancelled |-> FALSE])
  /\ held' = t
  /\ step' = "deployed"
  /\ UNCHANGED <<dbVars, cdcVars, streamVars, phase, todo, batch, job, handles,
                 shutdownToken, faults>>

StoreHandle ==
  /\ step = "deployed"
  /\ Upsert(job.gw, [task |-> held, config |-> job.want])
  /\ held' = NoTask
  /\ step' = Returned
  /\ job' = NoJob
  /\ UNCHANGED <<dbVars, cdcVars, streamVars, phase, todo, batch, tasks,
                 shutdownToken, faults>>

(***************************************************************************)
(* stop_gateway_process: take the handle out of the store, cancel its task, *)
(* wait for the task.                                                       *)
(***************************************************************************)
\* Mutant: the handle is dropped without a cancel.
StopWithoutCancel(g, want) ==
  /\ Exists(g)
  /\ Remove(g)
  /\ UNCHANGED tasks
  /\ held' = handles[g].task
  /\ job' = [gw |-> g, want |-> want]
  /\ step' = "waiting"

Stop(g, want) ==
  /\ Exists(g)
  /\ Remove(g)
  /\ Cancel(handles[g].task)
  /\ held' = handles[g].task
  /\ job' = [gw |-> g, want |-> want]
  /\ step' = "waiting"

\* Mutant: an update stops the task and forgets to start the next one.
StopReturnsOnly ==
  /\ step = "waiting"
  /\ held' = NoTask
  /\ step' = "done"
  /\ job' = NoJob
  /\ UNCHANGED <<dbVars, cdcVars, streamVars, phase, todo, batch, handles, tasks,
                 shutdownToken, faults>>

\* wait_for_stop returns when the task has ended and after 5 s in any case;
\* the JoinHandle is dropped then, which detaches a task still alive.
StopReturns ==
  /\ step = "waiting"
  /\ held' = NoTask
  /\ IF job.want = Deleted
     THEN step' = "done" /\ job' = NoJob
     ELSE step' = "start" /\ UNCHANGED job
  /\ UNCHANGED <<dbVars, cdcVars, streamVars, phase, todo, batch, handles, tasks,
                 shutdownToken, faults>>

(***************************************************************************)
(* The handlers of a change event, picked by GatewayCdcService.             *)
(***************************************************************************)
Current == stream[Head(batch)]

IsDeletion(e) == e.kind = "deleted" \/ (e.kind = "updated" /\ e.row = Deleted)

\* Mutant: without a handle nothing is taken to have changed.
ConfigChangedIfKnown(e) == Exists(e.gw) /\ handles[e.gw].config # e.row

\* Mutant: the hashes are not compared.
ConfigNeverChanges(e) == ~Exists(e.gw)

\* Mutant: an update restarts its gateway without a look at the hashes.
ConfigAlwaysChanged(e) == TRUE

\* The hash kept in the handle differs from the event's, or there is no handle.
ConfigChanged(e) == Exists(e.gw) => handles[e.gw].config # e.row

Handling ==
  /\ phase = "consuming"
  /\ step = "next"
  /\ batch # <<>>
  /\ UNCHANGED <<dbVars, cdcVars, streamVars, phase, todo, batch, shutdownToken,
                 faults>>

Proceed(s, j) ==
  step' = s /\ job' = j /\ UNCHANGED <<held, handles, tasks>>

HandleCreated(e) ==
  /\ Handling
  /\ e.kind = "created"
  /\ Proceed("start", [gw |-> e.gw, want |-> e.row])

\* Mutant: a deletion waits for a handle to take.
HandleDeletionOfKnown(e) ==
  /\ Handling
  /\ IsDeletion(e)
  /\ Stop(e.gw, Deleted)

HandleDeletion(e) ==
  /\ Handling
  /\ IsDeletion(e)
  /\ \/ Stop(e.gw, Deleted)
     \/ ~Exists(e.gw) /\ Proceed("done", NoJob)

HandleUpdated(e) ==
  /\ Handling
  /\ e.kind = "updated"
  /\ ~IsDeletion(e)
  /\ \/ ConfigChanged(e) /\ Stop(e.gw, e.row)
     \/ ConfigChanged(e) /\ ~Exists(e.gw)
                         /\ Proceed("start", [gw |-> e.gw, want |-> e.row])
     \/ ~ConfigChanged(e) /\ Proceed("done", NoJob)

(***************************************************************************)
(* Every handler above returns Ok, so TowerConsumer acknowledges the        *)
(* message.  ack() does not wait for the server, and an error is logged.    *)
(***************************************************************************)
NextMessage ==
  /\ step = "done"
  /\ batch' = Tail(batch)
  /\ step' = IF Tail(batch) = <<>> THEN "fetch" ELSE "next"
  /\ UNCHANGED <<dbVars, cdcVars, stream, nextSeq, phase, todo, job, held, handles,
                 tasks, shutdownToken>>

Ack ==
  /\ NextMessage
  /\ unacked' = unacked \ {Head(batch)}
  /\ redeliver' = redeliver \ {Head(batch)}
  /\ UNCHANGED faults

LoseAck ==
  /\ NextMessage
  /\ Fault("ackLost")
  /\ UNCHANGED <<unacked, redeliver>>

(***************************************************************************)
(* The subscriber tasks, each of which stands for run_mqtt_subscriber.      *)
(***************************************************************************)
TaskStops(t) ==
  /\ t \in DOMAIN tasks
  /\ tasks[t].cancelled \/ shutdownToken
  /\ Forget(t)
  /\ UNCHANGED <<dbVars, cdcVars, streamVars, phase, todo, batch, handlerVars,
                 handles, shutdownToken, faults>>

\* max_retry_attempts connection errors, or a panic.
TaskGivesUp(t) ==
  /\ t \in DOMAIN tasks
  /\ ~tasks[t].cancelled
  /\ ~shutdownToken
  /\ Fault("giveUp")
  /\ Forget(t)
  /\ UNCHANGED <<dbVars, cdcVars, streamVars, phase, todo, batch, handlerVars,
                 handles, shutdownToken>>

(***************************************************************************)
(* The life of the process.                                                 *)
(***************************************************************************)
\* Mutant: new does not call launch_gateways.
LaunchNothing ==
  /\ phase = "down"
  /\ phase' = "launching"
  /\ todo' = {}
  /\ UNCHANGED <<dbVars, cdcVars, streamVars, batch, handlerVars, handles, tasks,
                 shutdownToken, faults>>

\* main calls GatewayOrchestrator::new; list_all_gateways reads the live rows.
\* No row changes until the launch is over, so the rows need no copy.
LaunchGateways ==
  /\ phase = "down"
  /\ phase' = "launching"
  /\ todo' = {g \in Gateways : rows[g] \in Configs}
  /\ UNCHANGED <<dbVars, cdcVars, streamVars, batch, handlerVars, handles, tasks,
                 shutdownToken, faults>>

LaunchNext(g) ==
  /\ phase = "launching"
  /\ step = "next"
  /\ g \in todo
  /\ todo' = todo \ {g}
  /\ Proceed("start", [gw |-> g, want |-> rows[g]])
  /\ UNCHANGED <<dbVars, cdcVars, streamVars, phase, batch, shutdownToken, faults>>

StartConsumer ==
  /\ phase = "launching"
  /\ step = "next"
  /\ todo = {}
  /\ phase' = "consuming"
  /\ step' = "fetch"
  /\ UNCHANGED <<dbVars, cdcVars, streamVars, todo, batch, job, held, handles,
                 tasks, shutdownToken, faults>>

\* The runner's token is cancelled: the select! of the consumer loop drops
\* fetch_and_process_batch wherever it awaits, with the batch and a held handle.
StopConsumer ==
  /\ phase = "consuming"
  /\ Fault("shutdown")
  /\ phase' = "closing"
  /\ batch' = <<>>
  /\ step' = "next"
  /\ job' = NoJob
  /\ held' = NoTask
  /\ UNCHANGED <<dbVars, cdcVars, streamVars, todo, handles, tasks, shutdownToken>>

\* The closer registered by main.
CancelTasks ==
  /\ phase = "closing"
  /\ ~shutdownToken
  /\ shutdownToken' = TRUE
  /\ UNCHANGED <<dbVars, cdcVars, streamVars, phase, todo, batch, handlerVars,
                 handles, tasks, faults>>

\* What is not published yet will be in the copy of the next life.
Terminate ==
  /\ phase' = "down"
  /\ wal' = <<>>
  /\ copied' = FALSE
  /\ missed' = {}
  /\ todo' = {}
  /\ batch' = <<>>
  /\ step' = "next"
  /\ job' = NoJob
  /\ held' = NoTask
  /\ handles' = EmptyMap
  /\ tasks' = EmptyMap
  /\ shutdownToken' = FALSE
  /\ UNCHANGED <<dbVars, streamVars>>

\* process::exit at the end of Runner::run; the tasks are not waited for.
Exit == shutdownToken /\ Terminate /\ UNCHANGED faults

Crash == phase # "down" /\ Fault("crash") /\ Terminate

-----------------------------------------------------------------------------
Api ==
  \E g \in Gateways :
    \/ \E c \in Configs : CreateGateway(g, c)
    \/ \E c \in Configs : UpdateGateway(g, c)
    \/ DeleteGateway(g)

CdcWorker == CopyTable \/ PublishChange \/ SkipChange

JetStream ==
  \E s \in 1..Len(stream) : Deliver(s) \/ LoseDelivery(s) \/ AckWaitExpires(s)

HandleEvent ==
  \/ HandleCreated(Current)
  \/ HandleDeletion(Current)
  \/ HandleUpdated(Current)

Handler ==
  \/ FetchEnds
  \/ HandleEvent
  \/ StartSkips
  \/ \E t \in Tasks : Deploy(t)
  \/ StoreHandle
  \/ StopReturns
  \/ Ack
  \/ LoseAck

Subscribers == \E t \in Tasks : TaskStops(t) \/ TaskGivesUp(t)

Process ==
  \/ LaunchGateways
  \/ \E g \in Gateways : LaunchNext(g)
  \/ StartConsumer
  \/ StopConsumer
  \/ CancelTasks
  \/ Exit
  \/ Crash

Next == Api \/ CdcWorker \/ JetStream \/ Handler \/ Subscribers \/ Process

Spec == Init /\ [][Next]_vars

(***************************************************************************)
(* Fairness.  The CDC worker, the server and the handler keep running while *)
(* the process is up, a cancelled task sees its token, and the supervisor   *)
(* restarts the process.  Nothing makes the API change a row, and no fault  *)
(* has to happen.                                                           *)
(***************************************************************************)
Fairness ==
  /\ WF_vars(CopyTable)
  /\ WF_vars(PublishChange)
  /\ WF_vars(\E s \in 1..Len(stream) : Deliver(s))
  /\ \A s \in 1..MaxChanges : WF_vars(AckWaitExpires(s))
  /\ WF_vars(FetchEnds)
  /\ WF_vars(HandleEvent)
  /\ WF_vars(StartSkips)
  /\ WF_vars(\E t \in Tasks : Deploy(t))
  /\ WF_vars(StoreHandle)
  /\ WF_vars(StopReturns)
  /\ WF_vars(Ack)
  /\ \A t \in Tasks : WF_vars(TaskStops(t))
  /\ WF_vars(LaunchGateways)
  /\ WF_vars(\E g \in Gateways : LaunchNext(g))
  /\ WF_vars(StartConsumer)
  /\ WF_vars(CancelTasks)
  /\ WF_vars(Exit)

FairSpec == Spec /\ Fairness

-----------------------------------------------------------------------------
TypeOK ==
  /\ rows \in [Gateways -> Configs \cup {Absent, Deleted}]
  /\ wal \in Seq(Event)
  /\ copied \in BOOLEAN
  /\ missed \subseteq Gateways
  /\ stream \in Seq(Event)
  /\ nextSeq \in 1..(Len(stream) + 1)
  /\ unacked \subseteq 1..(nextSeq - 1)
  /\ redeliver \subseteq unacked
  /\ phase \in Phases
  /\ todo \subseteq {g \in Gateways : rows[g] \in Configs}
  /\ batch \in Seq(Nat)
  /\ \A i \in 1..Len(batch) : batch[i] \in 1..Len(stream)
  /\ step \in Steps
  /\ job \in Job \cup {NoJob}
  /\ held \in Tasks \cup {NoTask}
  /\ DOMAIN handles \subseteq Gateways
  /\ handles \in [DOMAIN handles -> Handle]
  /\ DOMAIN tasks \subseteq Tasks
  /\ tasks \in [DOMAIN tasks -> Task]
  /\ shutdownToken \in BOOLEAN
  /\ changes \in 0..MaxChanges
  /\ faults \in 0..MaxFaults

\* The subscribers of a gateway that nothing has told to stop.
Subscribed(g) ==
  {t \in DOMAIN tasks : tasks[t].gw = g /\ ~tasks[t].cancelled}

\* A subscriber that nothing has told to stop can be told: its handle is in the
\* store, or start_gateway_process still owns it, or main is about to cancel
\* all tasks.  Otherwise a deleted gateway would be subscribed to until the
\* process ends (exists, deploy, upsert, remove and cancel are separate steps).
NoOrphan ==
  \A t \in DOMAIN tasks :
    ~tasks[t].cancelled =>
      \/ /\ Exists(tasks[t].gw)
         /\ handles[tasks[t].gw].task = t
      \/ step = "deployed" /\ held = t
      \/ phase = "closing"

\* A gateway has at most one subscriber that nothing has told to stop, though
\* those cancelled earlier may outlive wait_for_stop and overlap with it.
OneSubscriber ==
  \A g \in Gateways : \A t, u \in Subscribed(g) : t = u

\* A handle in the store speaks of its own gateway and of the configuration the
\* task runs with, and its task is never one that was cancelled: an update
\* compares the hash in the handle, and would take a dead task for a live one.
HandleIsTrue ==
  \A g \in DOMAIN handles :
    LET h == handles[g] IN
      h.task \in DOMAIN tasks =>
        tasks[h.task] = [gw |-> g, config |-> h.config, cancelled |-> FALSE]

\* The table is copied, and what was committed since is handled and acknowledged.
Quiescent ==
  /\ phase = "consuming"
  /\ copied
  /\ step = "fetch"
  /\ batch = <<>>
  /\ wal = <<>>
  /\ nextSeq = Len(stream) + 1
  /\ unacked = {}

\* The configurations that the subscribers of a gateway run with.
Running(g) == {tasks[t].config : t \in Subscribed(g)}

\* What the row asks for.  Nobody heard of a gateway whose last change was missed.
Wanted(g) == IF rows[g] \in Configs /\ g \notin missed THEN {rows[g]} ELSE {}

\* docs/modules/gateway-orchestrator.md: "maintains a 1:1 mapping between gateway
\* database records and long-running MQTT subscriber processes".  What the code
\* keeps of it: as long as no fault happens the subscribers are those of the live
\* rows, with their configurations, whenever nothing is left to do, except that a
\* gateway which was last written before the CDC worker copied the table has none.
\* Subscribers that outlive wait_for_stop do not break it.
OneToOneWithoutFaults ==
  faults = 0 /\ Quiescent => \A g \in Gateways : Running(g) = Wanted(g)

\* The handle of g speaks of a task that used up its retries or panicked.
GaveUp(g) ==
  "giveUp" \in Faults /\ Exists(g) /\ handles[g].task \notin DOMAIN tasks

\* Whatever was redelivered, lost or restarted, a live row has a subscriber once
\* nothing is left to do, for two reasons not to: its last change since the launch
\* was not published, or its subscriber gave up.  The configuration may be an
\* earlier one of the row.
NoForgottenGateway ==
  Quiescent =>
    \A g \in Gateways :
      rows[g] \in Configs => Running(g) # {} \/ g \in missed \/ GaveUp(g)

\* The acknowledgement of a message follows its effect on the handle store: a
\* created or updated gateway has a handle, an updated one with the event's
\* configuration, and a deleted one has none.  A crash before the
\* acknowledgement repeats the event, and never skips it.
Applied(e) ==
  IF IsDeletion(e) THEN ~Exists(e.gw)
  ELSE Exists(e.gw) /\ (e.kind = "updated" => handles[e.gw].config = e.row)

AckedAfterEffect ==
  [][\A s \in unacked \ unacked' : Applied(stream[s])]_vars

\* The changes that were published or will be, in the order of their commits.
Log == stream \o wal

\* The first change whose message is not acknowledged.
FirstUnacked == nextSeq - Len(batch)

\* The orchestrator as one that serves the gateways as their changes say:
\* subscribers that were told to stop and are still running do not count.
Disturbed == faults > 0

Followed == IF faults = 0 THEN FirstUnacked - 1 ELSE 0

ServedNow == [g \in Gateways |-> Running(g)]

Served == INSTANCE ServedGateways WITH
  log <- Log,
  followed <- Followed,
  served <- ServedNow,
  watched <- copied,
  disturbed <- Disturbed,
  Change <- Event

\* As long as nothing is disturbed the changes committed after the copy of the
\* table take effect one by one, and those before it have none; they do so
\* in their order and each on its own gateway, what runs as it should is not
\* restarted, and what ran before ends first; after a fault a gateway still
\* runs with one configuration at most, one that the row has or that a change
\* speaks of (the handlers of GatewayOrchestrationService, launch_gateways).
ServesGateways == Served!Spec

\* Without faults the subscribers settle on the live rows once the API stops
\* writing, those aside that were last written before the copy.
Settles ==
  [](faults = 0) => <>[](\A g \in Gateways : Running(g) = Wanted(g))

\* Every published change is handled and acknowledged, whatever is redelivered,
\* lost or restarted.
EventuallyAcked ==
  \A s \in 1..MaxChanges :
    s <= Len(stream) ~> (s < nextSeq /\ s \notin unacked)

-----------------------------------------------------------------------------
(***************************************************************************)
(* The inductive invariant behind NoOrphan, OneSubscriber, HandleIsTrue and *)
(* AckedAfterEffect: where the handler stands, what it holds and what the   *)
(* message it works on asked for.                                           *)
(***************************************************************************)
AtWork == step \in {"start", "deployed", "waiting"}

StepInv ==
  /\ AtWork => job \in Job
  /\ step \in {"start", "deployed"} => /\ phase \in {"launching", "consuming"}
                                      /\ job.want \in Configs
  /\ step \in {"fetch", "waiting", "done"} => phase = "consuming"
  /\ phase # "launching" => todo = {}

DeployedInv ==
  step = "deployed" =>
    /\ held \in Tasks
    /\ ~Exists(job.gw)
    /\ \A g \in DOMAIN handles : handles[g].task # held
    /\ held \in DOMAIN tasks =>
         tasks[held] = [gw |-> job.gw, config |-> job.want, cancelled |-> FALSE]

\* The job is the one the current message asks for.
JobInv ==
  phase = "consuming" /\ AtWork =>
    /\ batch # <<>>
    /\ job.gw = Current.gw
    /\ IF IsDeletion(Current) THEN job.want = Deleted ELSE job.want = Current.row
    /\ step = "waiting" \/ Current.kind = "updated" => ~Exists(job.gw)

DoneInv == step = "done" => batch # <<>> /\ Applied(Current)

TaskInv == DeployedInv /\ NoOrphan /\ OneSubscriber /\ HandleIsTrue

IInv == TypeOK /\ StepInv /\ TaskInv /\ JobInv /\ DoneInv

-----------------------------------------------------------------------------
(***************************************************************************)
(* The part of the inductive invariant behind NoForgottenGateway.  A live   *)
(* row without a handle is still to be dealt with (the launch has yet to    *)
(* come to it, the handler is at work on it, or an event of it is on the    *)
(* way) or was missed.  A handle, unless its task gave up, has a task.      *)
(***************************************************************************)
DeletedInv ==
  /\ \A i \in 1..Len(stream) : IsDeletion(stream[i]) => rows[stream[i].gw] = Deleted
  /\ \A i \in 1..Len(wal) : IsDeletion(wal[i]) => rows[wal[i].gw] = Deleted

\* An event of the gateway is not published, not delivered or not acknowledged.
Pending(g) ==
  \/ \E i \in 1..Len(wal) : wal[i].gw = g
  \/ \E s \in nextSeq..Len(stream) : stream[s].gw = g
  \/ \E s \in unacked : stream[s].gw = g

TrackedInv ==
  \A g \in Gateways :
    rows[g] \in Configs =>
      \/ phase \in {"down", "closing"}
      \/ phase = "launching" /\ g \in todo
      \/ phase = "consuming" /\ Pending(g)
      \/ AtWork /\ job.gw = g
      \/ Exists(g)
      \/ g \in missed

AliveInv ==
  /\ shutdownToken => phase = "closing"
  /\ ("giveUp" \notin Faults \/ faults = 0) /\ ~shutdownToken =>
       /\ \A g \in DOMAIN handles : handles[g].task \in DOMAIN tasks
       /\ step = "deployed" => held \in DOMAIN tasks

(***************************************************************************)
(* The part behind OneToOneWithoutFaults.  As long as no fault happens the  *)
(* changes of a row are handled in the order they were committed in, each   *)
(* once, and the handle store follows them.                                 *)
(***************************************************************************)
\* No process of the system was ever restarted.
FirstLifeInv ==
  /\ phase \in {"down", "launching", "consuming"}
  /\ ~copied => Log = <<>>
  /\ phase # "consuming" =>
       /\ rows = [g \in Gateways |-> Absent]
       /\ Log = <<>> /\ nextSeq = 1 /\ batch = <<>>
       /\ DOMAIN handles = {} /\ step = "next"

\* A row is what its last change made it, and its creation is its first one;
\* those of the first life that are missed come before all of Log.
LogInv ==
  /\ \A g \in missed : \A i \in 1..Len(stream) : stream[i].gw # g
  /\ \A g \in Gateways :
       \/ /\ rows[g] = Absent \/ g \in missed
          /\ \A i \in 1..Len(Log) : Log[i].gw # g
       \/ \E i \in 1..Len(Log) :
            /\ Log[i].gw = g /\ Log[i].row = rows[g]
            /\ \A j \in (i + 1)..Len(Log) : Log[j].gw # g
  /\ \A i \in 1..Len(Log) :
       Log[i].kind = "created" => \A j \in 1..(i - 1) : Log[j].gw # Log[i].gw

\* The messages come in the order of the stream, and none comes twice.
OrderInv ==
  /\ \A i \in 1..Len(batch) : batch[i] = FirstUnacked + i - 1
  /\ unacked = FirstUnacked..(nextSeq - 1)
  /\ step = "fetch" => redeliver = {}
  /\ phase = "consuming" /\ step = "next" => batch # <<>>

\* The handle store is what the first n changes make of it, as far as g goes.
Follows(n, g) ==
  IF \E i \in 1..n : stream[i].gw = g
  THEN \A i \in 1..n :
         stream[i].gw = g /\ (\A j \in (i + 1)..n : stream[j].gw # g) =>
           IF stream[i].row = Deleted THEN ~Exists(g)
           ELSE Exists(g) /\ handles[g].config = stream[i].row
  ELSE ~Exists(g)

FollowInv ==
  phase = "consuming" =>
    /\ \A g \in Gateways :
         step \in {"fetch", "next"} \/ g # Current.gw => Follows(FirstUnacked - 1, g)
    /\ step = "done" => Follows(FirstUnacked, Current.gw)
    /\ AtWork => ~Exists(job.gw)

NoFaultInv ==
  faults = 0 => FirstLifeInv /\ LogInv /\ OrderInv /\ FollowInv

RowInv == DeletedInv /\ TrackedInv /\ AliveInv /\ NoFaultInv

\* What the launch starts is what the table says: no row changes until it is over.
LaunchInv ==
  phase = "launching" /\ AtWork => step # "waiting" /\ rows[job.gw] = job.want
=============================================================================
