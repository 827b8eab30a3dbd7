---------------------- MODULE GatewayOrchestratorProofs ----------------------
(***************************************************************************)
(* Proofs about GatewayOrchestrator for every set of gateways, of           *)
(* configurations and of task identities, and for every bound.              *)
(***************************************************************************)
EXTENDS GatewayOrchestrator, SequenceTheorems, TLAPS

(***************************************************************************)
(* Type correctness.                                                        *)
(***************************************************************************)

\* The event of a write is a change event, and the write keeps the types.
LEMMA WriteType ==
  ASSUME TypeOK, StepInv, NEW g \in Gateways, NEW kind, NEW row \in Configs \cup {Deleted},
         [kind |-> kind, gw |-> g, row |-> row] \in Event,
         Write(kind, g, row)
  PROVE  TypeOK'
<1>1. rows' \in [Gateways -> Configs \cup {Absent, Deleted}]
  BY DEF TypeOK, Write
<1>2. wal' \in Seq(Event) /\ missed' \subseteq Gateways
  <2>1. CASE copied
    <3>1. missed' = missed /\ wal' = Append(wal, [kind |-> kind, gw |-> g, row |-> row])
      BY <2>1 DEF Write, Replicate
    <3>2. wal' \in Seq(Event)
      BY <3>1 DEF TypeOK
    <3>. QED
      BY <3>1, <3>2 DEF TypeOK
  <2>2. CASE ~copied
    <3>1. wal' = wal /\ missed' = missed \cup {g}
      BY <2>2 DEF Write, Replicate
    <3>. QED
      BY <3>1 DEF TypeOK
  <2>. QED
    BY <2>1, <2>2
<1>3. changes' \in 0..MaxChanges
  BY BoundsAssumption DEF TypeOK, Write
<1>4. todo' \subseteq {h \in Gateways : rows'[h] \in Configs}
  BY DEF StepInv, Write, Serving
<1>. QED
  BY <1>1, <1>2, <1>3, <1>4
  DEF TypeOK, Write, streamVars, handlerVars

LEMMA SendType ==
  ASSUME TypeOK, NEW s \in 1..Len(stream), SendToConsumer(s)
  PROVE  /\ nextSeq' \in 1..(Len(stream') + 1)
         /\ unacked' \subseteq 1..(nextSeq' - 1)
         /\ redeliver' \subseteq unacked'
BY DEF TypeOK, SendToConsumer, Redelivery, Delivery

\* The operators on the handle store and on the tasks keep their types.
LEMMA StoreTypes ==
  ASSUME TypeOK
  PROVE  /\ \A g \in Gateways, h \in Handle :
              Upsert(g, h) => /\ DOMAIN handles' \subseteq Gateways
                              /\ handles' \in [DOMAIN handles' -> Handle]
         /\ \A g \in Gateways :
              Remove(g) => /\ DOMAIN handles' \subseteq Gateways
                           /\ handles' \in [DOMAIN handles' -> Handle]
         /\ \A t \in Tasks, r \in Task :
              Spawn(t, r) => /\ DOMAIN tasks' \subseteq Tasks
                             /\ tasks' \in [DOMAIN tasks' -> Task]
         /\ \A t \in Tasks :
              Cancel(t) \/ Forget(t) => /\ DOMAIN tasks' \subseteq Tasks
                                        /\ tasks' \in [DOMAIN tasks' -> Task]
<1>1. ASSUME NEW g \in Gateways, NEW h \in Handle, Upsert(g, h)
      PROVE  /\ DOMAIN handles' \subseteq Gateways
             /\ handles' \in [DOMAIN handles' -> Handle]
  BY <1>1 DEF TypeOK, Upsert
<1>2. ASSUME NEW g \in Gateways, Remove(g)
      PROVE  /\ DOMAIN handles' \subseteq Gateways
             /\ handles' \in [DOMAIN handles' -> Handle]
  BY <1>2 DEF TypeOK, Remove
<1>3. ASSUME NEW t \in Tasks, NEW r \in Task, Spawn(t, r)
      PROVE  /\ DOMAIN tasks' \subseteq Tasks
             /\ tasks' \in [DOMAIN tasks' -> Task]
  BY <1>3 DEF TypeOK, Spawn
<1>4. ASSUME NEW t \in Tasks, Cancel(t)
      PROVE  /\ DOMAIN tasks' \subseteq Tasks
             /\ tasks' \in [DOMAIN tasks' -> Task]
  BY <1>4 DEF TypeOK, Cancel, Task
<1>5. ASSUME NEW t \in Tasks, Forget(t)
      PROVE  /\ DOMAIN tasks' \subseteq Tasks
             /\ tasks' \in [DOMAIN tasks' -> Task]
  BY <1>5 DEF TypeOK, Forget
<1>. QED
  BY <1>1, <1>2, <1>3, <1>4, <1>5

\* The message at the head of the batch is a change event.
LEMMA CurrentType ==
  ASSUME TypeOK, batch # <<>>
  PROVE  Current \in Event /\ Head(batch) \in 1..Len(stream)
<1>1. 1 \in 1..Len(batch) /\ Head(batch) = batch[1]
  BY DEF TypeOK
<1>2. Head(batch) \in 1..Len(stream)
  BY <1>1 DEF TypeOK
<1>. QED
  BY <1>2 DEF TypeOK, Current

\* What the handler does with an event keeps the types.
LEMMA HandleType ==
  ASSUME TypeOK, HandleEvent
  PROVE  TypeOK'
<1>. DEFINE e == Current
<1>1. Handling /\ e \in Event
  BY CurrentType DEF HandleEvent, Handling, HandleCreated, HandleDeletion,
                     HandleUpdated
<1>2. e.gw \in Gateways /\ e.row \in Configs \cup {Deleted}
  BY <1>1 DEF Event
<1>. HIDE DEF e
<1>3. ASSUME NEW want \in Configs \cup {Deleted}, Stop(e.gw, want)
      PROVE  TypeOK'
  <2>1. handles[e.gw] \in Handle /\ handles[e.gw].task \in Tasks
    BY <1>3 DEF TypeOK, Stop, Exists, Handle
  <2>2. /\ DOMAIN handles' \subseteq Gateways
        /\ handles' \in [DOMAIN handles' -> Handle]
        /\ DOMAIN tasks' \subseteq Tasks
        /\ tasks' \in [DOMAIN tasks' -> Task]
    BY <1>2, <1>3, <2>1, StoreTypes DEF Stop
  <2>3. job' \in Job \cup {NoJob} /\ held' \in Tasks \cup {NoTask} /\ step' \in Steps
    BY <1>2, <1>3, <2>1 DEF Stop, Job, Steps
  <2>. QED
    BY <1>1, <2>2, <2>3 DEF TypeOK, Handling, dbVars, cdcVars, streamVars
<1>4. ASSUME NEW s \in Steps, NEW j \in Job \cup {NoJob}, Proceed(s, j)
      PROVE  TypeOK'
  BY <1>1, <1>4 DEF TypeOK, Handling, Proceed, dbVars, cdcVars, streamVars
<1>5. [gw |-> e.gw, want |-> e.row] \in Job
  BY <1>2 DEF Job
<1>6. \/ Proceed("start", [gw |-> e.gw, want |-> e.row])
      \/ Stop(e.gw, Deleted)
      \/ Stop(e.gw, e.row)
      \/ Proceed("done", NoJob)
  BY DEF HandleEvent, HandleCreated, HandleDeletion, HandleUpdated, e
<1>. QED
  BY <1>2, <1>3, <1>4, <1>5, <1>6 DEF Steps

LEMMA TypeNext ==
  ASSUME TypeOK, StepInv, DeployedInv, DoneInv, [Next]_vars
  PROVE  TypeOK'
<1>1. ASSUME NEW g \in Gateways, NEW c \in Configs,
             CreateGateway(g, c) \/ UpdateGateway(g, c)
      PROVE  TypeOK'
  BY <1>1, WriteType DEF CreateGateway, UpdateGateway, Event
<1>2. ASSUME NEW g \in Gateways, DeleteGateway(g)
      PROVE  TypeOK'
  BY <1>2, WriteType DEF DeleteGateway, Event
<1>3. CASE PublishChange
  <2>1. stream' \in Seq(Event) /\ Len(stream') = Len(stream) + 1 /\ wal' \in Seq(Event)
    BY <1>3 DEF TypeOK, PublishChange
  <2>. QED
    BY <1>3, <2>1 DEF TypeOK, PublishChange, dbVars, handlerVars
<1>4. CASE SkipChange
  <2>1. Head(wal).gw \in Gateways /\ wal' \in Seq(Event)
    BY <1>4 DEF TypeOK, SkipChange, Event
  <2>2. faults' \in 0..MaxFaults
    BY <1>4, BoundsAssumption DEF TypeOK, SkipChange, Fault
  <2>. QED
    BY <1>4, <2>1, <2>2 DEF TypeOK, SkipChange, dbVars, streamVars, handlerVars
<1>5. ASSUME NEW s \in 1..Len(stream), Deliver(s)
      PROVE  TypeOK'
  <2>1. /\ batch' \in Seq(Nat)
        /\ \A i \in 1..Len(batch') : batch'[i] \in 1..Len(stream)
    BY <1>5 DEF TypeOK, Deliver
  <2>. QED
    BY <1>5, <2>1, SendType DEF TypeOK, Deliver, SendToConsumer, dbVars, cdcVars, handlerVars
<1>6. ASSUME NEW s \in 1..Len(stream), LoseDelivery(s)
      PROVE  TypeOK'
  <2>1. faults' \in 0..MaxFaults
    BY <1>6, BoundsAssumption DEF TypeOK, LoseDelivery, Fault
  <2>2. SendToConsumer(s) /\ batch' = batch
    BY <1>6 DEF LoseDelivery
  <2>. QED
    BY <2>1, <2>2, SendType DEF TypeOK, SendToConsumer, dbVars, cdcVars, handlerVars
<1>7. ASSUME NEW s \in 1..Len(stream), AckWaitExpires(s)
      PROVE  TypeOK'
  BY <1>7 DEF TypeOK, AckWaitExpires, dbVars, cdcVars, handlerVars
<1>8. CASE FetchEnds
  BY <1>8 DEF TypeOK, FetchEnds, Steps, dbVars, cdcVars, streamVars
<1>9. CASE HandleEvent
  BY <1>9, HandleType
<1>10. CASE StartSkips
  BY <1>10 DEF TypeOK, StartSkips, Returned, Steps, dbVars, cdcVars, streamVars
<1>11. ASSUME NEW t \in Tasks, Deploy(t)
       PROVE  TypeOK'
  <2>1. [gw |-> job.gw, config |-> job.want, cancelled |-> FALSE] \in Task
    BY <1>11 DEF Deploy, StepInv, AtWork, Job, Task
  <2>2. DOMAIN tasks' \subseteq Tasks /\ tasks' \in [DOMAIN tasks' -> Task]
    BY <1>11, <2>1, StoreTypes DEF Deploy
  <2>. QED
    BY <1>11, <2>2 DEF TypeOK, Deploy, Steps, dbVars, cdcVars, streamVars
<1>12. CASE StoreHandle
  <2>1. job.gw \in Gateways /\ [task |-> held, config |-> job.want] \in Handle
    BY <1>12 DEF StoreHandle, StepInv, AtWork, DeployedInv, Job, Handle
  <2>2. DOMAIN handles' \subseteq Gateways /\ handles' \in [DOMAIN handles' -> Handle]
    BY <1>12, <2>1, StoreTypes DEF StoreHandle
  <2>. QED
    BY <1>12, <2>2 DEF TypeOK, StoreHandle, Returned, Steps, dbVars, cdcVars, streamVars
<1>13. CASE StopReturns
  BY <1>13 DEF TypeOK, StopReturns, Steps, dbVars, cdcVars, streamVars
<1>14. CASE NextMessage /\ unacked' \subseteq unacked /\ redeliver' \subseteq unacked'
                        /\ faults' \in 0..MaxFaults
  <2>1. batch # <<>>
    BY <1>14 DEF NextMessage, DoneInv
  <2>2. /\ batch' \in Seq(Nat)
        /\ \A i \in 1..Len(batch') : batch'[i] \in 1..Len(stream)
    <3>1. batch' = Tail(batch) /\ stream' = stream /\ batch \in Seq(Nat)
      BY <1>14 DEF TypeOK, NextMessage
    <3>2. /\ Tail(batch) \in Seq(Nat)
          /\ Len(Tail(batch)) = Len(batch) - 1
          /\ \A i \in 1..Len(Tail(batch)) : Tail(batch)[i] = batch[i + 1]
      BY <2>1, <3>1, HeadTailProperties
    <3>3. Len(batch) \in Nat
      BY <3>1
    <3>4. \A i \in 1..Len(Tail(batch)) : i + 1 \in 1..Len(batch)
      BY <3>2, <3>3
    <3>. QED
      BY <3>1, <3>2, <3>4 DEF TypeOK
  <2>. QED
    BY <1>14, <2>2 DEF TypeOK, NextMessage, Steps, dbVars, cdcVars
<1>15. CASE Ack
  BY <1>14, <1>15 DEF TypeOK, Ack
<1>16. CASE LoseAck
  <2>1. faults' \in 0..MaxFaults
    BY <1>16, BoundsAssumption DEF TypeOK, LoseAck, Fault
  <2>. QED
    BY <1>14, <1>16, <2>1 DEF TypeOK, LoseAck
<1>17. ASSUME NEW t \in Tasks, TaskStops(t) \/ TaskGivesUp(t)
       PROVE  TypeOK'
  <2>1. DOMAIN tasks' \subseteq Tasks /\ tasks' \in [DOMAIN tasks' -> Task]
    BY <1>17, StoreTypes DEF TaskStops, TaskGivesUp
  <2>. QED
    BY <1>17, <2>1, BoundsAssumption
    DEF TypeOK, TaskStops, TaskGivesUp, Fault, dbVars, cdcVars, streamVars, handlerVars
<1>18. CASE LaunchGateways
  BY <1>18 DEF TypeOK, LaunchGateways, Phases, dbVars, cdcVars, streamVars, handlerVars
<1>19. ASSUME NEW g \in Gateways, LaunchNext(g)
       PROVE  TypeOK'
  <2>1. [gw |-> g, want |-> rows[g]] \in Job
    BY <1>19 DEF TypeOK, LaunchNext, Job
  <2>. QED
    BY <1>19, <2>1 DEF TypeOK, LaunchNext, Proceed, Steps, dbVars, cdcVars, streamVars
<1>20. CASE StartConsumer
  BY <1>20 DEF TypeOK, StartConsumer, Phases, Steps, dbVars, cdcVars, streamVars
<1>21. CASE StopConsumer
  BY <1>21, BoundsAssumption
  DEF TypeOK, StopConsumer, Fault, Phases, Steps, dbVars, cdcVars, streamVars
<1>22. CASE CancelTasks
  BY <1>22 DEF TypeOK, CancelTasks, dbVars, cdcVars, streamVars, handlerVars
<1>23. CASE Terminate /\ faults' \in 0..MaxFaults
  <2>1. DOMAIN EmptyMap = {} /\ EmptyMap \in [{} -> Handle] /\ EmptyMap \in [{} -> Task]
    BY DEF EmptyMap
  <2>2. /\ DOMAIN handles' \subseteq Gateways
        /\ handles' \in [DOMAIN handles' -> Handle]
        /\ DOMAIN tasks' \subseteq Tasks
        /\ tasks' \in [DOMAIN tasks' -> Task]
    BY <1>23, <2>1 DEF Terminate
  <2>3. batch' \in Seq(Nat) /\ \A i \in 1..Len(batch') : batch'[i] \in 1..Len(stream')
    BY <1>23 DEF Terminate
  <2>4. UNCHANGED <<rows, changes, stream, nextSeq, unacked, redeliver>>
    BY <1>23 DEF Terminate, dbVars, streamVars
  <2>6. wal' = <<>> /\ copied' = FALSE /\ missed' = {}
    BY <1>23 DEF Terminate
  <2>7. wal' \in Seq(Event) /\ copied' \in BOOLEAN /\ missed' \subseteq Gateways
    <3>1. <<>> \in Seq(Event)
      OBVIOUS
    <3>2. wal' \in Seq(Event)
      BY <2>6, <3>1, Zenon
    <3>3. copied' \in BOOLEAN /\ missed' \subseteq Gateways
      BY <2>6
    <3>. QED
      BY <3>2, <3>3
  <2>5. /\ phase' \in Phases /\ step' \in Steps /\ todo' = {}
        /\ job' \in Job \cup {NoJob} /\ held' \in Tasks \cup {NoTask}
        /\ shutdownToken' \in BOOLEAN
    BY <1>23 DEF Terminate, Phases, Steps
  <2>. QED
    <3>1. nextSeq' \in 1..(Len(stream') + 1) /\ unacked' \subseteq 1..(nextSeq' - 1)
      BY <2>4 DEF TypeOK
    <3>2. /\ rows' \in [Gateways -> Configs \cup {Absent, Deleted}]
          /\ stream' \in Seq(Event) /\ redeliver' \subseteq unacked'
          /\ changes' \in 0..MaxChanges
      BY <2>4 DEF TypeOK
    <3>. QED
      BY <1>23, <2>2, <2>3, <2>5, <2>7, <3>1, <3>2 DEF TypeOK
<1>24. CASE Exit \/ Crash
  <2>1. Terminate /\ (faults' = faults \/ Fault("crash"))
    BY <1>24 DEF Exit, Crash
  <2>2. faults' \in 0..MaxFaults
    BY <2>1, BoundsAssumption DEF TypeOK, Fault
  <2>. QED
    BY <1>23, <2>1, <2>2
<1>25. CASE CopyTable
  BY <1>25 DEF TypeOK, CopyTable, dbVars, streamVars, handlerVars
<1>26. CASE UNCHANGED vars
  BY <1>26 DEF TypeOK, vars, dbVars, cdcVars, streamVars, handlerVars
<1>. QED
  BY <1>1, <1>2, <1>3, <1>4, <1>5, <1>6, <1>7, <1>8, <1>9, <1>10, <1>11,
     <1>12, <1>13, <1>15, <1>16, <1>17, <1>18, <1>19, <1>20, <1>21, <1>22,
     <1>24, <1>25, <1>26
  DEF Next, Api, CdcWorker, JetStream, Handler, Subscribers, Process

(***************************************************************************)
(* Where the handler stands.                                                *)
(***************************************************************************)
LEMMA StepNext ==
  ASSUME TypeOK, StepInv, [Next]_vars
  PROVE  StepInv'
<1>1. ASSUME NEW g \in Gateways, NEW kind, NEW row, Write(kind, g, row)
      PROVE  StepInv'
  BY <1>1 DEF StepInv, Write, AtWork, handlerVars
<1>2. CASE Api
  BY <1>1, <1>2 DEF Api, CreateGateway, UpdateGateway, DeleteGateway
<1>3. CASE CdcWorker
  BY <1>3 DEF CdcWorker, CopyTable, PublishChange, SkipChange, StepInv, AtWork, handlerVars
<1>4. CASE JetStream
  BY <1>4 DEF JetStream, Deliver, LoseDelivery, AckWaitExpires, SendToConsumer,
              StepInv, AtWork, handlerVars
<1>5. CASE FetchEnds
  BY <1>5 DEF FetchEnds, StepInv, AtWork
<1>6. CASE HandleEvent
  <2>1. Handling /\ Current \in Event
    BY <1>6, CurrentType DEF HandleEvent, Handling, HandleCreated,
                             HandleDeletion, HandleUpdated
  <2>2. CASE HandleCreated(Current)
    BY <2>1, <2>2 DEF HandleCreated, Handling, Proceed, StepInv, AtWork, Event, Job
  <2>3. CASE HandleDeletion(Current)
    BY <2>1, <2>3 DEF HandleDeletion, Handling, Stop, Proceed, StepInv, AtWork,
                      Event, Job
  <2>4. CASE HandleUpdated(Current)
    <3>1. Current.gw \in Gateways /\ Current.row \in Configs
      BY <2>1, <2>4 DEF HandleUpdated, IsDeletion, Event
    <3>. QED
      BY <2>1, <2>4, <3>1 DEF HandleUpdated, Handling, Stop, Proceed, StepInv,
                              AtWork, Job
  <2>. QED
    BY <1>6, <2>2, <2>3, <2>4 DEF HandleEvent
<1>7. CASE StartSkips
  BY <1>7 DEF StartSkips, Returned, StepInv, AtWork
<1>8. CASE \E t \in Tasks : Deploy(t)
  BY <1>8 DEF Deploy, StepInv, AtWork
<1>9. CASE StoreHandle
  BY <1>9 DEF StoreHandle, Returned, StepInv, AtWork
<1>10. CASE StopReturns
  BY <1>10 DEF StopReturns, StepInv, AtWork, Job
<1>11. CASE Ack \/ LoseAck
  BY <1>11 DEF Ack, LoseAck, NextMessage, StepInv, AtWork
<1>12. CASE Subscribers
  BY <1>12 DEF Subscribers, TaskStops, TaskGivesUp, StepInv, AtWork, handlerVars
<1>13. CASE LaunchGateways
  BY <1>13 DEF LaunchGateways, StepInv, AtWork, handlerVars
<1>14. ASSUME NEW g \in Gateways, LaunchNext(g)
       PROVE  StepInv'
  <2>1. rows[g] \in Configs
    BY <1>14 DEF TypeOK, LaunchNext
  <2>. QED
    BY <1>14, <2>1 DEF LaunchNext, Proceed, StepInv, AtWork, Job
<1>15. CASE StartConsumer
  BY <1>15 DEF StartConsumer, StepInv, AtWork
<1>16. CASE StopConsumer
  BY <1>16 DEF StopConsumer, StepInv, AtWork
<1>17. CASE CancelTasks
  BY <1>17 DEF CancelTasks, StepInv, AtWork, handlerVars
<1>18. CASE Exit \/ Crash
  BY <1>18 DEF Exit, Crash, Terminate, StepInv, AtWork
<1>19. CASE UNCHANGED vars
  BY <1>19 DEF vars, StepInv, AtWork, handlerVars
<1>. QED
  BY <1>2, <1>3, <1>4, <1>5, <1>6, <1>7, <1>8, <1>9, <1>10, <1>11, <1>12,
     <1>13, <1>14, <1>15, <1>16, <1>17, <1>18, <1>19
  DEF Next, Handler, Process
-----------------------------------------------------------------------------
(***************************************************************************)
(* The subscriber tasks: none is an orphan, none has a living twin, and     *)
(* every handle tells the truth.                                            *)
(***************************************************************************)

\* What a handle says of its task.
LEMMA HandleTruth ==
  ASSUME HandleIsTrue, NEW g \in DOMAIN handles, handles[g].task \in DOMAIN tasks
  PROVE  /\ tasks[handles[g].task].gw = g
         /\ tasks[handles[g].task] =
              [gw |-> g, config |-> handles[g].config, cancelled |-> FALSE]
  BY DEF HandleIsTrue

\* The steps that touch neither the tasks nor the handles.
LEMMA TaskFrame ==
  ASSUME TaskInv, phase' = "closing" <=> phase = "closing",
         UNCHANGED <<handles, tasks>>,
         step = "deployed" \/ step' = "deployed" => UNCHANGED handlerVars
  PROVE  TaskInv'
<1>1. DeployedInv'
  BY DEF TaskInv, DeployedInv, Exists, handlerVars
<1>2. NoOrphan'
  BY DEF TaskInv, NoOrphan, Exists, handlerVars
<1>3. OneSubscriber'
  BY DEF TaskInv, OneSubscriber, Subscribed
<1>4. HandleIsTrue'
  BY DEF TaskInv, HandleIsTrue
<1>. QED
  BY <1>1, <1>2, <1>3, <1>4 DEF TaskInv

LEMMA DeployTask ==
  ASSUME TypeOK, StepInv, TaskInv, NEW t \in Tasks, Deploy(t)
  PROVE  TaskInv'
<1>. DEFINE r == [gw |-> job.gw, config |-> job.want, cancelled |-> FALSE]
<1>1. /\ DOMAIN tasks' = DOMAIN tasks \cup {t}
      /\ tasks'[t] = r
      /\ \A u \in DOMAIN tasks : u # t /\ tasks'[u] = tasks[u]
  BY DEF Deploy, Spawn, Unused
<1>2. /\ ~Exists(job.gw)
      /\ \A g \in DOMAIN handles : handles[g].task # t
      /\ step' = "deployed" /\ held' = t
      /\ UNCHANGED <<handles, job, phase>>
  BY DEF Deploy, Unused
<1>3. phase # "closing" /\ step # "deployed"
  BY DEF Deploy, StepInv
<1>4. DeployedInv'
  BY <1>1, <1>2 DEF DeployedInv, Exists
<1>5. NoOrphan'
  BY <1>1, <1>2, <1>3 DEF TaskInv, NoOrphan, Exists
<1>6. OneSubscriber'
  <2>1. Subscribed(job.gw) = {}
    BY <1>2, <1>3 DEF TaskInv, NoOrphan, Subscribed
  <2>. SUFFICES ASSUME NEW g \in Gateways,
                       NEW u \in Subscribed(g)', NEW v \in Subscribed(g)'
                PROVE  u = v
    BY DEF OneSubscriber
  <2>2. CASE g = job.gw
    BY <1>1, <2>1, <2>2 DEF Subscribed
  <2>3. CASE g # job.gw
    <3>1. u \in Subscribed(g) /\ v \in Subscribed(g)
      BY <1>1, <2>3 DEF Subscribed
    <3>. QED
      BY <3>1 DEF TaskInv, OneSubscriber
  <2>. QED
    BY <2>2, <2>3
<1>7. HandleIsTrue'
  BY <1>1, <1>2 DEF TaskInv, HandleIsTrue
<1>. QED
  BY <1>4, <1>5, <1>6, <1>7 DEF TaskInv

LEMMA StoreHandleTask ==
  ASSUME TypeOK, StepInv, TaskInv, StoreHandle
  PROVE  TaskInv'
<1>1. /\ DOMAIN handles' = DOMAIN handles \cup {job.gw}
      /\ handles'[job.gw] = [task |-> held, config |-> job.want]
      /\ \A g \in DOMAIN handles : g # job.gw => handles'[g] = handles[g]
      /\ step' # "deployed"
      /\ UNCHANGED <<tasks, phase>>
  BY DEF StoreHandle, Upsert, Returned
<1>2. /\ held \in DOMAIN tasks =>
           tasks[held] = [gw |-> job.gw, config |-> job.want, cancelled |-> FALSE]
      /\ ~Exists(job.gw)
  BY DEF StoreHandle, TaskInv, DeployedInv
<1>3. NoOrphan'
  <2>. SUFFICES ASSUME NEW t \in DOMAIN tasks, ~tasks[t].cancelled, phase # "closing"
                PROVE  tasks[t].gw \in DOMAIN handles' /\ handles'[tasks[t].gw].task = t
    BY <1>1 DEF NoOrphan, Exists
  <2>1. CASE t = held
    BY <1>1, <1>2, <2>1
  <2>2. CASE t # held
    BY <1>1, <1>2, <2>2 DEF TaskInv, NoOrphan, Exists
  <2>. QED
    BY <2>1, <2>2
<1>4. OneSubscriber'
  BY <1>1 DEF TaskInv, OneSubscriber, Subscribed
<1>5. HandleIsTrue'
  <2>. SUFFICES ASSUME NEW g \in DOMAIN handles', handles'[g].task \in DOMAIN tasks
                PROVE  tasks[handles'[g].task] =
                         [gw |-> g, config |-> handles'[g].config, cancelled |-> FALSE]
    <3>1. tasks' = tasks
      BY <1>1
    <3>. QED
      BY <3>1, Zenon DEF HandleIsTrue
  <2>1. CASE g = job.gw
    <3>1. handles'[g].task = held /\ handles'[g].config = job.want
      BY <1>1, <2>1
    <3>. QED
      BY <1>2, <2>1, <3>1
  <2>2. CASE g # job.gw
    BY <1>1, <2>2, HandleTruth DEF TaskInv
  <2>. QED
    BY <2>1, <2>2
<1>. QED
  BY <1>1, <1>3, <1>4, <1>5 DEF TaskInv, DeployedInv

LEMMA StopTask ==
  ASSUME TypeOK, TaskInv, NEW g \in Gateways, NEW want, Stop(g, want),
         step # "deployed", UNCHANGED phase
  PROVE  TaskInv'
<1>. DEFINE t == handles[g].task
<1>1. /\ g \in DOMAIN handles
      /\ DOMAIN handles' = DOMAIN handles \ {g}
      /\ \A h \in DOMAIN handles' : handles'[h] = handles[h]
      /\ step' = "waiting"
  BY DEF Stop, Remove, Exists
<1>2. /\ DOMAIN tasks' = DOMAIN tasks
      /\ \A u \in DOMAIN tasks : u # t => tasks'[u] = tasks[u]
      /\ t \in DOMAIN tasks => /\ tasks'[t].cancelled
                               /\ tasks[t].gw = g /\ tasks'[t].gw = g
  <2>1. tasks' = [x \in DOMAIN tasks |->
                    IF x = t THEN [tasks[x] EXCEPT !.cancelled = TRUE] ELSE tasks[x]]
    BY DEF Stop, Cancel
  <2>2. t \in DOMAIN tasks =>
          tasks[t] = [gw |-> g, config |-> handles[g].config, cancelled |-> FALSE]
    BY <1>1, HandleTruth DEF TaskInv
  <2>. QED
    BY <2>1, <2>2
<1>3. NoOrphan'
  BY <1>1, <1>2 DEF TaskInv, NoOrphan, Exists
<1>4. OneSubscriber'
  <2>1. \A h \in Gateways : Subscribed(h)' \subseteq Subscribed(h)
    BY <1>2 DEF Subscribed
  <2>. QED
    BY <2>1 DEF TaskInv, OneSubscriber
<1>5. HandleIsTrue'
  <2>1. \A h \in DOMAIN handles' : handles[h].task \in DOMAIN tasks => handles[h].task # t
    <3>. SUFFICES ASSUME NEW h \in DOMAIN handles', handles[h].task \in DOMAIN tasks,
                         handles[h].task = t
                  PROVE  FALSE
      OBVIOUS
    <3>1. tasks[t].gw = h
      BY <1>1, HandleTruth DEF TaskInv
    <3>. QED
      BY <1>1, <1>2, <3>1
  <2>. QED
    BY <1>1, <1>2, <2>1 DEF TaskInv, HandleIsTrue
<1>. QED
  BY <1>1, <1>3, <1>4, <1>5 DEF TaskInv, DeployedInv

LEMMA ForgetTask ==
  ASSUME TaskInv, NEW t \in Tasks, Forget(t), UNCHANGED <<handlerVars, handles, phase>>
  PROVE  TaskInv'
<1>1. DOMAIN tasks' \subseteq DOMAIN tasks /\ \A u \in DOMAIN tasks' : tasks'[u] = tasks[u]
  BY DEF Forget
<1>2. DeployedInv'
  BY <1>1 DEF TaskInv, DeployedInv, Exists, handlerVars
<1>3. NoOrphan'
  BY <1>1 DEF TaskInv, NoOrphan, Exists, handlerVars
<1>4. OneSubscriber'
  BY <1>1 DEF TaskInv, OneSubscriber, Subscribed
<1>5. HandleIsTrue'
  BY <1>1 DEF TaskInv, HandleIsTrue
<1>. QED
  BY <1>2, <1>3, <1>4, <1>5 DEF TaskInv

LEMMA TaskNext ==
  ASSUME TypeOK, StepInv, TaskInv, [Next]_vars
  PROVE  TaskInv'
<1>1. CASE Api \/ CdcWorker \/ JetStream
  BY <1>1, TaskFrame
  DEF Api, CreateGateway, UpdateGateway, DeleteGateway, Write, CdcWorker,
      CopyTable, PublishChange, SkipChange, JetStream, Deliver, LoseDelivery,
      AckWaitExpires, SendToConsumer
<1>2. CASE FetchEnds \/ StartSkips \/ StopReturns \/ Ack \/ LoseAck
  BY <1>2, TaskFrame
  DEF FetchEnds, StartSkips, Returned, StopReturns, Ack, LoseAck, NextMessage
<1>3. CASE HandleEvent
  <2>1. Handling /\ Current \in Event
    BY <1>3, CurrentType DEF HandleEvent, Handling, HandleCreated,
                             HandleDeletion, HandleUpdated
  <2>2. CASE \E s \in {"start", "done"} : \E j : Proceed(s, j)
    BY <2>1, <2>2, TaskFrame DEF Handling, Proceed
  <2>3. CASE \E want : Stop(Current.gw, want)
    <3>1. Current.gw \in Gateways /\ step # "deployed" /\ UNCHANGED phase
      BY <2>1 DEF Handling, Event
    <3>. QED
      BY <2>3, <3>1, StopTask
  <2>. QED
    BY <1>3, <2>2, <2>3 DEF HandleEvent, HandleCreated, HandleDeletion, HandleUpdated
<1>4. CASE \E t \in Tasks : Deploy(t)
  BY <1>4, DeployTask
<1>5. CASE StoreHandle
  BY <1>5, StoreHandleTask
<1>6. CASE Subscribers
  BY <1>6, ForgetTask DEF Subscribers, TaskStops, TaskGivesUp
<1>7. CASE LaunchGateways \/ (\E g \in Gateways : LaunchNext(g)) \/ StartConsumer \/ CancelTasks
  BY <1>7, TaskFrame
  DEF LaunchGateways, LaunchNext, Proceed, StartConsumer, CancelTasks
<1>8. CASE StopConsumer
  <2>1. phase' = "closing" /\ step' = "next" /\ UNCHANGED <<handles, tasks>>
    BY <1>8 DEF StopConsumer
  <2>. QED
    BY <2>1 DEF TaskInv, DeployedInv, NoOrphan, OneSubscriber, Subscribed,
                HandleIsTrue, Exists
<1>9. CASE Exit \/ Crash
  <2>1. DOMAIN tasks' = {} /\ DOMAIN handles' = {} /\ step' = "next"
    BY <1>9 DEF Exit, Crash, Terminate, EmptyMap
  <2>. QED
    BY <2>1 DEF TaskInv, DeployedInv, NoOrphan, OneSubscriber, Subscribed,
                HandleIsTrue, Exists
<1>10. CASE UNCHANGED vars
  BY <1>10, TaskFrame DEF vars
<1>. QED
  BY <1>1, <1>2, <1>3, <1>4, <1>5, <1>6, <1>7, <1>8, <1>9, <1>10
  DEF Next, Handler, Process
-----------------------------------------------------------------------------
(***************************************************************************)
(* The handler does what the message at the head of its batch asks for, and *)
(* has done it when it comes to the acknowledgement.                        *)
(***************************************************************************)

\* A message keeps its content while it stays at the head of the batch.
LEMMA CurrentKept ==
  ASSUME TypeOK, batch # <<>>, UNCHANGED batch,
         UNCHANGED stream \/ \E e \in Event : stream' = Append(stream, e)
  PROVE  Current' = Current
<1>1. Head(batch) \in 1..Len(stream)
  BY CurrentType
<1>2. ASSUME NEW e \in Event, stream' = Append(stream, e)
      PROVE  stream'[Head(batch)] = stream[Head(batch)]
  BY <1>1, <1>2 DEF TypeOK
<1>. QED
  BY <1>2 DEF Current

\* The steps of the API, the CDC worker, the server and the tasks.
LEMMA WorkFrame ==
  ASSUME TypeOK, JobInv, DoneInv, UNCHANGED <<phase, handlerVars, handles>>,
         UNCHANGED batch \/ step = "fetch",
         UNCHANGED stream \/ \E e \in Event : stream' = Append(stream, e)
  PROVE  JobInv' /\ DoneInv'
<1>1. CASE step = "fetch"
  BY <1>1 DEF JobInv, DoneInv, AtWork, handlerVars
<1>2. CASE UNCHANGED batch
  <2>1. batch # <<>> => Current' = Current
    BY <1>2, CurrentKept
  <2>2. JobInv'
    BY <1>2, <2>1 DEF JobInv, AtWork, IsDeletion, Exists, handlerVars
  <2>3. DoneInv'
    BY <1>2, <2>1 DEF DoneInv, Applied, IsDeletion, Exists, handlerVars
  <2>. QED
    BY <2>2, <2>3
<1>. QED
  BY <1>1, <1>2

LEMMA WorkNext ==
  ASSUME TypeOK, StepInv, TaskInv, JobInv, DoneInv, [Next]_vars
  PROVE  JobInv' /\ DoneInv'
<1>1. CASE Api \/ CdcWorker \/ JetStream \/ Subscribers \/ CancelTasks
  <2>1. CASE PublishChange
    <3>1. Head(wal) \in Event
      BY <2>1 DEF PublishChange, TypeOK
    <3>. QED
      BY <2>1, <3>1, WorkFrame DEF PublishChange
  <2>2. CASE ~PublishChange
    BY <1>1, <2>2, WorkFrame
    DEF Api, CreateGateway, UpdateGateway, DeleteGateway, Write, CdcWorker,
        CopyTable, SkipChange, JetStream, Deliver, LoseDelivery, AckWaitExpires, Fetching,
        SendToConsumer, Subscribers, TaskStops, TaskGivesUp, CancelTasks, streamVars
  <2>. QED
    BY <2>1, <2>2
<1>2. CASE FetchEnds \/ Ack \/ LoseAck \/ StopConsumer \/ Exit \/ Crash
  BY <1>2 DEF FetchEnds, Ack, LoseAck, NextMessage, StopConsumer, Exit, Crash,
              Terminate, JobInv, DoneInv, AtWork
<1>3. CASE HandleEvent
  <2>1. /\ Handling /\ Current \in Event /\ Current' = Current
        /\ UNCHANGED <<batch, phase>> /\ batch # <<>>
    BY <1>3, CurrentType
    DEF HandleEvent, Handling, HandleCreated, HandleDeletion, HandleUpdated,
        streamVars, Current
  <2>2. CASE HandleCreated(Current)
    BY <2>1, <2>2 DEF HandleCreated, Proceed, JobInv, DoneInv, AtWork, IsDeletion
  <2>3. CASE HandleDeletion(Current)
    BY <2>1, <2>3 DEF HandleDeletion, Stop, Remove, Proceed, JobInv, DoneInv,
                      AtWork, IsDeletion, Exists, Applied
  <2>4. CASE HandleUpdated(Current)
    BY <2>1, <2>4 DEF HandleUpdated, Stop, Remove, Proceed, JobInv, DoneInv,
                      AtWork, IsDeletion, Exists, Applied, ConfigChanged
  <2>. QED
    BY <1>3, <2>2, <2>3, <2>4 DEF HandleEvent
<1>4. CASE StartSkips \/ StoreHandle \/ StopReturns \/ (\E t \in Tasks : Deploy(t))
  <2>1. UNCHANGED <<batch, phase>> /\ Current' = Current /\ AtWork
    BY <1>4 DEF StartSkips, StoreHandle, StopReturns, Deploy, streamVars, Current, AtWork
  <2>2. phase = "launching" \/ phase = "consuming"
    BY <1>4 DEF StartSkips, StoreHandle, StopReturns, Deploy, StepInv
  <2>3. CASE StartSkips
    BY <2>1, <2>2, <2>3, RowsAssumption DEF StartSkips, Returned, StepInv, JobInv, DoneInv, AtWork,
                            Applied, Exists
  <2>4. CASE StoreHandle
    <3>1. /\ step = "deployed" /\ job.want # Deleted
          /\ step' \in {"next", "done"} /\ (step' = "done" => phase = "consuming")
          /\ job.gw \in DOMAIN handles' /\ handles'[job.gw].config = job.want
      BY <2>2, <2>4, RowsAssumption DEF StoreHandle, Upsert, Returned, StepInv
    <3>2. phase = "consuming" =>
            /\ batch # <<>> /\ job.gw = Current.gw
            /\ ~IsDeletion(Current) /\ job.want = Current.row
      BY <2>1, <3>1 DEF JobInv
    <3>3. phase = "consuming" => Applied(Current)'
      BY <2>1, <3>1, <3>2 DEF Applied, IsDeletion, Exists
    <3>. QED
      BY <2>1, <3>1, <3>2, <3>3 DEF JobInv, DoneInv, AtWork
  <2>5. CASE StopReturns
    <3>1. /\ phase = "consuming" /\ batch # <<>> /\ ~Exists(job.gw)
          /\ job.gw = Current.gw
          /\ IF IsDeletion(Current) THEN job.want = Deleted ELSE job.want = Current.row
      BY <2>5 DEF StopReturns, StepInv, JobInv, AtWork
    <3>2. Current \in Event
      BY <3>1, CurrentType
    <3>3. CASE IsDeletion(Current)
      BY <2>1, <2>5, <3>1, <3>3 DEF StopReturns, JobInv, DoneInv, AtWork, Applied,
                                    IsDeletion, Exists
    <3>4. CASE ~IsDeletion(Current)
      <4>1. job.want # Deleted
        BY <3>1, <3>2, <3>4, RowsAssumption DEF Event, IsDeletion
      <4>. QED
        BY <2>1, <2>5, <3>1, <3>4, <4>1 DEF StopReturns, JobInv, DoneInv, AtWork,
                                            IsDeletion, Exists
    <3>. QED
      BY <3>3, <3>4
  <2>6. CASE \E t \in Tasks : Deploy(t)
    BY <2>1, <2>6 DEF Deploy, JobInv, DoneInv, AtWork, IsDeletion, Exists
  <2>. QED
    BY <1>4, <2>3, <2>4, <2>5, <2>6
<1>5. CASE LaunchGateways \/ (\E g \in Gateways : LaunchNext(g)) \/ StartConsumer
  <2>1. step' # "done" /\ (phase' = "consuming" => step' = "fetch")
    BY <1>5 DEF LaunchGateways, LaunchNext, Proceed, StartConsumer, StepInv, handlerVars
  <2>. QED
    BY <2>1 DEF JobInv, DoneInv, AtWork
<1>6. CASE UNCHANGED vars
  BY <1>6, WorkFrame DEF vars, streamVars
<1>. QED
  BY <1>1, <1>2, <1>3, <1>4, <1>5, <1>6 DEF Next, Handler, Process

-----------------------------------------------------------------------------
(***************************************************************************)
(* A live row is tracked: it has a handle, or something is still to be done *)
(* that gives it one.                                                       *)
(***************************************************************************)

\* The events of the stream keep their places.
LEMMA StreamKept ==
  ASSUME TypeOK, [Next]_vars
  PROVE  /\ Len(stream') \in Nat /\ Len(stream) <= Len(stream')
         /\ \A i \in 1..Len(stream) : stream'[i] = stream[i]
<1>1. CASE PublishChange
  BY <1>1 DEF TypeOK, PublishChange
<1>2. CASE UNCHANGED stream
  BY <1>2 DEF TypeOK
<1>. QED
  BY <1>1, <1>2
  DEF Next, Api, CreateGateway, UpdateGateway, DeleteGateway, Write, CdcWorker,
      CopyTable, SkipChange, JetStream, Deliver, LoseDelivery, SendToConsumer,
      AckWaitExpires, Handler, FetchEnds, HandleEvent, HandleCreated,
      HandleDeletion, HandleUpdated, Handling, StartSkips, Deploy, StoreHandle,
      StopReturns, Ack, LoseAck, NextMessage, Subscribers, TaskStops,
      TaskGivesUp, Process, LaunchGateways, LaunchNext, StartConsumer,
      StopConsumer, CancelTasks, Exit, Crash, Terminate, streamVars, vars

\* Publishing moves the oldest change from the log to the end of the stream.
LEMMA PublishEffect ==
  ASSUME TypeOK, PublishChange
  PROVE  /\ Len(wal) \in Nat \ {0} /\ Len(wal') = Len(wal) - 1
         /\ Len(stream') = Len(stream) + 1
         /\ \A i \in 1..Len(stream) : stream'[i] = stream[i]
         /\ stream'[Len(stream) + 1] = wal[1]
         /\ \A i \in 1..Len(wal') : wal'[i] = wal[i + 1]
<1>1. wal # <<>> /\ stream' = Append(stream, Head(wal)) /\ wal' = Tail(wal)
  BY DEF PublishChange
<1>2. /\ Len(wal) \in Nat \ {0} /\ Len(Tail(wal)) = Len(wal) - 1
      /\ \A i \in 1..Len(Tail(wal)) : Tail(wal)[i] = wal[i + 1]
      /\ Head(wal) = wal[1]
  BY <1>1, HeadTailProperties, EmptySeq DEF TypeOK
<1>. QED
  BY <1>1, <1>2 DEF TypeOK

LEMMA WriteEffect ==
  ASSUME TypeOK, NEW g \in Gateways, NEW kind, NEW row, Write(kind, g, row)
  PROVE  /\ rows'[g] = row
         /\ \A h \in Gateways : h # g => rows'[h] = rows[h]
         /\ copied => /\ Len(wal') = Len(wal) + 1
                      /\ \A i \in 1..Len(wal) : wal'[i] = wal[i]
                      /\ wal'[Len(wal) + 1] = [kind |-> kind, gw |-> g, row |-> row]
                      /\ missed' = missed
         /\ ~copied => wal' = wal /\ missed' = missed \cup {g}
BY DEF TypeOK, Write, Replicate

\* A row deleted stays deleted.
LEMMA DeletedNext ==
  ASSUME TypeOK, DeletedInv, [Next]_vars
  PROVE  DeletedInv'
<1>1. ASSUME NEW g \in Gateways, rows[g] # Deleted, NEW kind, NEW row,
             kind = "created" \/ kind = "updated", Write(kind, g, row)
      PROVE  DeletedInv'
  <2>0. /\ rows'[g] = row
        /\ \A h \in Gateways : h # g => rows'[h] = rows[h]
        /\ copied => /\ Len(wal') = Len(wal) + 1
                     /\ \A i \in 1..Len(wal) : wal'[i] = wal[i]
                     /\ wal'[Len(wal) + 1] = [kind |-> kind, gw |-> g, row |-> row]
        /\ ~copied => wal' = wal
    BY <1>1, WriteEffect
  <2>1. stream' = stream /\ \A i \in 1..Len(stream) : stream[i].gw \in Gateways
    BY <1>1 DEF TypeOK, Write, streamVars, Event
  <2>2. Len(wal) \in Nat /\ \A i \in 1..Len(wal) : wal[i].gw \in Gateways
    BY DEF TypeOK, Event
  <2>3. IsDeletion([kind |-> kind, gw |-> g, row |-> row]) => row = Deleted
    BY <1>1 DEF IsDeletion
  <2>4. ASSUME NEW i \in 1..Len(stream), IsDeletion(stream[i])
        PROVE  rows'[stream[i].gw] = Deleted
    BY <1>1, <2>0, <2>1, <2>4 DEF DeletedInv
  <2>5. ASSUME NEW i \in 1..Len(wal'), IsDeletion(wal'[i])
        PROVE  rows'[wal'[i].gw] = Deleted
    <3>1. CASE i \in 1..Len(wal)
      BY <1>1, <2>0, <2>2, <2>5, <3>1 DEF DeletedInv
    <3>2. CASE copied /\ i = Len(wal) + 1
      BY <1>1, <2>0, <2>3, <2>5, <3>2
    <3>. QED
      BY <1>1, <2>0, <2>2, <3>1, <3>2
  <2>. QED
    BY <2>1, <2>4, <2>5 DEF DeletedInv, IsDeletion
<1>2. CASE Api
  BY <1>1, <1>2, RowsAssumption DEF Api, CreateGateway, UpdateGateway, DeleteGateway
<1>3. CASE PublishChange
  <2>1. UNCHANGED rows /\ Len(stream) \in Nat /\ Len(wal) \in Nat
    BY <1>3 DEF PublishChange, dbVars, cdcVars, TypeOK
  <2>2. ASSUME NEW i \in 1..Len(stream'), IsDeletion(stream'[i])
        PROVE  rows[stream'[i].gw] = Deleted
    <3>1. CASE i \in 1..Len(stream)
      BY <1>3, <2>2, <3>1, PublishEffect DEF DeletedInv
    <3>2. CASE i = Len(stream) + 1
      BY <1>3, <2>2, <3>2, PublishEffect DEF DeletedInv
    <3>. QED
      BY <1>3, <2>1, <3>1, <3>2, PublishEffect
  <2>3. ASSUME NEW i \in 1..Len(wal'), IsDeletion(wal'[i])
        PROVE  rows[wal'[i].gw] = Deleted
    BY <1>3, <2>1, <2>3, PublishEffect DEF DeletedInv
  <2>. QED
    BY <2>1, <2>2, <2>3 DEF DeletedInv, IsDeletion
<1>4. CASE SkipChange
  <2>1. UNCHANGED <<rows, stream>> /\ wal # <<>> /\ wal' = Tail(wal)
    BY <1>4 DEF SkipChange, dbVars, cdcVars, streamVars
  <2>2. /\ Len(wal') = Len(wal) - 1 /\ Len(wal) \in Nat
        /\ \A i \in 1..Len(wal') : wal'[i] = wal[i + 1]
    BY <2>1, HeadTailProperties DEF TypeOK
  <2>3. \A i \in 1..Len(wal') : i + 1 \in 1..Len(wal)
    BY <2>2
  <2>. QED
    BY <2>1, <2>2, <2>3 DEF DeletedInv, IsDeletion
<1>5. CASE UNCHANGED <<rows, wal, stream>>
  BY <1>5 DEF DeletedInv, IsDeletion
<1>6. CASE Terminate
  <2>1. Len(wal') = 0 /\ UNCHANGED <<rows, stream>>
    BY <1>6 DEF Terminate, dbVars, streamVars
  <2>. QED
    BY <2>1 DEF DeletedInv, IsDeletion
<1>. QED
  BY <1>2, <1>3, <1>4, <1>5, <1>6
  DEF Next, CdcWorker, CopyTable, JetStream, Deliver, LoseDelivery, SendToConsumer,
      AckWaitExpires, Handler, FetchEnds, HandleEvent, HandleCreated,
      HandleDeletion, HandleUpdated, Handling, StartSkips, Deploy, StoreHandle,
      StopReturns, Ack, LoseAck, NextMessage, Subscribers, TaskStops,
      TaskGivesUp, Process, LaunchGateways, LaunchNext, StartConsumer,
      StopConsumer, CancelTasks, Exit, Crash, dbVars, cdcVars, streamVars, vars

\* The steps that leave the launch, the handler and the handles alone.
LEMMA TrackedFrame ==
  ASSUME TrackedInv, UNCHANGED <<rows, phase, todo, handlerVars, handles>>,
         missed' = missed \/ phase = "consuming",
         \A g \in Gateways : Pending(g) \/ g \in missed => Pending(g)' \/ g \in missed'
  PROVE  TrackedInv'
<1>1. UNCHANGED <<step, job>>
  BY DEF handlerVars
<1>2. ASSUME NEW g \in Gateways, rows[g] \in Configs
      PROVE  \/ phase \in {"down", "closing"}
             \/ phase = "launching" /\ g \in todo
             \/ phase = "consuming" /\ Pending(g)'
             \/ AtWork /\ job.gw = g
             \/ Exists(g)
             \/ g \in missed'
  <2>1. CASE Pending(g) \/ g \in missed
    BY <1>2, <2>1 DEF TrackedInv
  <2>2. CASE ~Pending(g) /\ g \notin missed
    BY <1>2, <2>2 DEF TrackedInv
  <2>. QED
    BY <2>1, <2>2
<1>. QED
  BY <1>1, <1>2 DEF TrackedInv, AtWork, Exists

LEMMA TrackedNext ==
  ASSUME IInv, DeletedInv, TrackedInv, [Next]_vars
  PROVE  TrackedInv'
<1>. USE DEF IInv
<1>1. ASSUME NEW g \in Gateways, NEW kind, NEW row, Write(kind, g, row)
      PROVE  TrackedInv'
  <2>0. /\ Len(wal) \in Nat
        /\ \A h \in Gateways : h # g => rows'[h] = rows[h]
        /\ copied => /\ Len(wal') = Len(wal) + 1
                     /\ \A i \in 1..Len(wal) : wal'[i] = wal[i]
                     /\ wal'[Len(wal) + 1] = [kind |-> kind, gw |-> g, row |-> row]
                     /\ missed' = missed
        /\ ~copied => wal' = wal /\ missed' = missed \cup {g}
    BY <1>1, WriteEffect DEF TypeOK
  <2>1. Pending(g)' \/ g \in missed'
    BY <2>0 DEF Pending
  <2>2. ASSUME NEW h \in Gateways, Pending(h)
        PROVE  Pending(h)'
    <3>1. UNCHANGED <<stream, nextSeq, unacked>>
      BY <1>1 DEF Write, streamVars
    <3>. QED
      BY <2>0, <2>2, <3>1 DEF Pending
  <2>3. phase = "consuming" /\ UNCHANGED <<phase, step, job, handles>>
    BY <1>1 DEF Write, Serving, handlerVars
  <2>4. ASSUME NEW h \in Gateways, h # g, rows'[h] \in Configs
        PROVE  Pending(h)' \/ (AtWork /\ job.gw = h) \/ Exists(h) \/ h \in missed'
    BY <2>0, <2>2, <2>3, <2>4 DEF TrackedInv
  <2>. QED
    BY <2>1, <2>3, <2>4 DEF TrackedInv, AtWork, Exists
<1>2. CASE Api
  BY <1>1, <1>2 DEF Api, CreateGateway, UpdateGateway, DeleteGateway
<1>3. CASE PublishChange
  <2>1. /\ UNCHANGED <<rows, phase, todo, handlerVars, handles, nextSeq, unacked>>
        /\ missed' = missed \ {Head(wal).gw} /\ Head(wal) = wal[1] /\ phase = "consuming"
    BY <1>3 DEF PublishChange, Serving, dbVars, TypeOK
  <2>0. Len(stream) \in Nat /\ nextSeq \in 1..(Len(stream) + 1)
    BY DEF TypeOK
  <2>2. ASSUME NEW g \in Gateways, wal[1].gw = g
        PROVE  Pending(g)'
    <3>1. /\ Len(stream) + 1 \in nextSeq'..Len(stream')
          /\ stream'[Len(stream) + 1].gw = g
      BY <1>3, <2>0, <2>1, <2>2, PublishEffect
    <3>. QED
      BY <3>1 DEF Pending
  <2>3. ASSUME NEW g \in Gateways, Pending(g)
        PROVE  Pending(g)'
    <3>2. CASE \E i \in 1..Len(wal) : wal[i].gw = g
      <4>1. PICK i \in 1..Len(wal) : wal[i].gw = g
        BY <3>2
      <4>2. CASE i = 1
        BY <2>2, <4>1, <4>2
      <4>3. CASE i # 1
        <5>1. i - 1 \in 1..Len(wal') /\ wal'[i - 1].gw = g
          BY <1>3, <4>1, <4>3, PublishEffect
        <5>. QED
          BY <5>1 DEF Pending
      <4>. QED
        BY <4>2, <4>3
    <3>3. CASE \E s \in nextSeq..Len(stream) : stream[s].gw = g
      <4>1. PICK s \in nextSeq..Len(stream) : stream[s].gw = g
        BY <3>3
      <4>2. s \in 1..Len(stream)
        BY <2>0
      <4>3. s \in nextSeq'..Len(stream') /\ stream'[s].gw = g
        BY <1>3, <2>0, <2>1, <4>1, <4>2, PublishEffect
      <4>. QED
        BY <4>3 DEF Pending
    <3>4. CASE \E s \in unacked : stream[s].gw = g
      <4>1. unacked \subseteq 1..Len(stream)
        BY <2>0 DEF TypeOK
      <4>2. PICK s \in unacked : stream[s].gw = g
        BY <3>4
      <4>3. s \in unacked' /\ stream'[s].gw = g
        BY <1>3, <2>1, <4>1, <4>2, PublishEffect
      <4>. QED
        BY <4>3 DEF Pending
    <3>. QED
      BY <2>3, <3>2, <3>3, <3>4 DEF Pending
  <2>. QED
    BY <2>1, <2>2, <2>3, TrackedFrame
<1>4. CASE SkipChange
  <2>1. /\ UNCHANGED <<rows, phase, todo, handlerVars, handles, stream, nextSeq, unacked>>
        /\ wal # <<>> /\ wal' = Tail(wal) /\ missed' = missed \cup {Head(wal).gw}
        /\ phase = "consuming"
    BY <1>4 DEF SkipChange, Serving, dbVars, streamVars
  <2>2. /\ Len(wal) \in Nat \ {0} /\ Len(wal') = Len(wal) - 1 /\ Head(wal) = wal[1]
        /\ \A i \in 1..Len(wal') : wal'[i] = wal[i + 1]
    BY <2>1, HeadTailProperties, EmptySeq DEF TypeOK
  <2>3. ASSUME NEW g \in Gateways, NEW i \in 1..Len(wal), wal[i].gw = g
        PROVE  Pending(g)' \/ g \in missed'
    <3>1. CASE i = 1
      BY <2>1, <2>2, <2>3, <3>1
    <3>2. CASE i # 1
      <4>1. i - 1 \in 1..Len(wal') /\ wal'[i - 1].gw = g
        BY <2>2, <2>3, <3>2
      <4>. QED
        BY <4>1 DEF Pending
    <3>. QED
      BY <3>1, <3>2
  <2>4. ASSUME NEW g \in Gateways, Pending(g) \/ g \in missed
        PROVE  Pending(g)' \/ g \in missed'
    BY <2>1, <2>3, <2>4 DEF Pending
  <2>. QED
    BY <2>1, <2>4, TrackedFrame
<1>5. CASE JetStream
  <2>1. UNCHANGED <<rows, phase, todo, handlerVars, handles, stream, wal, missed>>
    BY <1>5 DEF JetStream, Deliver, LoseDelivery, SendToConsumer, AckWaitExpires, dbVars, cdcVars
  <2>2. \/ UNCHANGED <<nextSeq, unacked>>
        \/ \E s \in 1..Len(stream) : /\ nextSeq' = IF s = nextSeq THEN nextSeq + 1 ELSE nextSeq
                                     /\ unacked' = unacked \cup {s}
    BY <1>5 DEF JetStream, Deliver, LoseDelivery, SendToConsumer, AckWaitExpires
  <2>3. ASSUME NEW g \in Gateways, Pending(g)
        PROVE  Pending(g)'
    <3>1. Len(stream) \in Nat /\ nextSeq \in Nat
      BY DEF TypeOK
    <3>. QED
      BY <2>1, <2>2, <2>3, <3>1 DEF Pending
  <2>. QED
    BY <2>1, <2>3, TrackedFrame
<1>6. CASE FetchEnds
  BY <1>6 DEF FetchEnds, TrackedInv, AtWork, Exists, Pending, dbVars, cdcVars, streamVars
<1>7. CASE HandleEvent
  <2>1. Handling /\ Current \in Event /\ Head(batch) \in 1..Len(stream)
    BY <1>7, CurrentType DEF HandleEvent, Handling, HandleCreated,
                             HandleDeletion, HandleUpdated
  <2>2. /\ phase = "consuming" /\ step = "next"
        /\ UNCHANGED <<rows, wal, missed, stream, nextSeq, unacked, phase, todo>>
    BY <2>1 DEF Handling, dbVars, cdcVars, streamVars
  <2>3. \A g \in Gateways : Pending(g)' = Pending(g)
    BY <2>2 DEF Pending
  <2>4. CASE \E s, j : Proceed(s, j)
    BY <2>2, <2>3, <2>4 DEF Proceed, TrackedInv, AtWork, Exists
  <2>5. CASE \E want : Stop(Current.gw, want)
    <3>1. /\ \A g \in Gateways : g # Current.gw => (Exists(g) => Exists(g)')
          /\ step' = "waiting" /\ job'.gw = Current.gw
      BY <2>5 DEF Stop, Remove, Exists
    <3>. QED
      BY <2>2, <2>3, <3>1 DEF TrackedInv, AtWork
  <2>. QED
    BY <1>7, <2>4, <2>5 DEF HandleEvent, HandleCreated, HandleDeletion, HandleUpdated
<1>8. CASE StartSkips \/ \E t \in Tasks : Deploy(t)
  BY <1>8 DEF StartSkips, Deploy, TrackedInv, AtWork, Exists, Pending, dbVars, cdcVars, streamVars
<1>9. CASE StoreHandle
  <2>1. /\ DOMAIN handles' = DOMAIN handles \cup {job.gw}
        /\ UNCHANGED <<rows, wal, missed, stream, nextSeq, unacked, phase, todo>>
    BY <1>9 DEF StoreHandle, Upsert, dbVars, cdcVars, streamVars
  <2>. QED
    BY <2>1 DEF TrackedInv, AtWork, Exists, Pending
<1>10. CASE StopReturns
  <2>1. UNCHANGED <<rows, wal, missed, stream, nextSeq, unacked, phase, todo, handles>>
    BY <1>10 DEF StopReturns, dbVars, cdcVars, streamVars
  <2>2. CASE job.want = Deleted
    <3>1. /\ phase = "consuming" /\ batch # <<>> /\ job.gw = Current.gw
          /\ IF IsDeletion(Current) THEN job.want = Deleted ELSE job.want = Current.row
      BY <1>10 DEF StopReturns, StepInv, JobInv, AtWork
    <3>2. Current \in Event /\ Head(batch) \in 1..Len(stream)
      BY <3>1, CurrentType
    <3>3. IsDeletion(Current)
      BY <2>2, <3>1, <3>2, RowsAssumption DEF Event, IsDeletion
    <3>4. rows[job.gw] = Deleted
      BY <3>1, <3>2, <3>3 DEF DeletedInv, Current
    <3>. QED
      BY <2>1, <3>4, RowsAssumption DEF TrackedInv, AtWork, Exists, Pending
  <2>3. CASE job.want # Deleted
    BY <1>10, <2>1, <2>3 DEF StopReturns, TrackedInv, AtWork, Exists, Pending
  <2>. QED
    BY <2>2, <2>3
<1>11. CASE Ack
  <2>1. /\ step = "done" /\ step' \in {"fetch", "next"}
        /\ UNCHANGED <<rows, wal, missed, stream, nextSeq, phase, todo, job, handles>>
        /\ unacked' = unacked \ {Head(batch)}
    BY <1>11 DEF Ack, NextMessage, dbVars, cdcVars
  <2>2. batch # <<>> /\ Applied(Current)
    BY <2>1 DEF DoneInv
  <2>3. Head(batch) \in 1..Len(stream) /\ Current = stream[Head(batch)]
    BY <2>2, CurrentType DEF Current
  <2>4. ASSUME NEW g \in Gateways, rows[g] \in Configs, Pending(g), ~Pending(g)'
        PROVE  Exists(g)
    <3>1. Current.gw = g
      BY <2>1, <2>3, <2>4 DEF Pending
    <3>2. ~IsDeletion(Current)
      BY <2>3, <2>4, <3>1, RowsAssumption DEF DeletedInv
    <3>. QED
      BY <2>2, <3>1, <3>2 DEF Applied
  <2>. QED
    BY <2>1, <2>4 DEF TrackedInv, AtWork, Exists
<1>12. CASE LoseAck
  BY <1>12 DEF LoseAck, NextMessage, TrackedInv, AtWork, Exists, Pending, dbVars, cdcVars
<1>13. CASE Subscribers
  BY <1>13 DEF Subscribers, TaskStops, TaskGivesUp, TrackedInv, AtWork, Exists,
               Pending, dbVars, cdcVars, streamVars, handlerVars
<1>14. CASE LaunchGateways
  BY <1>14 DEF LaunchGateways, TrackedInv, dbVars, cdcVars
<1>15. ASSUME NEW g \in Gateways, LaunchNext(g)
       PROVE  TrackedInv'
  BY <1>15 DEF LaunchNext, Proceed, TrackedInv, AtWork, Exists, dbVars, cdcVars
<1>16. CASE StartConsumer
  BY <1>16 DEF StartConsumer, TrackedInv, AtWork, Exists, dbVars, cdcVars
<1>17. CASE StopConsumer \/ Exit \/ Crash
  BY <1>17 DEF StopConsumer, Exit, Crash, Terminate, TrackedInv
<1>18. CASE CancelTasks
  BY <1>18 DEF CancelTasks, TrackedInv, AtWork, Exists, Pending, dbVars, cdcVars,
               streamVars, handlerVars
<1>19. CASE CopyTable \/ UNCHANGED vars
  BY <1>19 DEF CopyTable, vars, TrackedInv, AtWork, Exists, Pending, dbVars, cdcVars,
               streamVars, handlerVars
<1>. QED
  BY <1>2, <1>3, <1>4, <1>5, <1>6, <1>7, <1>8, <1>9, <1>10, <1>11, <1>12,
     <1>13, <1>14, <1>15, <1>16, <1>17, <1>18, <1>19
  DEF Next, CdcWorker, Handler, Process

\* A fault is counted, and never forgotten.
LEMMA FaultsGrow ==
  ASSUME TypeOK, [Next]_vars
  PROVE  faults \in Nat /\ (faults' = faults \/ faults' = faults + 1)
<1>1. faults \in Nat
  BY BoundsAssumption DEF TypeOK
<1>2. CASE Api \/ CdcWorker \/ JetStream
  BY <1>1, <1>2 DEF Api, CreateGateway, UpdateGateway, DeleteGateway, Write, CdcWorker,
              CopyTable, PublishChange, SkipChange, JetStream, Deliver, LoseDelivery,
              AckWaitExpires, Fault
<1>3. CASE Handler \/ Subscribers
  BY <1>1, <1>3 DEF Handler, FetchEnds, HandleEvent, HandleCreated, HandleDeletion,
              HandleUpdated, Handling, StartSkips, Deploy, StoreHandle,
              StopReturns, Ack, LoseAck, Subscribers, TaskStops, TaskGivesUp, Fault
<1>4. CASE Process
  BY <1>1, <1>4 DEF Process, LaunchGateways, LaunchNext, StartConsumer, StopConsumer,
              CancelTasks, Exit, Crash, Fault
<1>. QED
  BY <1>1, <1>2, <1>3, <1>4 DEF Next, vars

\* The task of a handle lives until the handle is taken out of the store.
LEMMA AliveNext ==
  ASSUME IInv, AliveInv, [Next]_vars
  PROVE  AliveInv'
<1>. USE DEF IInv
<1>1. faults \in Nat /\ (faults' = 0 => faults = 0)
  BY FaultsGrow
<1>2. CASE /\ UNCHANGED <<shutdownToken, handles, tasks>>
           /\ phase = "closing" => phase' = "closing"
           /\ step' = "deployed" => step = "deployed" /\ held' = held
  BY <1>1, <1>2 DEF AliveInv
<1>3. CASE HandleEvent
  <2>1. Handling
    BY <1>3 DEF HandleEvent, HandleCreated, HandleDeletion, HandleUpdated
  <2>2. CASE \E s \in {"start", "done"} : \E j : Proceed(s, j)
    BY <1>2, <2>1, <2>2 DEF Handling, Proceed
  <2>3. CASE \E g, want : Stop(g, want)
    <3>1. /\ DOMAIN tasks' = DOMAIN tasks /\ DOMAIN handles' \subseteq DOMAIN handles
          /\ \A g \in DOMAIN handles' : handles'[g] = handles[g]
          /\ step' = "waiting"
      BY <2>3 DEF Stop, Cancel, Remove
    <3>. QED
      BY <1>1, <2>1, <3>1 DEF Handling, AliveInv
  <2>. QED
    BY <1>3, <2>2, <2>3 DEF HandleEvent, HandleCreated, HandleDeletion, HandleUpdated
<1>4. ASSUME NEW t \in Tasks, Deploy(t)
      PROVE  AliveInv'
  <2>1. /\ DOMAIN tasks' = DOMAIN tasks \cup {t} /\ held' = t
        /\ UNCHANGED <<handles, phase, shutdownToken>>
    BY <1>4 DEF Deploy, Spawn
  <2>. QED
    BY <1>1, <2>1 DEF AliveInv
<1>5. CASE StoreHandle
  <2>1. /\ DOMAIN handles' = DOMAIN handles \cup {job.gw}
        /\ handles'[job.gw].task = held
        /\ \A g \in DOMAIN handles : g # job.gw => handles'[g] = handles[g]
        /\ UNCHANGED <<tasks, phase, shutdownToken>>
        /\ step = "deployed" /\ step' # "deployed"
    BY <1>5 DEF StoreHandle, Upsert, Returned
  <2>. QED
    BY <1>1, <2>1 DEF AliveInv
<1>6. ASSUME NEW t \in Tasks, TaskStops(t)
      PROVE  AliveInv'
  <2>1. /\ DOMAIN tasks' = DOMAIN tasks \ {t} /\ t \in DOMAIN tasks
        /\ tasks[t].cancelled \/ shutdownToken
        /\ UNCHANGED <<handles, phase, shutdownToken, step, held>>
    BY <1>6 DEF TaskStops, Forget, handlerVars
  <2>2. ASSUME ~shutdownToken, NEW g \in DOMAIN handles, handles[g].task = t
        PROVE  FALSE
    <3>1. tasks[t] = [gw |-> g, config |-> handles[g].config, cancelled |-> FALSE]
      BY <2>1, <2>2, HandleTruth DEF TaskInv
    <3>. QED
      BY <2>1, <2>2, <3>1
  <2>3. ~shutdownToken /\ step = "deployed" => held # t
    BY <2>1 DEF TaskInv, DeployedInv
  <2>. QED
    BY <1>1, <2>1, <2>2, <2>3 DEF AliveInv
<1>7. ASSUME NEW t \in Tasks, TaskGivesUp(t)
      PROVE  AliveInv'
  <2>1. /\ "giveUp" \in Faults /\ faults' = faults + 1
        /\ UNCHANGED <<phase, shutdownToken>>
    BY <1>7 DEF TaskGivesUp, Fault
  <2>. QED
    BY <1>1, <2>1 DEF AliveInv
<1>8. CASE CancelTasks
  BY <1>8 DEF CancelTasks, AliveInv
<1>9. CASE Exit \/ Crash
  <2>1. ~shutdownToken' /\ DOMAIN handles' = {} /\ step' = "next"
    BY <1>9 DEF Exit, Crash, Terminate, EmptyMap
  <2>. QED
    BY <2>1 DEF AliveInv
<1>10. CASE Api \/ CdcWorker \/ JetStream
  BY <1>2, <1>10
  DEF Api, CreateGateway, UpdateGateway, DeleteGateway, Write, CdcWorker,
      CopyTable, PublishChange, SkipChange, JetStream, Deliver, LoseDelivery, AckWaitExpires,
      SendToConsumer, handlerVars
<1>11. CASE FetchEnds \/ StartSkips \/ StopReturns \/ Ack \/ LoseAck
  BY <1>2, <1>11
  DEF FetchEnds, StartSkips, Returned, StopReturns, Ack, LoseAck, NextMessage
<1>12. CASE \/ LaunchGateways
            \/ \E g \in Gateways : LaunchNext(g)
            \/ StartConsumer
            \/ StopConsumer
  <2>1. ~shutdownToken \/ phase = "closing"
    BY DEF AliveInv
  <2>2. UNCHANGED <<shutdownToken, handles, tasks>> /\ phase # "closing"
    BY <1>12 DEF LaunchGateways, LaunchNext, Proceed, StartConsumer, StopConsumer
  <2>3. step' = "deployed" => step = "deployed" /\ held' = held
    BY <1>12 DEF LaunchGateways, LaunchNext, Proceed, StartConsumer, StopConsumer,
                 handlerVars
  <2>. QED
    BY <1>2, <2>2, <2>3
<1>13. CASE UNCHANGED vars
  BY <1>2, <1>13 DEF vars, handlerVars
<1>. QED
  BY <1>3, <1>4, <1>5, <1>6, <1>7, <1>8, <1>9, <1>10, <1>11, <1>12, <1>13
  DEF Next, Handler, Subscribers, Process

-----------------------------------------------------------------------------
(***************************************************************************)
(* Without faults the handle store follows the rows: every change is        *)
(* handled once, in the order of the commits.                               *)
(***************************************************************************)

\* The steps of a behaviour without faults.
QuietStep ==
  \/ Api
  \/ CopyTable
  \/ PublishChange
  \/ \E s \in 1..Len(stream) : Deliver(s) \/ AckWaitExpires(s)
  \/ FetchEnds
  \/ HandleEvent
  \/ StartSkips
  \/ \E t \in Tasks : Deploy(t)
  \/ StoreHandle
  \/ StopReturns
  \/ Ack
  \/ \E t \in Tasks : TaskStops(t)
  \/ LaunchGateways
  \/ StartConsumer
  \/ UNCHANGED vars

LEMMA QuietNext ==
  ASSUME IInv, AliveInv, faults = 0, FirstLifeInv, [Next]_vars, faults' = 0
  PROVE  QuietStep
<1>1. \A kind : ~Fault(kind)
  BY DEF Fault
<1>2. ASSUME NEW g \in Gateways, LaunchNext(g)
      PROVE  FALSE
  BY <1>2, RowsAssumption DEF LaunchNext, FirstLifeInv, IInv, TypeOK
<1>3. ~CancelTasks /\ ~Exit
  BY DEF CancelTasks, Exit, FirstLifeInv, AliveInv
<1>. QED
  BY <1>1, <1>2, <1>3
  DEF Next, CdcWorker, SkipChange, JetStream, LoseDelivery, Handler, LoseAck,
      Subscribers, TaskGivesUp, Process, StopConsumer, Crash, QuietStep

LEMMA LogType ==
  ASSUME TypeOK
  PROVE  /\ Log \in Seq(Event) /\ Len(Log) \in Nat
         /\ Len(Log) = Len(stream) + Len(wal)
         /\ Len(stream) \in Nat /\ Len(wal) \in Nat
         /\ \A i \in 1..Len(stream) : Log[i] = stream[i]
BY ConcatProperties DEF TypeOK, Log

LEMMA PublishLog ==
  ASSUME TypeOK, PublishChange
  PROVE  Log' = Log
<1>1. wal # <<>> /\ stream' = Append(stream, Head(wal)) /\ wal' = Tail(wal)
  BY DEF PublishChange
<1>2. /\ stream \in Seq(Event) /\ Head(wal) \in Event /\ Tail(wal) \in Seq(Event)
      /\ <<Head(wal)>> \in Seq(Event)
  BY <1>1, HeadTailProperties DEF TypeOK
<1>3. Append(stream, Head(wal)) = stream \o <<Head(wal)>>
  BY <1>2, AppendIsConcat
<1>4. <<Head(wal)>> \o Tail(wal) = wal
  BY <1>1, <1>2 DEF TypeOK
<1>5. (stream \o <<Head(wal)>>) \o Tail(wal) = stream \o (<<Head(wal)>> \o Tail(wal))
  BY <1>2, ConcatAssociative
<1>. QED
  BY <1>1, <1>3, <1>4, <1>5 DEF Log

\* The change to be published next follows those that were.
LEMMA FirstUnpublished ==
  ASSUME TypeOK, wal # <<>>
  PROVE  Len(stream) + 1 \in 1..Len(Log) /\ Log[Len(stream) + 1] = Head(wal)
<1>1. /\ stream \in Seq(Event) /\ wal \in Seq(Event)
      /\ Len(stream) \in Nat /\ Len(wal) \in Nat \ {0}
  BY EmptySeq DEF TypeOK
<1>2. /\ Len(Log) = Len(stream) + Len(wal)
      /\ Log[Len(stream) + 1] = wal[1] /\ Head(wal) = wal[1]
  BY <1>1, ConcatProperties DEF Log
<1>. QED
  BY <1>1, <1>2

LEMMA WriteLog ==
  ASSUME TypeOK, copied, NEW g \in Gateways, NEW kind, NEW row, Write(kind, g, row),
         [kind |-> kind, gw |-> g, row |-> row] \in Event
  PROVE  Log' = Append(Log, [kind |-> kind, gw |-> g, row |-> row])
<1>. DEFINE e == [kind |-> kind, gw |-> g, row |-> row]
<1>1. stream' = stream /\ wal' = Append(wal, e)
  BY DEF Write, Replicate, streamVars
<1>2. stream \in Seq(Event) /\ wal \in Seq(Event) /\ e \in Event
  BY DEF TypeOK
<1>. HIDE DEF e
<1>3. stream \o Append(wal, e) = Append(stream \o wal, e)
  <2>1. Append(wal, e) = wal \o <<e>> /\ <<e>> \in Seq(Event)
    BY <1>2, AppendIsConcat
  <2>2. stream \o (wal \o <<e>>) = (stream \o wal) \o <<e>>
    BY <1>2, <2>1, ConcatAssociative
  <2>3. stream \o wal \in Seq(Event)
    BY <1>2, ConcatProperties
  <2>4. Append(stream \o wal, e) = (stream \o wal) \o <<e>>
    BY <1>2, <2>3, AppendIsConcat
  <2>. QED
    BY <2>1, <2>2, <2>4
<1>. QED
  BY <1>1, <1>3 DEF Log, e

\* A write gives its row to the gateway, and is the gateway's last change.
LEMMA LoggedWrite ==
  ASSUME TypeOK, LogInv, copied, NEW g \in Gateways, NEW kind, NEW row,
         [kind |-> kind, gw |-> g, row |-> row] \in Event,
         kind = "created" => rows[g] = Absent,
         Write(kind, g, row)
  PROVE  LogInv'
<1>. DEFINE e == [kind |-> kind, gw |-> g, row |-> row]
            n == Len(Log)
<1>1. Log' = Append(Log, e) /\ Log \in Seq(Event) /\ n \in Nat
  BY WriteLog, LogType
<1>2. /\ Len(Log') = n + 1 /\ Log'[n + 1] = e
      /\ \A i \in 1..n : Log'[i] = Log[i]
  BY <1>1
<1>3. /\ rows'[g] = row /\ \A h \in Gateways : h # g => rows'[h] = rows[h]
      /\ missed' = missed /\ stream' = stream
  <2>1. stream' = stream
    BY DEF Write, streamVars
  <2>. QED
    BY <2>1, WriteEffect
<1>4. e.gw = g /\ e.row = row /\ e.kind = kind
  OBVIOUS
<1>. HIDE DEF e, n
<1>5. ASSUME NEW h \in Gateways
      PROVE  \/ /\ rows'[h] = Absent \/ h \in missed'
                /\ \A i \in 1..Len(Log') : Log'[i].gw # h
             \/ \E i \in 1..Len(Log') :
                  /\ Log'[i].gw = h /\ Log'[i].row = rows'[h]
                  /\ \A j \in (i + 1)..Len(Log') : Log'[j].gw # h
  <2>1. CASE h = g
    <3>1. n + 1 \in 1..Len(Log') /\ (n + 1) + 1 > Len(Log')
      BY <1>1, <1>2
    <3>2. \A j \in ((n + 1) + 1)..Len(Log') : FALSE
      BY <1>1, <1>2
    <3>. QED
      BY <1>2, <1>3, <1>4, <2>1, <3>1, <3>2
  <2>2. CASE h # g /\ (rows[h] = Absent \/ h \in missed) /\ \A i \in 1..n : Log[i].gw # h
    BY <1>1, <1>2, <1>3, <1>4, <2>2
  <2>3. CASE h # g /\ \E i \in 1..n : /\ Log[i].gw = h /\ Log[i].row = rows[h]
                                      /\ \A j \in (i + 1)..n : Log[j].gw # h
    <3>1. PICK i \in 1..n : /\ Log[i].gw = h /\ Log[i].row = rows[h]
                            /\ \A j \in (i + 1)..n : Log[j].gw # h
      BY <2>3
    <3>2. i \in 1..Len(Log') /\ Log'[i].gw = h /\ Log'[i].row = rows'[h]
      BY <1>1, <1>2, <1>3, <2>3, <3>1
    <3>3. ASSUME NEW j \in (i + 1)..Len(Log')
          PROVE  Log'[j].gw # h
      <4>1. CASE j = n + 1
        BY <1>2, <1>4, <2>3, <4>1
      <4>2. CASE j # n + 1
        <5>1. j \in (i + 1)..n /\ j \in 1..n
          BY <1>1, <1>2, <4>2
        <5>. QED
          BY <1>2, <3>1, <5>1
      <4>. QED
        BY <4>1, <4>2
    <3>. QED
      BY <3>2, <3>3
  <2>. QED
    BY <2>1, <2>2, <2>3 DEF LogInv, n
<1>6. ASSUME NEW i \in 1..Len(Log'), Log'[i].kind = "created", NEW j \in 1..(i - 1)
      PROVE  Log'[j].gw # Log'[i].gw
  <2>1. j \in 1..n /\ Log'[j] = Log[j]
    BY <1>1, <1>2
  <2>2. CASE i = n + 1
    <3>1. rows[g] = Absent
      BY <1>2, <1>4, <1>6, <2>2
    <3>2. \A k \in 1..n : Log[k].row # Absent
      <4>1. \A k \in 1..n : Log[k] \in Event
        BY <1>1, ElementOfSeq DEF n
      <4>2. \A x \in Event : x.row # Absent
        BY RowsAssumption DEF Event
      <4>. QED
        BY <4>1, <4>2
    <3>3. \A k \in 1..n : Log[k].gw # g
      BY <3>1, <3>2 DEF LogInv, n
    <3>. QED
      BY <1>2, <1>4, <2>1, <2>2, <3>3
  <2>3. CASE i # n + 1
    <3>1. i \in 1..n /\ Log'[i] = Log[i]
      BY <1>1, <1>2, <2>3
    <3>. QED
      BY <1>6, <2>1, <3>1 DEF LogInv, n
  <2>. QED
    BY <2>2, <2>3
<1>7. \A h \in missed' : \A i \in 1..Len(stream') : stream'[i].gw # h
  BY <1>3 DEF LogInv
<1>. QED
  BY <1>5, <1>6, <1>7 DEF LogInv

\* A write before the copy of the table is missed, and nothing else was logged.
LEMMA UnloggedWrite ==
  ASSUME TypeOK, LogInv, Log = <<>>, ~copied, NEW g \in Gateways, NEW kind, NEW row,
         Write(kind, g, row)
  PROVE  LogInv'
<1>1. /\ \A h \in Gateways : h # g => rows'[h] = rows[h]
      /\ missed' = missed \cup {g} /\ wal' = wal /\ stream' = stream
  BY WriteEffect DEF Write, streamVars
<1>2. Len(stream') = 0 /\ Len(Log') = 0 /\ Len(Log) = 0
  <2>1. Len(Log) = 0 /\ Len(Log) = Len(stream) + Len(wal)
    BY LogType
  <2>2. Len(stream) = 0
    BY <2>1, LogType
  <2>3. Log' = Log
    BY <1>1 DEF Log
  <2>. QED
    BY <1>1, <2>1, <2>2, <2>3
<1>3. \A h \in Gateways : rows[h] = Absent \/ h \in missed
  BY <1>2 DEF LogInv
<1>4. \A h \in Gateways : rows'[h] = Absent \/ h \in missed'
  BY <1>1, <1>3
<1>. QED
  BY <1>2, <1>4 DEF LogInv

LEMMA WriteKeepsLog ==
  ASSUME TypeOK, LogInv, ~copied => Log = <<>>, NEW g \in Gateways, NEW kind, NEW row,
         [kind |-> kind, gw |-> g, row |-> row] \in Event,
         kind = "created" => rows[g] = Absent,
         Write(kind, g, row)
  PROVE  LogInv'
<1>1. CASE copied
  BY <1>1, LoggedWrite
<1>2. CASE ~copied
  BY <1>2, UnloggedWrite
<1>. QED
  BY <1>1, <1>2

\* What is published is not missed any more, and is in the log.
LEMMA PublishKeepsLog ==
  ASSUME TypeOK, LogInv, PublishChange
  PROVE  LogInv'
<1>1. /\ Log' = Log /\ rows' = rows /\ missed' = missed \ {Head(wal).gw}
      /\ wal # <<>> /\ Head(wal) = wal[1] /\ Len(stream) \in Nat
  BY PublishLog DEF PublishChange, dbVars, TypeOK
<1>2. Len(stream) + 1 \in 1..Len(Log) /\ Log[Len(stream) + 1].gw = Head(wal).gw
  BY <1>1, FirstUnpublished
<1>3. ASSUME NEW h \in missed', NEW i \in 1..Len(stream')
      PROVE  stream'[i].gw # h
  <2>1. CASE i \in 1..Len(stream)
    BY <1>1, <1>3, <2>1, PublishEffect DEF LogInv
  <2>2. CASE i = Len(stream) + 1
    BY <1>1, <1>3, <2>2, PublishEffect
  <2>. QED
    BY <1>1, <2>1, <2>2, PublishEffect
<1>4. ASSUME NEW h \in Gateways
      PROVE  \/ /\ rows[h] = Absent \/ h \in missed'
                /\ \A i \in 1..Len(Log) : Log[i].gw # h
             \/ \E i \in 1..Len(Log) :
                  /\ Log[i].gw = h /\ Log[i].row = rows[h]
                  /\ \A j \in (i + 1)..Len(Log) : Log[j].gw # h
  BY <1>1, <1>2 DEF LogInv
<1>. QED
  BY <1>1, <1>3, <1>4 DEF LogInv

LEMMA LogNext ==
  ASSUME TypeOK, FirstLifeInv, LogInv, QuietStep
  PROVE  LogInv'
<1>0. ~copied => Log = <<>>
  BY DEF FirstLifeInv
<1>1. ASSUME NEW g \in Gateways, NEW c \in Configs, CreateGateway(g, c)
      PROVE  LogInv'
  <2>1. [kind |-> "created", gw |-> g, row |-> c] \in Event
    BY DEF Event
  <2>. QED
    BY <1>0, <1>1, <2>1, WriteKeepsLog DEF CreateGateway
<1>2. ASSUME NEW g \in Gateways, NEW c \in Configs, UpdateGateway(g, c)
      PROVE  LogInv'
  <2>1. [kind |-> "updated", gw |-> g, row |-> c] \in Event
    BY DEF Event
  <2>. QED
    BY <1>0, <1>2, <2>1, WriteKeepsLog DEF UpdateGateway
<1>3. ASSUME NEW g \in Gateways, DeleteGateway(g)
      PROVE  LogInv'
  <2>1. [kind |-> "updated", gw |-> g, row |-> Deleted] \in Event
    BY DEF Event
  <2>. QED
    BY <1>0, <1>3, <2>1, WriteKeepsLog DEF DeleteGateway
<1>4. CASE PublishChange
  BY <1>4, PublishKeepsLog
<1>5. CASE UNCHANGED <<rows, stream, wal, missed>>
  BY <1>5 DEF Log, LogInv
<1>. QED
  BY <1>1, <1>2, <1>3, <1>4, <1>5
  DEF QuietStep, Api, CopyTable, Deliver, SendToConsumer, AckWaitExpires, FetchEnds,
      HandleEvent, HandleCreated, HandleDeletion, HandleUpdated, Handling,
      StartSkips, Deploy, StoreHandle, StopReturns, Ack, NextMessage, TaskStops,
      LaunchGateways, StartConsumer, dbVars, cdcVars, streamVars, vars

LEMMA FirstLifeNext ==
  ASSUME IInv, FirstLifeInv, QuietStep
  PROVE  FirstLifeInv'
<1>. USE DEF FirstLifeInv
<1>1. CASE phase = "consuming"
  <2>1. phase' = phase
    BY <1>1
    DEF QuietStep, Api, CreateGateway, UpdateGateway, DeleteGateway, Write,
        CopyTable, PublishChange, Deliver, SendToConsumer, AckWaitExpires, FetchEnds,
        HandleEvent, HandleCreated, HandleDeletion, HandleUpdated, Handling,
        StartSkips, Deploy, StoreHandle, StopReturns, Ack, NextMessage,
        TaskStops, LaunchGateways, StartConsumer, vars
  <2>2. ASSUME ~copied'
        PROVE  Log' = <<>>
    <3>1. ~CopyTable
      BY <2>2 DEF CopyTable
    <3>2. ~copied
      BY <2>2, <3>1
      DEF QuietStep, Api, CreateGateway, UpdateGateway, DeleteGateway, Write,
          PublishChange, Deliver, SendToConsumer, AckWaitExpires, FetchEnds,
          HandleEvent, HandleCreated, HandleDeletion, HandleUpdated, Handling,
          StartSkips, Deploy, StoreHandle, StopReturns, Ack, NextMessage,
          TaskStops, LaunchGateways, StartConsumer, cdcVars, vars
    <3>3. Log = <<>>
      BY <3>2
    <3>4. wal = <<>>
      <4>1. Len(wal) = 0 /\ wal \in Seq(Event)
        BY <3>3, LogType DEF IInv, TypeOK
      <4>. QED
        BY <4>1, EmptySeq
    <3>5. UNCHANGED <<stream, wal>>
      BY <3>1, <3>2, <3>4
      DEF QuietStep, Api, CreateGateway, UpdateGateway, DeleteGateway, Write, Replicate,
          PublishChange, Deliver, SendToConsumer, AckWaitExpires, FetchEnds,
          HandleEvent, HandleCreated, HandleDeletion, HandleUpdated, Handling,
          StartSkips, Deploy, StoreHandle, StopReturns, Ack, NextMessage,
          TaskStops, LaunchGateways, StartConsumer, cdcVars, streamVars, vars
    <3>. QED
      BY <3>3, <3>5 DEF Log
  <2>. QED
    BY <1>1, <2>1, <2>2
<1>2. CASE phase # "consuming"
  <2>1. \/ LaunchGateways
        \/ StartConsumer
        \/ \E t \in Tasks : TaskStops(t)
        \/ \E s \in 1..Len(stream) : AckWaitExpires(s)
        \/ UNCHANGED vars
    BY <1>2
    DEF QuietStep, Api, CreateGateway, UpdateGateway, DeleteGateway, Write,
        Serving, CopyTable, PublishChange, Deliver, Fetching, FetchEnds,
        HandleEvent, HandleCreated, HandleDeletion, HandleUpdated, Handling,
        StartSkips, Deploy, StoreHandle, StopReturns, Ack, NextMessage
  <2>2. UNCHANGED <<rows, wal, copied, stream, nextSeq, batch, handles>>
    BY <2>1 DEF LaunchGateways, StartConsumer, TaskStops, AckWaitExpires, dbVars, cdcVars,
                streamVars, vars
  <2>3. phase' \in {"down", "launching", "consuming"}
    BY <2>1 DEF LaunchGateways, StartConsumer, TaskStops, AckWaitExpires, vars
  <2>4. phase' # "consuming" => step' = step
    BY <2>1 DEF LaunchGateways, StartConsumer, TaskStops, AckWaitExpires, vars,
                handlerVars
  <2>. QED
    BY <1>2, <2>2, <2>3, <2>4 DEF Log
<1>. QED
  BY <1>1, <1>2

LEMMA BatchType ==
  ASSUME IInv
  PROVE  Len(batch) \in Nat /\ nextSeq \in Nat \ {0} /\ FirstUnacked \in Int
BY DEF IInv, TypeOK, FirstUnacked

\* The message at work is the first one not acknowledged.
LEMMA FirstIsCurrent ==
  ASSUME IInv, OrderInv, batch # <<>>
  PROVE  /\ FirstUnacked = Head(batch) /\ FirstUnacked \in 1..Len(stream)
         /\ Current = stream[FirstUnacked] /\ Current \in Event
<1>1. batch \in Seq(Nat) /\ 1 \in 1..Len(batch) /\ Head(batch) = batch[1]
  BY DEF IInv, TypeOK
<1>2. batch[1] = FirstUnacked
  BY <1>1, BatchType DEF OrderInv
<1>. QED
  BY <1>1, <1>2, CurrentType DEF IInv, Current

\* The acknowledgement takes the first message out of the batch.
LEMMA AckEffect ==
  ASSUME IInv, OrderInv, Ack
  PROVE  /\ batch # <<>> /\ step = "done" /\ phase' = phase
         /\ Len(batch) \in Nat \ {0} /\ Len(batch') = Len(batch) - 1
         /\ \A i \in 1..Len(batch') : batch'[i] = batch[i + 1]
         /\ FirstUnacked' = FirstUnacked + 1 /\ nextSeq' = nextSeq
         /\ unacked' = unacked \ {FirstUnacked}
         /\ step' = IF batch' = <<>> THEN "fetch" ELSE "next"
<1>1. batch # <<>>
  BY DEF Ack, NextMessage, IInv, DoneInv
<1>2. /\ Len(batch) \in Nat \ {0} /\ Len(Tail(batch)) = Len(batch) - 1
      /\ \A i \in 1..Len(Tail(batch)) : Tail(batch)[i] = batch[i + 1]
  BY <1>1, HeadTailProperties, EmptySeq DEF IInv, TypeOK
<1>3. nextSeq \in Int
  BY DEF IInv, TypeOK
<1>. QED
  BY <1>1, <1>2, <1>3, FirstIsCurrent DEF Ack, NextMessage, FirstUnacked

LEMMA OrderNext ==
  ASSUME IInv, FirstLifeInv, OrderInv, QuietStep
  PROVE  OrderInv'
<1>1. CASE /\ UNCHANGED <<nextSeq, batch, unacked>>
           /\ step' = "fetch" => redeliver' = {}
           /\ phase' = "consuming" /\ step' = "next" => batch # <<>>
  BY <1>1 DEF OrderInv, FirstUnacked
<1>2. ASSUME NEW s \in 1..Len(stream), AckWaitExpires(s)
      PROVE  OrderInv'
  <2>1. ASSUME step = "fetch"
        PROVE  FALSE
    <3>1. s \in FirstUnacked..(nextSeq - 1) /\ \A i \in 1..Len(batch) : batch[i] # s
      BY <1>2, <2>1 DEF AckWaitExpires, OrderInv
    <3>2. s - FirstUnacked + 1 \in 1..Len(batch)
      BY <3>1, BatchType DEF FirstUnacked
    <3>3. batch[s - FirstUnacked + 1] = s
      BY <3>2, BatchType DEF OrderInv
    <3>. QED
      BY <3>1, <3>2, <3>3
  <2>2. UNCHANGED <<nextSeq, batch, unacked, step, phase>>
    BY <1>2 DEF AckWaitExpires, handlerVars
  <2>. QED
    BY <1>1, <2>1, <2>2 DEF OrderInv
<1>3. ASSUME NEW s \in 1..Len(stream), Deliver(s)
      PROVE  OrderInv'
  <2>1. step = "fetch" /\ s = nextSeq
    BY <1>3 DEF Deliver, Fetching, SendToConsumer, Redelivery, Delivery, OrderInv
  <2>2. /\ nextSeq' = nextSeq + 1 /\ unacked' = unacked \cup {nextSeq}
        /\ redeliver' = redeliver \ {nextSeq} /\ batch' = Append(batch, nextSeq)
        /\ batch \in Seq(Nat) /\ step' = step
    BY <1>3, <2>1 DEF Deliver, SendToConsumer, IInv, TypeOK, handlerVars
  <2>3. /\ Len(batch') = Len(batch) + 1
        /\ \A i \in 1..Len(batch) : batch'[i] = batch[i]
        /\ batch'[Len(batch) + 1] = nextSeq
    BY <2>2
  <2>4. FirstUnacked' = FirstUnacked
    BY <2>2, <2>3, BatchType DEF FirstUnacked
  <2>5. ASSUME NEW i \in 1..Len(batch')
        PROVE  batch'[i] = FirstUnacked + i - 1
    <3>1. CASE i \in 1..Len(batch)
      <4>1. batch[i] = FirstUnacked + i - 1
        BY <3>1 DEF OrderInv
      <4>. QED
        BY <2>3, <3>1, <4>1
    <3>2. CASE i = Len(batch) + 1
      BY <2>3, <3>2, BatchType DEF FirstUnacked
    <3>. QED
      BY <2>3, <3>1, <3>2, BatchType
  <2>6. unacked' = FirstUnacked..(nextSeq' - 1)
    BY <2>2, BatchType DEF OrderInv, FirstUnacked
  <2>. QED
    BY <2>1, <2>2, <2>4, <2>5, <2>6 DEF OrderInv
<1>4. CASE Ack
  <2>1. \A i \in 1..Len(batch') : i + 1 \in 1..Len(batch)
    BY <1>4, AckEffect
  <2>2. ASSUME NEW i \in 1..Len(batch')
        PROVE  batch'[i] = FirstUnacked' + i - 1
    <3>1. batch[i + 1] = FirstUnacked + (i + 1) - 1
      BY <2>1 DEF OrderInv
    <3>. QED
      BY <1>4, <3>1, AckEffect, BatchType
  <2>3. unacked' = FirstUnacked'..(nextSeq' - 1)
    <3>1. unacked = FirstUnacked..(nextSeq - 1)
      BY DEF OrderInv
    <3>2. (FirstUnacked..(nextSeq - 1)) \ {FirstUnacked} = (FirstUnacked + 1)..(nextSeq - 1)
      BY BatchType
    <3>. QED
      BY <1>4, <3>1, <3>2, AckEffect
  <2>4. ASSUME step' = "fetch"
        PROVE  redeliver' = {}
    <3>1. batch' = <<>> /\ Len(batch') = 0
      BY <1>4, <2>4, AckEffect
    <3>2. unacked' = {}
      BY <1>4, <2>3, <3>1, AckEffect, BatchType DEF FirstUnacked
    <3>. QED
      BY <1>4, <3>2 DEF Ack, IInv, TypeOK
  <2>5. step' = "next" => batch' # <<>>
    BY <1>4, AckEffect
  <2>. QED
    BY <2>2, <2>3, <2>4, <2>5 DEF OrderInv
<1>5. CASE StartConsumer
  <2>1. nextSeq = 1 /\ batch = <<>> /\ Len(batch) = 0
    BY <1>5 DEF StartConsumer, FirstLifeInv
  <2>2. unacked = {} /\ redeliver = {}
    BY <2>1 DEF IInv, TypeOK
  <2>3. UNCHANGED <<nextSeq, batch, unacked, redeliver>> /\ step' = "fetch"
    BY <1>5 DEF StartConsumer, streamVars
  <2>. QED
    BY <1>1, <2>2, <2>3
<1>6. CASE HandleEvent
  <2>1. UNCHANGED <<nextSeq, batch, unacked>> /\ step' \in {"start", "waiting", "done"}
    BY <1>6 DEF HandleEvent, HandleCreated, HandleDeletion, HandleUpdated,
                Handling, Stop, Proceed, streamVars
  <2>. QED
    BY <1>1, <2>1
<1>7. CASE StartSkips \/ StoreHandle
  <2>1. phase = "consuming"
    BY <1>7 DEF StartSkips, StoreHandle, FirstLifeInv
  <2>. QED
    BY <1>1, <1>7, <2>1 DEF StartSkips, StoreHandle, Returned, streamVars
<1>8. CASE FetchEnds \/ StopReturns \/ \E t \in Tasks : Deploy(t)
  BY <1>1, <1>8 DEF FetchEnds, StopReturns, Deploy, streamVars
<1>9. CASE LaunchGateways
  <2>1. UNCHANGED <<nextSeq, batch, unacked, redeliver, step>> /\ phase' # "consuming"
    BY <1>9 DEF LaunchGateways, streamVars, handlerVars
  <2>. QED
    BY <1>1, <2>1 DEF OrderInv
<1>10. CASE \/ Api \/ CopyTable \/ PublishChange \/ UNCHANGED vars
            \/ \E t \in Tasks : TaskStops(t)
  <2>1. UNCHANGED <<nextSeq, batch, unacked, redeliver, step, phase>>
    BY <1>10 DEF Api, CreateGateway, UpdateGateway, DeleteGateway, Write,
                 CopyTable, PublishChange, TaskStops, vars, streamVars, handlerVars
  <2>. QED
    BY <1>1, <2>1 DEF OrderInv
<1>. QED
  BY <1>2, <1>3, <1>4, <1>5, <1>6, <1>7, <1>8, <1>9, <1>10 DEF QuietStep

\* What the handle store owes to the changes before n does not change with a
\* step that leaves the gateway's handle alone.
LEMMA FollowsKept ==
  ASSUME NEW n \in Int, n <= Len(stream), NEW g,
         Len(stream) \in Nat, \A i \in 1..Len(stream) : stream'[i] = stream[i],
         Exists(g)' <=> Exists(g),
         Exists(g) => handles'[g] = handles[g],
         Follows(n, g)
  PROVE  Follows(n, g)'
<1>1. \A i \in 1..n : stream'[i] = stream[i]
  OBVIOUS
<1>2. \A i \in 1..n : \A j \in (i + 1)..n : stream'[j] = stream[j]
  OBVIOUS
<1>. QED
  BY <1>1, <1>2 DEF Follows, Exists

\* The last change of a gateway decides.
LEMMA FollowsLast ==
  ASSUME NEW n \in Nat \ {0}, NEW g, stream'[n].gw = g,
         IF stream'[n].row = Deleted THEN ~Exists(g)'
         ELSE Exists(g)' /\ handles'[g].config = stream'[n].row
  PROVE  Follows(n, g)'
<1>1. n \in 1..n
  OBVIOUS
<1>2. ASSUME NEW i \in 1..n, \A j \in (i + 1)..n : stream'[j].gw # g
      PROVE  i = n
  <2>1. i # n => n \in (i + 1)..n
    OBVIOUS
  <2>. QED
    BY <1>2, <2>1
<1>. QED
  BY <1>1, <1>2 DEF Follows, Exists

\* A change of another gateway does not matter.
LEMMA FollowsNext ==
  ASSUME NEW n \in Nat \ {0}, NEW g, stream[n].gw # g, Follows(n - 1, g)
  PROVE  Follows(n, g)
<1>1. \A i \in 1..n : i = n \/ i \in 1..(n - 1)
  OBVIOUS
<1>2. \A i \in 1..(n - 1) : i \in 1..n
  OBVIOUS
<1>3. \A i \in 1..(n - 1) : \A j \in (i + 1)..(n - 1) : j \in (i + 1)..n
  OBVIOUS
<1>4. \A i \in 1..(n - 1) :
        (\A j \in (i + 1)..n : stream[j].gw # g) =>
          \A j \in (i + 1)..(n - 1) : stream[j].gw # g
  BY <1>3
<1>5. CASE \E i \in 1..(n - 1) : stream[i].gw = g
  BY <1>1, <1>2, <1>4, <1>5 DEF Follows
<1>6. CASE ~\E i \in 1..(n - 1) : stream[i].gw = g
  BY <1>1, <1>6 DEF Follows
<1>. QED
  BY <1>5, <1>6

\* The steps that leave the handler's place, its job and the handles alone.
LEMMA FollowFrame ==
  ASSUME IInv, OrderInv, FollowInv,
         Len(stream) \in Nat,
         \A i \in 1..Len(stream) : stream'[i] = stream[i],
         UNCHANGED <<phase, step, job, handles>>,
         FirstUnacked' = FirstUnacked,
         step = "fetch" \/ UNCHANGED batch
  PROVE  FollowInv'
<1>. SUFFICES ASSUME phase = "consuming" PROVE FollowInv'
  BY DEF FollowInv
<1>. PICK n \in Int : n = FirstUnacked
  BY BatchType
<1>0. n <= nextSeq /\ nextSeq <= Len(stream) + 1
  BY BatchType DEF FirstUnacked, IInv, TypeOK
<1>1. step # "fetch" /\ step # "next" => batch # <<>>
  BY DEF IInv, JobInv, DoneInv, AtWork, TypeOK, Steps
<1>2. step # "fetch" /\ step # "next" => /\ Current' = Current
                                         /\ n \in 1..Len(stream)
  <2>1. batch # <<>> => Head(batch) \in 1..Len(stream) /\ n = Head(batch)
    BY FirstIsCurrent
  <2>. QED
    BY <1>1, <2>1 DEF Current
<1>3. ASSUME NEW g \in Gateways, step \in {"fetch", "next"} \/ g # Current'.gw
      PROVE  Follows(FirstUnacked - 1, g)'
  <2>1. Follows(n - 1, g)
    BY <1>2, <1>3 DEF FollowInv
  <2>2. Follows(n - 1, g)'
    BY <1>0, <2>1, FollowsKept, BatchType DEF Exists
  <2>. QED
    BY <2>2 DEF Follows, Exists
<1>4. ASSUME step = "done"
      PROVE  Follows(FirstUnacked, Current.gw)'
  <2>. PICK g : g = Current.gw
    OBVIOUS
  <2>1. Follows(n, g) /\ n <= Len(stream) /\ Current'.gw = g
    BY <1>2, <1>4 DEF FollowInv
  <2>2. Follows(n, g)'
    BY <2>1, FollowsKept DEF Exists
  <2>. QED
    BY <2>1, <2>2 DEF Follows, Exists
<1>5. AtWork => ~Exists(job.gw)'
  BY DEF FollowInv, Exists
<1>. QED
  BY <1>3, <1>4, <1>5 DEF FollowInv, AtWork

\* The steps in which the handler is at work on its message.
LEMMA FollowWork ==
  ASSUME IInv, OrderInv, FollowInv, phase = "consuming", batch # <<>>,
         UNCHANGED <<phase, stream, batch, nextSeq>>,
         step' \in {"start", "deployed", "waiting", "done"},
         step' # "done" => ~Exists(job.gw)',
         step' = "done" => IF Current.row = Deleted
                           THEN Current.gw \notin DOMAIN handles'
                           ELSE /\ Current.gw \in DOMAIN handles'
                                /\ handles'[Current.gw].config = Current.row,
         \A g \in Gateways : g # Current.gw => /\ Exists(g)' <=> Exists(g)
                                               /\ Exists(g) => handles'[g] = handles[g]
  PROVE  FollowInv'
<1>. PICK n \in Int : n = FirstUnacked
  BY BatchType
<1>1. /\ n \in 1..Len(stream) /\ Len(stream) \in Nat /\ Current = stream[n]
      /\ Current' = Current /\ FirstUnacked' = n
  BY FirstIsCurrent DEF IInv, TypeOK, Current, FirstUnacked
<1>2. ASSUME NEW g \in Gateways, g # Current.gw
      PROVE  Follows(FirstUnacked - 1, g)'
  <2>1. Follows(n - 1, g)
    BY <1>2 DEF FollowInv
  <2>2. Follows(n - 1, g)'
    BY <1>1, <1>2, <2>1, FollowsKept
  <2>. QED
    BY <1>1, <2>2 DEF Follows, Exists
<1>3. ASSUME step' = "done"
      PROVE  Follows(FirstUnacked, Current.gw)'
  <2>. PICK g : g = Current.gw
    OBVIOUS
  <2>1. /\ stream'[n].gw = g
        /\ IF stream'[n].row = Deleted THEN ~Exists(g)'
           ELSE Exists(g)' /\ handles'[g].config = stream'[n].row
    BY <1>1, <1>3 DEF Exists
  <2>2. Follows(n, g)'
    BY <1>1, <2>1, FollowsLast
  <2>. QED
    BY <1>1, <2>2 DEF Follows, Exists
<1>. QED
  BY <1>1, <1>2, <1>3 DEF FollowInv, AtWork

\* The change that creates a gateway finds no handle of it.
LEMMA CreatedIsFirst ==
  ASSUME IInv, LogInv, OrderInv, FollowInv, phase = "consuming", step = "next",
         batch # <<>>, Current.kind = "created"
  PROVE  ~Exists(Current.gw)
<1>. PICK n \in Int : n = FirstUnacked
  BY BatchType
<1>1. n \in 1..Len(stream) /\ Current = stream[n] /\ Current.gw \in Gateways
  BY FirstIsCurrent DEF Event
<1>2. TypeOK
  BY DEF IInv
<1>3. n \in 1..Len(Log) /\ \A i \in 1..n : Log[i] = stream[i]
  BY <1>1, <1>2, LogType
<1>4. \A i \in 1..(n - 1) : stream[i].gw # Current.gw
  BY <1>1, <1>3 DEF LogInv
<1>5. Follows(n - 1, Current.gw)
  BY <1>1 DEF FollowInv
<1>. QED
  BY <1>4, <1>5 DEF Follows

LEMMA FollowNext ==
  ASSUME IInv, FirstLifeInv, LogInv, OrderInv, FollowInv, QuietStep, [Next]_vars
  PROVE  FollowInv'
<1>0. /\ Len(stream) \in Nat
      /\ \A i \in 1..Len(stream) : stream'[i] = stream[i]
  BY StreamKept DEF IInv, TypeOK
<1>1. CASE \/ Api \/ CopyTable \/ PublishChange \/ UNCHANGED vars
           \/ \E s \in 1..Len(stream) : AckWaitExpires(s)
           \/ \E t \in Tasks : TaskStops(t)
  <2>1. UNCHANGED <<phase, step, job, handles, nextSeq, batch>>
    BY <1>1 DEF Api, CreateGateway, UpdateGateway, DeleteGateway, Write,
                CopyTable, PublishChange, AckWaitExpires, TaskStops, vars, streamVars,
                handlerVars
  <2>. QED
    BY <1>0, <2>1, FollowFrame DEF FirstUnacked
<1>2. ASSUME NEW s \in 1..Len(stream), Deliver(s)
      PROVE  FollowInv'
  <2>1. /\ UNCHANGED <<phase, step, job, handles>> /\ step = "fetch"
        /\ batch' = Append(batch, s) /\ nextSeq' = nextSeq + 1
    BY <1>2 DEF Deliver, Fetching, SendToConsumer, Redelivery, Delivery, OrderInv,
                handlerVars
  <2>2. Len(batch') = Len(batch) + 1
    BY <2>1 DEF IInv, TypeOK
  <2>3. FirstUnacked' = FirstUnacked
    BY <2>1, <2>2, BatchType DEF FirstUnacked
  <2>. QED
    BY <1>0, <2>1, <2>3, FollowFrame
<1>3. CASE FetchEnds
  <2>1. /\ UNCHANGED <<stream, nextSeq, batch, phase, handles, job>>
        /\ step = "fetch" /\ step' = "next"
    BY <1>3 DEF FetchEnds, streamVars
  <2>. QED
    BY <2>1 DEF FollowInv, Follows, FirstUnacked, Exists, AtWork
<1>4. CASE HandleEvent
  <2>1. /\ Handling /\ phase = "consuming" /\ step = "next" /\ batch # <<>>
        /\ UNCHANGED <<phase, stream, batch, nextSeq>>
    BY <1>4 DEF HandleEvent, HandleCreated, HandleDeletion, HandleUpdated,
                Handling, streamVars
  <2>2. Current \in Event
    BY <2>1, CurrentType DEF IInv
  <2>3. CASE \E want : Stop(Current.gw, want)
    <3>1. /\ step' = "waiting" /\ job'.gw = Current.gw
          /\ DOMAIN handles' = DOMAIN handles \ {Current.gw}
          /\ \A g \in DOMAIN handles' : handles'[g] = handles[g]
      BY <2>3 DEF Stop, Remove
    <3>. QED
      BY <2>1, <3>1, FollowWork DEF Exists
  <2>4. CASE HandleCreated(Current)
    <3>1. /\ step' = "start" /\ job'.gw = Current.gw /\ handles' = handles
          /\ Current.kind = "created"
      BY <2>4 DEF HandleCreated, Proceed
    <3>2. ~Exists(Current.gw)
      BY <2>1, <3>1, CreatedIsFirst
    <3>. QED
      BY <2>1, <3>1, <3>2, FollowWork DEF Exists
  <2>5. CASE HandleDeletion(Current) /\ ~Exists(Current.gw) /\ Proceed("done", NoJob)
    <3>1. Current.row = Deleted
      BY <2>2, <2>5 DEF HandleDeletion, IsDeletion, Event
    <3>2. step' = "done" /\ handles' = handles
      BY <2>5 DEF Proceed
    <3>. QED
      BY <2>1, <2>5, <3>1, <3>2, FollowWork DEF Exists
  <2>6. CASE HandleUpdated(Current) /\ ~Exists(Current.gw)
             /\ Proceed("start", [gw |-> Current.gw, want |-> Current.row])
    <3>1. step' = "start" /\ job'.gw = Current.gw /\ handles' = handles
      BY <2>6 DEF Proceed
    <3>. QED
      BY <2>1, <2>6, <3>1, FollowWork DEF Exists
  <2>7. CASE HandleUpdated(Current) /\ ~ConfigChanged(Current) /\ Proceed("done", NoJob)
    <3>1. Current.row # Deleted
      BY <2>7 DEF HandleUpdated, IsDeletion
    <3>2. Exists(Current.gw) /\ handles[Current.gw].config = Current.row
      BY <2>7 DEF ConfigChanged
    <3>3. step' = "done" /\ handles' = handles
      BY <2>7 DEF Proceed
    <3>. QED
      BY <2>1, <3>1, <3>2, <3>3, FollowWork DEF Exists
  <2>. QED
    BY <1>4, <2>3, <2>4, <2>5, <2>6, <2>7
    DEF HandleEvent, HandleDeletion, HandleUpdated
<1>5. CASE AtWork
  <2>1. /\ phase = "consuming" /\ batch # <<>> /\ job.gw = Current.gw
        /\ IF IsDeletion(Current) THEN job.want = Deleted ELSE job.want = Current.row
        /\ ~Exists(job.gw) /\ Current \in Event
    BY <1>5, CurrentType DEF FirstLifeInv, IInv, JobInv, AtWork, FollowInv
  <2>2. IsDeletion(Current) => Current.row = Deleted
    BY <2>1 DEF IsDeletion, Event
  <2>3. job.want = Current.row
    BY <2>1, <2>2
  <2>4. CASE \E t \in Tasks : Deploy(t)
    <3>1. /\ step' = "deployed" /\ UNCHANGED <<job, handles, phase, stream, batch, nextSeq>>
      BY <2>4 DEF Deploy, streamVars
    <3>. QED
      BY <2>1, <3>1, FollowWork DEF Exists
  <2>5. CASE StoreHandle
    <3>1. /\ step' = "done" /\ UNCHANGED <<phase, stream, batch, nextSeq>>
          /\ DOMAIN handles' = DOMAIN handles \cup {Current.gw}
          /\ handles'[Current.gw].config = Current.row
          /\ \A g \in DOMAIN handles : g # Current.gw => handles'[g] = handles[g]
      BY <2>1, <2>3, <2>5 DEF StoreHandle, Upsert, Returned, streamVars
    <3>2. Current.row # Deleted
      BY <2>3, <2>5, RowsAssumption DEF StoreHandle, IInv, StepInv
    <3>. QED
      BY <2>1, <3>1, <3>2, FollowWork DEF Exists
  <2>6. CASE StopReturns
    <3>1. /\ UNCHANGED <<phase, stream, batch, nextSeq, handles>>
          /\ \/ job.want = Deleted /\ step' = "done"
             \/ step' = "start" /\ job' = job
      BY <2>6 DEF StopReturns, streamVars
    <3>. QED
      BY <2>1, <2>3, <3>1, FollowWork DEF Exists
  <2>7. ~StartSkips
    BY <2>1 DEF StartSkips
  <2>8. \/ \E t \in Tasks : Deploy(t) \/ TaskStops(t)
        \/ StoreHandle \/ StopReturns \/ Api \/ CopyTable \/ PublishChange
        \/ UNCHANGED vars
        \/ \E s \in 1..Len(stream) : AckWaitExpires(s)
    BY <1>5, <2>1, <2>7 DEF QuietStep, AtWork, FetchEnds, HandleEvent, HandleCreated,
       HandleDeletion, HandleUpdated, Handling, Ack, NextMessage, LaunchGateways,
       StartConsumer, Deliver, Fetching
  <2>. QED
    BY <1>1, <2>4, <2>5, <2>6, <2>8
<1>6. CASE Ack
  <2>. PICK n \in Int : n = FirstUnacked
    BY BatchType
  <2>1. /\ batch # <<>> /\ step = "done" /\ phase' = phase
        /\ FirstUnacked' = n + 1 /\ step' \in {"fetch", "next"}
        /\ UNCHANGED <<stream, handles, job>>
    BY <1>6, AckEffect DEF Ack, NextMessage
  <2>2. n \in 1..Len(stream) /\ Current = stream[n]
    BY <2>1, FirstIsCurrent
  <2>3. phase = "consuming"
    BY <2>1 DEF IInv, StepInv
  <2>4. ASSUME NEW g \in Gateways
        PROVE  Follows(FirstUnacked - 1, g)'
    <3>1. g = Current.gw => Follows(n, g)
      BY <2>1, <2>3 DEF FollowInv
    <3>2. ASSUME g # Current.gw
          PROVE  Follows(n, g)
      <4>1. Follows(n - 1, g)
        BY <2>1, <2>3, <3>2 DEF FollowInv
      <4>. QED
        BY <2>2, <3>2, <4>1, FollowsNext
    <3>. QED
      BY <2>1, <3>1, <3>2 DEF Follows, Exists
  <2>. QED
    BY <2>1, <2>4 DEF FollowInv, AtWork
<1>7. CASE StartConsumer
  <2>1. /\ nextSeq = 1 /\ batch = <<>> /\ Len(batch) = 0 /\ DOMAIN handles = {}
        /\ UNCHANGED <<nextSeq, batch, handles>> /\ step' = "fetch"
    BY <1>7 DEF StartConsumer, FirstLifeInv, streamVars
  <2>2. FirstUnacked' = 1
    <3>1. nextSeq' = 1 /\ Len(batch') = 0
      BY <2>1
    <3>. QED
      BY <3>1 DEF FirstUnacked
  <2>3. \A g \in Gateways : Follows(FirstUnacked - 1, g)'
    BY <2>1, <2>2 DEF Follows, Exists
  <2>. QED
    BY <2>1, <2>3 DEF FollowInv, AtWork
<1>8. CASE LaunchGateways
  BY <1>8 DEF LaunchGateways, FollowInv
<1>. QED
  BY <1>1, <1>2, <1>3, <1>4, <1>5, <1>6, <1>7, <1>8
  DEF QuietStep, StartSkips, Deploy, StoreHandle, StopReturns, AtWork

LEMMA NoFaultNext ==
  ASSUME IInv, AliveInv, NoFaultInv, [Next]_vars
  PROVE  NoFaultInv'
<1>. SUFFICES ASSUME faults' = 0
              PROVE  (FirstLifeInv /\ LogInv /\ OrderInv /\ FollowInv)'
  BY DEF NoFaultInv
<1>1. TypeOK
  BY DEF IInv
<1>2. faults = 0
  BY <1>1, FaultsGrow
<1>3. FirstLifeInv /\ LogInv /\ OrderInv /\ FollowInv
  BY <1>2 DEF NoFaultInv
<1>4. QuietStep
  BY <1>2, <1>3, QuietNext
<1>. QED
  BY <1>1, <1>3, <1>4, FirstLifeNext, LogNext, OrderNext, FollowNext

LEMMA InitRowInv == Init => RowInv
<1>. SUFFICES ASSUME Init PROVE RowInv
  OBVIOUS
<1>1. /\ stream = <<>> /\ wal = <<>> /\ batch = <<>> /\ nextSeq = 1
      /\ DOMAIN handles = {} /\ phase = "down" /\ step = "next" /\ ~shutdownToken
      /\ unacked = {} /\ rows = [g \in Gateways |-> Absent] /\ missed = {}
  BY DEF Init, EmptyMap
<1>2. /\ Len(stream) = 0 /\ Len(wal) = 0 /\ Len(batch) = 0
      /\ stream \o wal = <<>> /\ Len(stream \o wal) = 0
  BY <1>1
<1>3. DeletedInv /\ TrackedInv /\ AliveInv
  BY <1>1, <1>2 DEF DeletedInv, TrackedInv, AliveInv
<1>4. FirstLifeInv
  BY <1>1, <1>2 DEF FirstLifeInv, Log
<1>5. LogInv
  <2>1. Len(Log) = 0 /\ \A g \in Gateways : rows[g] = Absent
    BY <1>1, <1>2 DEF Log
  <2>. QED
    BY <1>1, <2>1 DEF LogInv
<1>6. OrderInv
  <2>1. FirstUnacked = 1
    BY <1>1, <1>2 DEF FirstUnacked
  <2>. QED
    BY <1>1, <1>2, <2>1 DEF OrderInv
<1>7. FollowInv
  BY <1>1 DEF FollowInv
<1>. QED
  BY <1>3, <1>4, <1>5, <1>6, <1>7 DEF RowInv, NoFaultInv

(***************************************************************************)
(* The theorems.                                                            *)
(***************************************************************************)
LEMMA InitIInv == Init => IInv
<1>. SUFFICES ASSUME Init PROVE IInv
  OBVIOUS
<1>1. DOMAIN EmptyMap = {} /\ EmptyMap \in [{} -> Handle] /\ EmptyMap \in [{} -> Task]
  BY DEF EmptyMap
<1>2. TypeOK
  <2>1. DOMAIN handles = {} /\ handles \in [DOMAIN handles -> Handle]
    BY <1>1 DEF Init
  <2>2. DOMAIN tasks = {} /\ tasks \in [DOMAIN tasks -> Task]
    BY <1>1 DEF Init
  <2>3. changes \in 0..MaxChanges /\ faults \in 0..MaxFaults
    BY BoundsAssumption DEF Init
  <2>4. wal \in Seq(Event) /\ stream \in Seq(Event) /\ batch \in Seq(Nat)
    BY DEF Init
  <2>5. nextSeq \in 1..(Len(stream) + 1) /\ Len(batch) = 0
    BY DEF Init
  <2>. QED
    <3>1. /\ rows \in [Gateways -> Configs \cup {Absent, Deleted}] /\ todo = {}
          /\ copied \in BOOLEAN /\ missed \subseteq Gateways
      BY DEF Init
    <3>2. /\ phase \in Phases /\ step \in Steps /\ shutdownToken \in BOOLEAN
          /\ job \in Job \cup {NoJob} /\ held \in Tasks \cup {NoTask}
      BY DEF Init, Phases, Steps
    <3>3. unacked = {} /\ redeliver = {} /\ \A i \in 1..Len(batch) : FALSE
      BY <2>5 DEF Init
    <3>. QED
      BY <2>1, <2>2, <2>3, <2>4, <2>5, <3>1, <3>2, <3>3 DEF TypeOK
<1>3. StepInv /\ JobInv /\ DoneInv /\ DeployedInv
  BY DEF Init, StepInv, JobInv, DoneInv, DeployedInv, AtWork
<1>4. NoOrphan /\ OneSubscriber /\ HandleIsTrue
  BY <1>1 DEF Init, NoOrphan, OneSubscriber, Subscribed, HandleIsTrue
<1>. QED
  BY <1>2, <1>3, <1>4 DEF IInv, TaskInv

\* The inductive invariant holds in every reachable state.
THEOREM Invariance == Spec => []IInv
<1>1. IInv /\ [Next]_vars => IInv'
  BY TypeNext, StepNext, TaskNext, WorkNext DEF IInv, TaskInv
<1>. QED
  BY InitIInv, <1>1, PTL DEF Spec

\* The state has its types: in particular every message of the batch is in the
\* stream, and the launch starts no gateway whose row is deleted.
THEOREM TypeCorrect == Spec => []TypeOK
<1>1. IInv => TypeOK
  BY DEF IInv
<1>. QED
  BY Invariance, <1>1, PTL

\* No subscriber task runs that the orchestrator has lost track of, whatever
\* crashes, redeliveries, lost acknowledgements and timed-out waits happen.
THEOREM NoOrphanTask == Spec => []NoOrphan
<1>1. IInv => NoOrphan
  BY DEF IInv, TaskInv
<1>. QED
  BY Invariance, <1>1, PTL

\* At most one subscriber of a gateway has not been told to stop.
THEOREM AtMostOneSubscriber == Spec => []OneSubscriber
<1>1. IInv => OneSubscriber
  BY DEF IInv, TaskInv
<1>. QED
  BY Invariance, <1>1, PTL

\* The handles tell the gateway, the configuration and the life of their tasks.
THEOREM HandlesAreTrue == Spec => []HandleIsTrue
<1>1. IInv => HandleIsTrue
  BY DEF IInv, TaskInv
<1>. QED
  BY Invariance, <1>1, PTL

\* A message is acknowledged after the handler has brought about its effect.
THEOREM AckAfterEffect == Spec => AckedAfterEffect
<1>1. ASSUME IInv, [Next]_vars
      PROVE  [\A s \in unacked \ unacked' : Applied(stream[s])]_vars
  <2>1. CASE Ack
    <3>1. unacked \ unacked' \subseteq {Head(batch)} /\ step = "done"
      BY <2>1 DEF Ack, NextMessage
    <3>. QED
      BY <1>1, <3>1 DEF IInv, DoneInv, Current
  <2>2. CASE UNCHANGED unacked \/ \E s \in 1..Len(stream) : SendToConsumer(s)
    BY <2>2 DEF SendToConsumer
  <2>. QED
    BY <1>1, <2>1, <2>2
    DEF Next, Api, CreateGateway, UpdateGateway, DeleteGateway, Write, CdcWorker,
        CopyTable, PublishChange, SkipChange, JetStream, Deliver, LoseDelivery,
        AckWaitExpires, Handler, FetchEnds, HandleEvent, HandleCreated,
        HandleDeletion, HandleUpdated, Handling, StartSkips, Deploy, StoreHandle,
        StopReturns, LoseAck, Subscribers, TaskStops, TaskGivesUp, Process,
        LaunchGateways, LaunchNext, StartConsumer, StopConsumer, CancelTasks,
        Exit, Crash, Terminate, streamVars, vars
<1>2. IInv /\ [Next]_vars => [\A s \in unacked \ unacked' : Applied(stream[s])]_vars
  BY <1>1
<1>. QED
  BY Invariance, <1>2, PTL DEF Spec, AckedAfterEffect

\* The invariant behind the two theorems that follow.  A live row that neither a
\* handle nor a step still to come takes care of is one whose last change since
\* the launch was missed: it was committed before the CDC worker copied the
\* table, or could not be published.  Without faults the log of the changes since
\* the copy says what became of every row that was not missed.
THEOREM RowInvariance == Spec => []RowInv
<1>1. IInv /\ RowInv /\ [Next]_vars => RowInv'
  <2>. SUFFICES ASSUME IInv, RowInv, [Next]_vars PROVE RowInv'
    OBVIOUS
  <2>1. TypeOK /\ DeletedInv /\ TrackedInv /\ AliveInv /\ NoFaultInv
    BY DEF IInv, RowInv
  <2>. QED
    BY <2>1, DeletedNext, TrackedNext, AliveNext, NoFaultNext DEF RowInv
<1>. QED
  BY InitRowInv, Invariance, <1>1, PTL DEF Spec

\* The handle of a gateway has a subscriber that nothing has told to stop.
LEMMA HandleRuns ==
  ASSUME IInv, AliveInv, "giveUp" \notin Faults \/ faults = 0, ~shutdownToken,
         NEW g \in DOMAIN handles
  PROVE  /\ handles[g].task \in Subscribed(g)
         /\ tasks[handles[g].task].config = handles[g].config
<1>1. handles[g].task \in DOMAIN tasks
  BY DEF AliveInv
<1>2. tasks[handles[g].task] =
        [gw |-> g, config |-> handles[g].config, cancelled |-> FALSE]
  BY <1>1, HandleTruth DEF IInv, TaskInv
<1>. QED
  BY <1>1, <1>2 DEF Subscribed

\* Whatever crashes, shutdowns, lost deliveries, lost acknowledgements, failed
\* publications and subscribers that gave up there were: once nothing is left to
\* do a live row has a subscriber, unless its last change since the launch was
\* missed (before the copy of the table, or by a failed publication) or the task
\* of its handle gave up.
THEOREM NoGatewayIsForgotten == Spec => []NoForgottenGateway
<1>1. ASSUME IInv, RowInv
      PROVE  NoForgottenGateway
  <2>. SUFFICES ASSUME Quiescent, NEW g \in Gateways, rows[g] \in Configs,
                       g \notin missed, ~GaveUp(g)
                PROVE  Running(g) # {}
    BY DEF NoForgottenGateway
  <2>1. ~Pending(g)
    <3>1. wal = <<>> /\ nextSeq = Len(stream) + 1 /\ unacked = {}
      BY DEF Quiescent
    <3>2. Len(wal) = 0 /\ nextSeq > Len(stream) /\ Len(stream) \in Nat
      BY <1>1, <3>1 DEF IInv, TypeOK
    <3>. QED
      BY <3>1, <3>2 DEF Pending
  <2>2. Exists(g)
    BY <1>1, <2>1 DEF RowInv, TrackedInv, Quiescent, AtWork
  <2>3. ~shutdownToken
    BY <1>1 DEF RowInv, AliveInv, Quiescent
  <2>4. handles[g].task \in DOMAIN tasks
    <3>1. CASE "giveUp" \in Faults
      BY <2>2, <3>1 DEF GaveUp
    <3>2. CASE "giveUp" \notin Faults
      BY <1>1, <2>2, <2>3, <3>2 DEF RowInv, AliveInv, Exists
    <3>. QED
      BY <3>1, <3>2
  <2>5. handles[g].task \in Subscribed(g)
    <3>1. tasks[handles[g].task] =
            [gw |-> g, config |-> handles[g].config, cancelled |-> FALSE]
      BY <1>1, <2>2, <2>4, HandleTruth DEF IInv, TaskInv, Exists
    <3>. QED
      BY <2>4, <3>1 DEF Subscribed
  <2>. QED
    BY <2>5 DEF Running
<1>2. IInv /\ RowInv => NoForgottenGateway
  BY <1>1
<1>. QED
  BY Invariance, RowInvariance, <1>2, PTL

\* As long as no fault happens the subscribers are those of the live rows, with
\* the configurations of the rows, whenever nothing is left to do: the changes
\* of a row take effect in the order they were committed in, each once.  Only a
\* gateway last written before the CDC worker copied the table has no subscriber.
THEOREM OneToOne == Spec => []OneToOneWithoutFaults
<1>1. ASSUME IInv, RowInv
      PROVE  OneToOneWithoutFaults
  <2>. SUFFICES ASSUME faults = 0, Quiescent, NEW g \in Gateways
                PROVE  Running(g) = Wanted(g)
    BY DEF OneToOneWithoutFaults
  <2>. PICK n \in Nat : n = Len(stream)
    BY <1>1 DEF IInv, TypeOK
  <2>1. /\ phase = "consuming" /\ step = "fetch" /\ batch = <<>>
        /\ wal = <<>> /\ nextSeq = n + 1 /\ Len(batch) = 0
    BY DEF Quiescent
  <2>2. Log = stream
    BY <1>1, <2>1, ConcatEmptySeq DEF IInv, TypeOK, Log
  <2>3. Follows(n, g)
    <3>1. FirstUnacked - 1 = n
      BY <2>1 DEF FirstUnacked
    <3>. QED
      BY <1>1, <2>1, <3>1 DEF RowInv, NoFaultInv, FollowInv
  <2>4. \A i \in 1..n : stream[i].row \in Configs \cup {Deleted}
    BY <1>1 DEF IInv, TypeOK, Event
  <2>5. /\ Exists(g) <=> rows[g] \in Configs /\ g \notin missed
        /\ Exists(g) => handles[g].config = rows[g]
    <3>1. CASE /\ rows[g] = Absent \/ g \in missed
               /\ \A i \in 1..n : stream[i].gw # g
      BY <2>3, <3>1, RowsAssumption DEF Follows
    <3>2. CASE \E i \in 1..n : /\ stream[i].gw = g /\ stream[i].row = rows[g]
                               /\ \A j \in (i + 1)..n : stream[j].gw # g
      <4>1. g \notin missed
        BY <1>1, <3>2 DEF RowInv, NoFaultInv, LogInv
      <4>. QED
        BY <2>3, <2>4, <3>2, <4>1, RowsAssumption DEF Follows
    <3>. QED
      BY <1>1, <2>2, <3>1, <3>2 DEF RowInv, NoFaultInv, LogInv
  <2>6. ~shutdownToken
    BY <1>1, <2>1 DEF RowInv, AliveInv
  <2>7. \A t \in Subscribed(g) : Exists(g) /\ handles[g].task = t
    BY <1>1, <2>1 DEF Subscribed, IInv, TaskInv, NoOrphan
  <2>8. CASE Exists(g)
    <3>1. /\ handles[g].task \in Subscribed(g)
          /\ tasks[handles[g].task].config = rows[g]
      BY <1>1, <2>5, <2>6, <2>8, HandleRuns DEF RowInv, Exists
    <3>2. Running(g) = {rows[g]}
      BY <2>7, <3>1 DEF Running
    <3>. QED
      BY <2>5, <2>8, <3>2 DEF Wanted
  <2>9. CASE ~Exists(g)
    BY <2>5, <2>7, <2>9 DEF Running, Wanted
  <2>. QED
    BY <2>8, <2>9
<1>2. IInv /\ RowInv => OneToOneWithoutFaults
  BY <1>1
<1>. QED
  BY Invariance, RowInvariance, <1>2, PTL

-----------------------------------------------------------------------------
(***************************************************************************)
(* The orchestrator implements ServedGateways.                              *)
(***************************************************************************)

\* The launch starts a gateway with what its row says: the rows change only
\* when the launch is over.
THEOREM LaunchStartsRows == Spec => []LaunchInv
<1>1. Init => LaunchInv
  BY DEF Init, LaunchInv
<1>2. IInv /\ LaunchInv /\ [Next]_vars => LaunchInv'
  <2>. SUFFICES ASSUME IInv, LaunchInv, [Next]_vars, phase' = "launching", AtWork'
                PROVE  step' # "waiting" /\ rows'[job'.gw] = job'.want
    BY DEF LaunchInv
  <2>. USE DEF AtWork
  <2>1. StepInv
    BY DEF IInv
  <2>2. CASE Api \/ CdcWorker
    BY <2>2 DEF Api, CreateGateway, UpdateGateway, DeleteGateway, Write, Serving,
                CdcWorker, CopyTable, PublishChange, SkipChange
  <2>3. CASE JetStream \/ Subscribers \/ CancelTasks
    BY <2>1, <2>3 DEF JetStream, Deliver, LoseDelivery, SendToConsumer, AckWaitExpires,
                      Subscribers, TaskStops, TaskGivesUp, CancelTasks, LaunchInv,
                      dbVars, cdcVars, handlerVars
  <2>4. CASE FetchEnds \/ HandleEvent \/ Ack \/ LoseAck
    BY <2>1, <2>4 DEF FetchEnds, HandleEvent, HandleCreated, HandleDeletion,
                      HandleUpdated, Handling, Ack, LoseAck, NextMessage, StepInv
  <2>5. CASE StartSkips \/ StoreHandle \/ StopReturns \/ \E t \in Tasks : Deploy(t)
    BY <2>1, <2>5 DEF StartSkips, StoreHandle, StopReturns, Returned, Deploy, StepInv,
                      LaunchInv, dbVars, cdcVars
  <2>6. CASE LaunchGateways
    BY <2>1, <2>6 DEF LaunchGateways, StepInv, handlerVars
  <2>7. CASE \E g \in Gateways : LaunchNext(g)
    BY <2>7 DEF LaunchNext, Proceed, dbVars, cdcVars
  <2>8. CASE StartConsumer \/ StopConsumer \/ Exit \/ Crash
    BY <2>8 DEF StartConsumer, StopConsumer, Exit, Crash, Terminate
  <2>9. CASE UNCHANGED vars
    BY <2>9 DEF vars, LaunchInv, dbVars, cdcVars, handlerVars
  <2>. QED
    BY <2>2, <2>3, <2>4, <2>5, <2>6, <2>7, <2>8, <2>9 DEF Next, Handler, Process
<1>. QED
  BY <1>1, <1>2, Invariance, PTL DEF Spec

\* What serves the gateways depends on the tasks alone.
LEMMA ServedKept ==
  ASSUME UNCHANGED tasks
  PROVE  ServedNow' = ServedNow
BY DEF ServedNow, Running, Subscribed

\* When tasks end or are told to stop, some gateways are not served any more.
LEMMA EndsSome ==
  ASSUME OneSubscriber,
         DOMAIN tasks' \subseteq DOMAIN tasks,
         \A t \in DOMAIN tasks' : /\ tasks'[t].gw = tasks[t].gw
                                  /\ tasks'[t].config = tasks[t].config
                                  /\ tasks[t].cancelled => tasks'[t].cancelled
  PROVE  \E gs \in SUBSET Gateways : Served!End(gs)
<1>. DEFINE gs == {g \in Gateways : Subscribed(g)' = {}}
<1>1. \A g \in Gateways : Subscribed(g)' \subseteq Subscribed(g)
  BY DEF Subscribed
<1>2. ASSUME NEW g \in Gateways
      PROVE  ServedNow'[g] = IF g \in gs THEN {} ELSE ServedNow[g]
  <2>1. ServedNow[g] = Running(g) /\ ServedNow'[g] = Running(g)'
    BY DEF ServedNow
  <2>2. CASE g \in gs
    BY <2>1, <2>2 DEF Running
  <2>3. CASE g \notin gs
    <3>1. PICK t \in Subscribed(g)' : TRUE
      BY <2>3
    <3>2. Subscribed(g)' = {t} /\ Subscribed(g) = {t}
      BY <1>1, <3>1 DEF OneSubscriber
    <3>3. t \in DOMAIN tasks'
      BY <3>1 DEF Subscribed
    <3>4. Running(g)' = {tasks'[t].config} /\ Running(g) = {tasks[t].config}
      BY <3>2 DEF Running
    <3>. QED
      BY <2>1, <2>3, <3>3, <3>4
  <2>. QED
    BY <2>2, <2>3
<1>3. gs \in SUBSET Gateways
  OBVIOUS
<1>. HIDE DEF gs
<1>4. ServedNow' = [g \in Gateways |-> IF g \in gs THEN {} ELSE ServedNow[g]]
  <2>1. ServedNow' = [g \in Gateways |-> ServedNow'[g]]
    BY DEF ServedNow
  <2>. QED
    BY <1>2, <2>1
<1>. QED
  BY <1>3, <1>4 DEF Served!End
\* A deployment serves one gateway more, with the configuration of the job.
LEMMA DeployServes ==
  ASSUME IInv, NEW t \in Tasks, Deploy(t)
  PROVE  /\ job.gw \in Gateways /\ job.want \in Configs
         /\ ServedNow[job.gw] = {}
         /\ ServedNow' = [ServedNow EXCEPT ![job.gw] = {job.want}]
<1>1. /\ step = "start" /\ phase # "closing" /\ ~Exists(job.gw)
      /\ job.gw \in Gateways /\ job.want \in Configs
  BY DEF Deploy, IInv, StepInv, AtWork, Job
<1>2. /\ t \notin DOMAIN tasks
      /\ DOMAIN tasks' = DOMAIN tasks \cup {t}
      /\ tasks'[t] = [gw |-> job.gw, config |-> job.want, cancelled |-> FALSE]
      /\ \A u \in DOMAIN tasks : tasks'[u] = tasks[u]
  BY DEF Deploy, Spawn, Unused
<1>3. Subscribed(job.gw) = {}
  BY <1>1 DEF IInv, TaskInv, NoOrphan, Subscribed
<1>4. Subscribed(job.gw)' = {t}
  <2>1. job' = job
    BY DEF Deploy
  <2>. QED
    BY <1>2, <1>3, <2>1 DEF Subscribed
<1>5. ASSUME NEW g \in Gateways, g # job.gw
      PROVE  ServedNow'[g] = ServedNow[g]
  <2>1. /\ Subscribed(g)' = Subscribed(g)
        /\ \A u \in Subscribed(g) : tasks'[u] = tasks[u]
    BY <1>2, <1>5 DEF Subscribed
  <2>2. Running(g)' = Running(g)
    BY <2>1 DEF Running
  <2>. QED
    BY <2>2 DEF ServedNow
<1>6. ServedNow[job.gw] = {} /\ ServedNow'[job.gw] = {job.want}
  <2>1. job' = job
    BY DEF Deploy
  <2>2. Running(job.gw) = {} /\ Running(job.gw)' = {job.want}
    BY <1>2, <1>3, <1>4, <2>1 DEF Running
  <2>. QED
    BY <1>1, <2>1, <2>2 DEF ServedNow
<1>7. ServedNow' = [ServedNow EXCEPT ![job.gw] = {job.want}]
  <2>1. /\ ServedNow = [g \in Gateways |-> ServedNow[g]]
        /\ ServedNow' = [g \in Gateways |-> ServedNow'[g]]
    BY DEF ServedNow
  <2>. QED
    BY <1>5, <1>6, <2>1
<1>. QED
  BY <1>1, <1>6, <1>7

\* As long as no subscriber gives up, a gateway with a handle is served with
\* what the handle says, and one without a handle is not served.
LEMMA ServedByHandle ==
  ASSUME IInv, AliveInv, faults = 0, phase = "consuming", step # "deployed",
         NEW g \in Gateways
  PROVE  ServedNow[g] = IF Exists(g) THEN {handles[g].config} ELSE {}
<1>1. ~shutdownToken
  BY DEF AliveInv
<1>2. \A t \in Subscribed(g) : Exists(g) /\ handles[g].task = t
  BY DEF Subscribed, IInv, TaskInv, NoOrphan
<1>3. CASE Exists(g)
  <2>1. /\ handles[g].task \in Subscribed(g)
        /\ tasks[handles[g].task].config = handles[g].config
    BY <1>1, <1>3, HandleRuns DEF Exists
  <2>2. Running(g) = {handles[g].config}
    BY <1>2, <2>1 DEF Running
  <2>. QED
    BY <1>3, <2>2 DEF ServedNow
<1>4. CASE ~Exists(g)
  BY <1>2, <1>4 DEF ServedNow, Running
<1>. QED
  BY <1>3, <1>4

\* The gateway whose handle is taken out of the store is not served any more,
\* though its task may still be running.
LEMMA StopServes ==
  ASSUME IInv, NEW g \in Gateways, NEW want, Stop(g, want), step = "next",
         phase = "consuming"
  PROVE  ServedNow' = [ServedNow EXCEPT ![g] = {}]
<1>. DEFINE t == handles[g].task
<1>1. /\ g \in DOMAIN handles
      /\ DOMAIN tasks' = DOMAIN tasks
      /\ \A u \in DOMAIN tasks : u # t => tasks'[u] = tasks[u]
      /\ t \in DOMAIN tasks => tasks'[t].cancelled /\ tasks[t].gw = g /\ tasks'[t].gw = g
  <2>1. /\ g \in DOMAIN handles
        /\ tasks' = [x \in DOMAIN tasks |->
                       IF x = t THEN [tasks[x] EXCEPT !.cancelled = TRUE] ELSE tasks[x]]
    BY DEF Stop, Cancel, Exists
  <2>2. t \in DOMAIN tasks =>
          tasks[t] = [gw |-> g, config |-> handles[g].config, cancelled |-> FALSE]
    BY <2>1, HandleTruth DEF IInv, TaskInv
  <2>. QED
    BY <2>1, <2>2
<1>2. \A u \in Subscribed(g) : u = t
  BY DEF Subscribed, IInv, TaskInv, NoOrphan
<1>. HIDE DEF t
<1>3. ServedNow'[g] = {}
  <2>1. Subscribed(g)' = {}
    BY <1>1, <1>2 DEF Subscribed
  <2>2. Running(g)' = {}
    BY <2>1 DEF Running
  <2>. QED
    BY <2>2 DEF ServedNow
<1>4. ASSUME NEW h \in Gateways, h # g
      PROVE  ServedNow'[h] = ServedNow[h]
  <2>1. /\ Subscribed(h)' = Subscribed(h)
        /\ \A u \in Subscribed(h) : tasks'[u] = tasks[u]
    BY <1>1, <1>4 DEF Subscribed
  <2>2. Running(h)' = Running(h)
    BY <2>1 DEF Running
  <2>. QED
    BY <2>2 DEF ServedNow
<1>5. /\ ServedNow = [h \in Gateways |-> ServedNow[h]]
      /\ ServedNow' = [h \in Gateways |-> ServedNow'[h]]
  BY DEF ServedNow
<1>. QED
  BY <1>3, <1>4, <1>5

\* A task that was told to stop does not count, so nothing changes when it ends.
LEMMA ForgetServes ==
  ASSUME NEW t \in DOMAIN tasks, tasks[t].cancelled, Forget(t)
  PROVE  ServedNow' = ServedNow
<1>1. ASSUME NEW g \in Gateways
      PROVE  Running(g)' = Running(g)
  <2>1. /\ DOMAIN tasks' = DOMAIN tasks \ {t}
        /\ \A u \in DOMAIN tasks' : tasks'[u] = tasks[u]
    BY DEF Forget
  <2>2. /\ Subscribed(g)' = Subscribed(g)
        /\ \A u \in Subscribed(g) : tasks'[u] = tasks[u]
    BY <2>1 DEF Subscribed
  <2>. QED
    BY <2>2 DEF Running
<1>. QED
  BY <1>1 DEF ServedNow

\* The change due next is the one of the message at work.
LEMMA DueIsCurrent ==
  ASSUME IInv, OrderInv, faults = 0, batch # <<>>
  PROVE  Served!Following /\ Served!Due = Current
<1>. PICK n \in Int : n = FirstUnacked
  BY BatchType
<1>1. n \in 1..Len(stream) /\ Current = stream[n]
  BY FirstIsCurrent
<1>2. Followed = n - 1 /\ ~Disturbed
  BY DEF Followed, Disturbed
<1>3. TypeOK
  BY DEF IInv
<1>4. Log[n] = stream[n] /\ n - 1 < Len(Log)
  BY <1>1, <1>3, LogType
<1>. QED
  BY <1>1, <1>2, <1>4 DEF Served!Following, Served!Due

\* The quiet steps leave the place of the first message alone, except that an
\* acknowledgement moves on by one.
LEMMA PlaceKept ==
  ASSUME IInv, FirstLifeInv, OrderInv, QuietStep, ~Ack
  PROVE  FirstUnacked' = FirstUnacked
<1>1. ASSUME NEW s \in 1..Len(stream), Deliver(s)
      PROVE  FirstUnacked' = FirstUnacked
  <2>1. step = "fetch" /\ s = nextSeq
    BY <1>1 DEF Deliver, Fetching, SendToConsumer, Redelivery, Delivery, OrderInv
  <2>2. nextSeq' = nextSeq + 1 /\ batch' = Append(batch, s) /\ batch \in Seq(Nat)
    BY <1>1, <2>1 DEF Deliver, SendToConsumer, IInv, TypeOK
  <2>3. Len(batch') = Len(batch) + 1
    BY <2>2
  <2>. QED
    BY <2>2, <2>3, BatchType DEF FirstUnacked
<1>2. CASE UNCHANGED <<nextSeq, batch>>
  BY <1>2 DEF FirstUnacked
<1>. QED
  BY <1>1, <1>2
  DEF QuietStep, Api, CreateGateway, UpdateGateway, DeleteGateway, Write,
      CopyTable, PublishChange, AckWaitExpires, FetchEnds, HandleEvent, HandleCreated,
      HandleDeletion, HandleUpdated, Handling, StartSkips, Deploy, StoreHandle,
      StopReturns, TaskStops, LaunchGateways, StartConsumer, streamVars, vars
\* The steps that commit nothing and touch no task.
LEMMA ServedStutters ==
  ASSUME UNCHANGED <<rows, copied, tasks, faults>>, Log' = Log, Followed' = Followed
  PROVE  UNCHANGED Served!vars
<1>1. ServedNow' = ServedNow
  BY ServedKept
<1>2. Disturbed' = Disturbed
  BY DEF Disturbed
<1>. QED
  BY <1>1, <1>2 DEF Served!vars

\* A write of the API is a commit.
LEMMA ApiCommits ==
  ASSUME TypeOK, Api, Followed' = Followed
  PROVE  \E c \in Event : Served!Commit(c)
<1>1. ASSUME NEW g \in Gateways, NEW kind, NEW row, Write(kind, g, row),
             [kind |-> kind, gw |-> g, row |-> row] \in Event,
             \/ rows[g] = Absent /\ row \in Configs
             \/ rows[g] \in Configs /\ row \in Configs \cup {Deleted}
      PROVE  \E c \in Event : Served!Commit(c)
  <2>. DEFINE e == [kind |-> kind, gw |-> g, row |-> row]
  <2>1. Log' = IF copied THEN Append(Log, e) ELSE Log
    <3>1. CASE copied
      BY <1>1, <3>1, WriteLog
    <3>2. CASE ~copied
      BY <1>1, <3>2 DEF Write, Replicate, Log, streamVars
    <3>. QED
      BY <3>1, <3>2
  <2>2. rows' = [rows EXCEPT ![g] = row] /\ UNCHANGED <<copied, tasks, faults>>
    BY <1>1 DEF Write
  <2>3. ServedNow' = ServedNow /\ Disturbed' = Disturbed
    BY <2>2, ServedKept DEF Disturbed
  <2>4. e.gw = g /\ e.row = row /\ e \in Event
    BY <1>1
  <2>. HIDE DEF e
  <2>5. Served!Commit(e)
    BY <1>1, <2>1, <2>2, <2>3, <2>4 DEF Served!Commit
  <2>. QED
    BY <2>4, <2>5
<1>2. ASSUME NEW g \in Gateways, NEW c \in Configs, CreateGateway(g, c)
      PROVE  \E e \in Event : Served!Commit(e)
  <2>1. [kind |-> "created", gw |-> g, row |-> c] \in Event
    BY DEF Event
  <2>. QED
    BY <1>1, <1>2, <2>1 DEF CreateGateway
<1>3. ASSUME NEW g \in Gateways, NEW c \in Configs, UpdateGateway(g, c)
      PROVE  \E e \in Event : Served!Commit(e)
  <2>1. [kind |-> "updated", gw |-> g, row |-> c] \in Event
    BY DEF Event
  <2>. QED
    BY <1>1, <1>3, <2>1 DEF UpdateGateway
<1>4. ASSUME NEW g \in Gateways, DeleteGateway(g)
      PROVE  \E e \in Event : Served!Commit(e)
  <2>1. [kind |-> "updated", gw |-> g, row |-> Deleted] \in Event
    BY DEF Event
  <2>. QED
    BY <1>1, <1>4, <2>1 DEF DeleteGateway
<1>. QED
  BY <1>2, <1>3, <1>4 DEF Api

\* The copy of the table starts the log.
LEMMA CopyWatches ==
  ASSUME CopyTable, Followed' = Followed
  PROVE  Served!Watch
<1>1. UNCHANGED <<rows, stream, wal, tasks, faults>> /\ copied' = TRUE
  BY DEF CopyTable, dbVars, streamVars
<1>2. Log' = Log /\ ServedNow' = ServedNow /\ Disturbed' = Disturbed
  BY <1>1, ServedKept DEF Log, Disturbed
<1>. QED
  BY <1>1, <1>2 DEF Served!Watch

\* The stream is the part of the log that is published.
LEMMA Published ==
  ASSUME TypeOK
  PROVE  SubSeq(Log, 1, Len(stream)) = stream
<1>. DEFINE k == Len(stream)
<1>1. stream \in Seq(Event) /\ wal \in Seq(Event) /\ k \in Nat
  BY DEF TypeOK
<1>2. CASE k = 0
  <2>1. stream = <<>>
    BY <1>1, <1>2, EmptySeq
  <2>. QED
    BY <1>2, <2>1, SubSeqEmpty
<1>3. CASE k # 0
  <2>1. 1 \in 1..k /\ k \in 1..k
    BY <1>1, <1>3
  <2>2. SubSeq(Log, 1, k) = SubSeq(stream, 1, k)
    BY <1>1, <2>1, SubSeqOfConcat1 DEF Log
  <2>. QED
    BY <1>1, <2>2, SubSeqFull
<1>. QED
  BY <1>2, <1>3

\* The end of a life forgets what is not published.
LEMMA EndForgets ==
  ASSUME TypeOK, Terminate
  PROVE  Served!Unwatch
<1>1. stream' = stream /\ wal' = <<>> /\ copied' = FALSE
  BY DEF Terminate, streamVars
<1>2. Log' = stream
  BY <1>1, ConcatEmptySeq DEF TypeOK, Log
<1>3. Len(stream) \in 0..Len(Log)
  BY LogType
<1>. QED
  BY <1>1, <1>2, <1>3, Published DEF Served!Unwatch

\* A change that is not published is lost from the log.
LEMMA SkipLoses ==
  ASSUME TypeOK, SkipChange
  PROVE  Served!Lose
<1>. DEFINE k == Len(stream)
            m == Len(wal)
<1>1. /\ wal # <<>> /\ wal' = Tail(wal) /\ stream' = stream /\ copied' = copied
      /\ stream \in Seq(Event) /\ wal \in Seq(Event)
  BY DEF SkipChange, streamVars, TypeOK
<1>2. k \in Nat /\ m \in Nat \ {0} /\ Len(Log) = k + m
  BY <1>1, LogType, EmptySeq
<1>3. SubSeq(Log, 1, k) = stream
  BY Published
<1>4. SubSeq(Log, k + 2, k + m) = Tail(wal)
  <2>1. Tail(wal) = SubSeq(wal, 2, m)
    BY <1>1, TailIsSubSeq
  <2>2. CASE m = 1
    <3>1. SubSeq(Log, k + 2, k + m) = <<>> /\ SubSeq(wal, 2, m) = <<>>
      BY <1>2, <2>2, SubSeqEmpty
    <3>. QED
      BY <2>1, <3>1
  <2>3. CASE m # 1
    <3>1. k + 2 \in (k + 1)..(k + m) /\ k + m \in (k + 1)..(k + m)
      BY <1>2, <2>3
    <3>2. SubSeq(Log, k + 2, k + m) = SubSeq(wal, (k + 2) - k, (k + m) - k)
      BY <1>1, <3>1, SubSeqOfConcat2 DEF Log
    <3>3. (k + 2) - k = 2 /\ (k + m) - k = m
      BY <1>2
    <3>. QED
      BY <2>1, <3>2, <3>3
  <2>. QED
    BY <2>2, <2>3
<1>5. Log' = SubSeq(Log, 1, (k + 1) - 1) \o SubSeq(Log, (k + 1) + 1, Len(Log))
  <2>1. (k + 1) - 1 = k /\ (k + 1) + 1 = k + 2
    BY <1>2
  <2>. QED
    BY <1>1, <1>2, <1>3, <1>4, <2>1 DEF Log
<1>6. k + 1 \in 1..Len(Log)
  BY <1>2
<1>. QED
  BY <1>1, <1>5, <1>6 DEF Served!Lose

\* Tasks end, or are told to, in every step that spawns none.
LEMMA TasksEnd ==
  ASSUME IInv,
         \/ UNCHANGED tasks
         \/ \E t \in Tasks : Forget(t)
         \/ \E g \in Gateways, want \in Configs \cup {Deleted} : Stop(g, want)
         \/ Terminate
  PROVE  \E gs \in SUBSET Gateways : Served!End(gs)
<1>1. OneSubscriber
  BY DEF IInv, TaskInv
<1>2. CASE UNCHANGED tasks
  BY <1>1, <1>2, EndsSome
<1>3. ASSUME NEW t \in Tasks, Forget(t)
      PROVE  \E gs \in SUBSET Gateways : Served!End(gs)
  <2>1. DOMAIN tasks' = DOMAIN tasks \ {t} /\ \A u \in DOMAIN tasks' : tasks'[u] = tasks[u]
    BY <1>3 DEF Forget
  <2>. QED
    BY <1>1, <2>1, EndsSome
<1>4. ASSUME NEW t, Cancel(t)
      PROVE  \E gs \in SUBSET Gateways : Served!End(gs)
  <2>1. /\ DOMAIN tasks' = DOMAIN tasks
        /\ \A u \in DOMAIN tasks' : tasks[u] \in Task
        /\ \A u \in DOMAIN tasks' :
             tasks'[u] = IF u = t THEN [tasks[u] EXCEPT !.cancelled = TRUE] ELSE tasks[u]
    BY <1>4 DEF Cancel, IInv, TypeOK
  <2>2. \A u \in DOMAIN tasks' : /\ tasks'[u].gw = tasks[u].gw
                                 /\ tasks'[u].config = tasks[u].config
                                 /\ tasks[u].cancelled => tasks'[u].cancelled
    BY <2>1 DEF Task
  <2>. QED
    BY <1>1, <2>1, <2>2, EndsSome
<1>5. CASE Terminate
  <2>1. DOMAIN tasks' = {}
    BY <1>5 DEF Terminate, EmptyMap
  <2>. QED
    BY <1>1, <2>1, EndsSome
<1>. QED
  BY <1>2, <1>3, <1>4, <1>5 DEF Stop
\* A fault disturbs, may lose a change and may end subscribers.
LEMMA FaultDisturbs ==
  ASSUME IInv, [Next]_vars, faults' # faults
  PROVE  Served!Disturb
<1>0. TypeOK
  BY DEF IInv
<1>1. faults \in Nat /\ faults' = faults + 1
  BY <1>0, FaultsGrow
<1>2. Disturbed' = TRUE /\ Followed' = 0
  BY <1>1 DEF Disturbed, Followed
<1>3. \/ SkipChange
      \/ \E s \in 1..Len(stream) : LoseDelivery(s)
      \/ LoseAck \/ StopConsumer \/ Crash
      \/ \E t \in Tasks : TaskGivesUp(t)
  BY <1>1
  DEF Next, Api, CreateGateway, UpdateGateway, DeleteGateway, Write, CdcWorker,
      CopyTable, PublishChange, JetStream, Deliver, AckWaitExpires, Handler, FetchEnds,
      HandleEvent, HandleCreated, HandleDeletion, HandleUpdated, Handling,
      StartSkips, Deploy, StoreHandle, StopReturns, Ack, Subscribers, TaskStops,
      Process, LaunchGateways, LaunchNext, StartConsumer, CancelTasks, Exit, vars
<1>4. rows' = rows
  BY <1>3 DEF SkipChange, LoseDelivery, SendToConsumer, LoseAck, NextMessage,
              StopConsumer, Crash, Terminate, TaskGivesUp, dbVars, cdcVars
<1>5. UNCHANGED <<Log, copied>> \/ Served!Lose \/ Served!Unwatch
  <2>1. SkipChange \/ Terminate \/ UNCHANGED <<stream, wal, copied>>
    BY <1>3 DEF LoseDelivery, SendToConsumer, LoseAck, NextMessage, StopConsumer,
                Crash, TaskGivesUp, cdcVars, streamVars
  <2>2. UNCHANGED <<stream, wal>> => Log' = Log
    BY DEF Log
  <2>. QED
    BY <1>0, <2>1, <2>2, SkipLoses, EndForgets
<1>6. \E gs \in SUBSET Gateways : Served!End(gs)
  <2>1. \/ UNCHANGED tasks
        \/ \E t \in Tasks : Forget(t)
        \/ Terminate
    BY <1>3 DEF SkipChange, LoseDelivery, SendToConsumer, LoseAck, NextMessage,
                StopConsumer, Crash, TaskGivesUp
  <2>. QED
    BY <2>1, TasksEnd
<1>. QED
  BY <1>2, <1>4, <1>5, <1>6 DEF Served!Disturb

\* What a deployment starts is what the row has, or what a change speaks of.
LEMMA DeployOffers ==
  ASSUME IInv, LaunchInv, NEW t \in Tasks, Deploy(t)
  PROVE  job.want \in Served!Offered(job.gw)
<1>1. /\ job.want \in Configs /\ AtWork /\ step = "start"
      /\ phase \in {"launching", "consuming"}
  BY DEF Deploy, IInv, StepInv, AtWork
<1>2. CASE phase = "launching"
  BY <1>1, <1>2 DEF LaunchInv, Served!Offered
<1>3. CASE phase = "consuming"
  <2>1. /\ batch # <<>> /\ job.gw = Current.gw
        /\ IF IsDeletion(Current) THEN job.want = Deleted ELSE job.want = Current.row
    BY <1>1, <1>3 DEF IInv, JobInv
  <2>2. job.want = Current.row
    BY <1>1, <2>1, RowsAssumption
  <2>3. PICK i \in 1..Len(stream) : Current = stream[i]
    BY <2>1, CurrentType DEF IInv, Current
  <2>4. i \in 1..Len(Log) /\ Log[i] = Current
    BY <2>3, LogType DEF IInv
  <2>. QED
    BY <1>1, <2>1, <2>2, <2>4 DEF Served!Offered
<1>. QED
  BY <1>1, <1>2, <1>3

\* Once disturbed.
LEMMA DisturbedStep ==
  ASSUME IInv, LaunchInv, [Next]_vars, faults' = faults, faults # 0
  PROVE  [Served!Next]_(Served!vars)
<1>0. TypeOK /\ faults \in Nat
  BY FaultsGrow DEF IInv
<1>1. Disturbed /\ Disturbed' = Disturbed /\ Followed' = Followed
  BY <1>0 DEF Disturbed, Followed
<1>2. CASE Api
  BY <1>0, <1>1, <1>2, ApiCommits DEF Served!Next
<1>3. ASSUME NEW t \in Tasks, Deploy(t)
      PROVE  \E g \in Gateways : Served!StartAny(g)
  <2>1. UNCHANGED <<rows, stream, wal, copied>>
    BY <1>3 DEF Deploy, dbVars, cdcVars, streamVars
  <2>2. Log' = Log
    BY <2>1 DEF Log
  <2>3. /\ job.gw \in Gateways /\ ServedNow[job.gw] = {}
        /\ ServedNow' = [ServedNow EXCEPT ![job.gw] = {job.want}]
    BY <1>3, DeployServes
  <2>4. job.want \in Served!Offered(job.gw)
    BY <1>3, DeployOffers
  <2>5. Served!StartAny(job.gw)
    BY <1>1, <2>1, <2>2, <2>3, <2>4 DEF Served!StartAny
  <2>. QED
    BY <2>3, <2>5
<1>4. CASE /\ UNCHANGED <<Log, copied>> \/ Served!Unwatch
           /\ rows' = rows
           /\ \/ UNCHANGED tasks
              \/ \E t \in Tasks : Forget(t)
              \/ \E g \in Gateways, want \in Configs \cup {Deleted} : Stop(g, want)
              \/ Terminate
  <2>1. \E gs \in SUBSET Gateways : Served!End(gs)
    BY <1>4, TasksEnd
  <2>2. Served!EndSome
    BY <1>1, <1>4, <2>1 DEF Served!EndSome
  <2>. QED
    BY <2>2 DEF Served!Next
<1>5. CASE HandleEvent
  <2>1. Handling /\ Current \in Event
    BY <1>5, CurrentType DEF HandleEvent, HandleCreated, HandleDeletion,
                             HandleUpdated, Handling, IInv
  <2>2. UNCHANGED <<rows, stream, wal, copied>> /\ Current.gw \in Gateways
        /\ Current.row \in Configs \cup {Deleted}
    BY <2>1 DEF Handling, dbVars, cdcVars, streamVars, Event
  <2>3. \/ UNCHANGED tasks
        \/ \E g \in Gateways, want \in Configs \cup {Deleted} : Stop(g, want)
    BY <1>5, <2>2 DEF HandleEvent, HandleCreated, HandleDeletion, HandleUpdated,
                      Proceed
  <2>4. Log' = Log
    BY <2>2 DEF Log
  <2>. QED
    BY <1>4, <2>2, <2>3, <2>4
<1>6. CASE PublishChange
  <2>1. UNCHANGED <<rows, copied, tasks>>
    BY <1>6 DEF PublishChange, dbVars
  <2>. QED
    BY <1>0, <1>4, <1>6, <2>1, PublishLog
<1>7. CASE \E t \in Tasks : TaskStops(t) \/ TaskGivesUp(t)
  <2>1. /\ UNCHANGED <<rows, stream, wal, copied>>
        /\ \E t \in Tasks : Forget(t)
    BY <1>7 DEF TaskStops, TaskGivesUp, dbVars, cdcVars, streamVars
  <2>2. Log' = Log
    BY <2>1 DEF Log
  <2>. QED
    BY <1>4, <2>1, <2>2
<1>8. CASE SkipChange
  BY <1>0, <1>8 DEF SkipChange, Fault
<1>9. CASE UNCHANGED <<rows, stream, wal, copied, tasks>>
  <2>1. Log' = Log
    BY <1>9 DEF Log
  <2>. QED
    BY <1>4, <1>9, <2>1
<1>10. CASE Exit \/ Crash
  <2>1. Terminate /\ rows' = rows
    BY <1>10 DEF Exit, Crash, Terminate, dbVars
  <2>. QED
    BY <1>0, <1>4, <2>1, EndForgets
<1>11. CASE CopyTable
  BY <1>1, <1>11, CopyWatches DEF Served!Next
<1>. QED
  BY <1>2, <1>3, <1>5, <1>6, <1>7, <1>8, <1>9, <1>10, <1>11
  DEF Next, Served!Next, CdcWorker, JetStream, Deliver, LoseDelivery, SendToConsumer,
      AckWaitExpires, Handler, FetchEnds, StartSkips, StoreHandle, StopReturns,
      Ack, LoseAck, NextMessage, Subscribers, Process, LaunchGateways, LaunchNext,
      Proceed, StartConsumer, StopConsumer, CancelTasks, dbVars, cdcVars, streamVars, vars
\* The handler starts what the change that is due wants.
LEMMA DeployStartsDue ==
  ASSUME IInv, FirstLifeInv, OrderInv, faults = 0, faults' = 0,
         Followed' = Followed, NEW t \in Tasks, Deploy(t)
  PROVE  Served!StartDue
<1>1. /\ phase = "consuming" /\ AtWork /\ step = "start"
  BY DEF Deploy, FirstLifeInv, AtWork
<1>2. /\ batch # <<>> /\ job.gw = Current.gw
      /\ IF IsDeletion(Current) THEN job.want = Deleted ELSE job.want = Current.row
  BY <1>1 DEF IInv, JobInv
<1>3. /\ ServedNow[job.gw] = {} /\ job.want \in Configs
      /\ ServedNow' = [ServedNow EXCEPT ![job.gw] = {job.want}]
  BY DeployServes
<1>4. Served!Following /\ Served!Due = Current
  BY <1>2, DueIsCurrent
<1>5. Served!Wants(Current) = {job.want}
  BY <1>2, <1>3, RowsAssumption DEF Served!Wants
<1>6. UNCHANGED <<rows, stream, wal, copied>>
  BY DEF Deploy, dbVars, cdcVars, streamVars
<1>7. Log' = Log /\ Disturbed' = Disturbed
  BY <1>6 DEF Log, Disturbed
<1>. QED
  BY <1>2, <1>3, <1>4, <1>5, <1>6, <1>7 DEF Served!StartDue

\* The handler ends what serves the gateway only if the change that is due
\* wants something else.
LEMMA StopEndsEarlier ==
  ASSUME IInv, AliveInv, OrderInv, faults = 0, faults' = 0,
         Followed' = Followed, HandleEvent, NEW want, Stop(Current.gw, want)
  PROVE  Served!EndEarlier
<1>1. /\ Handling /\ phase = "consuming" /\ step = "next" /\ batch # <<>>
      /\ UNCHANGED <<rows, stream, wal, copied>>
  BY DEF HandleEvent, HandleCreated, HandleDeletion, HandleUpdated, Handling, dbVars, cdcVars,
         streamVars
<1>2. Current \in Event /\ Current.gw \in Gateways
  BY <1>1, CurrentType DEF IInv, Event
<1>3. Served!Following /\ Served!Due = Current
  BY <1>1, DueIsCurrent
<1>4. Exists(Current.gw) /\ ServedNow[Current.gw] = {handles[Current.gw].config}
  <2>1. Exists(Current.gw)
    BY DEF Stop
  <2>. QED
    BY <1>1, <1>2, <2>1, ServedByHandle
<1>5. ServedNow' = [ServedNow EXCEPT ![Current.gw] = {}]
  BY <1>1, <1>2, StopServes
<1>6. {handles[Current.gw].config} # Served!Wants(Current)
  <2>1. ~HandleCreated(Current)
    BY DEF HandleCreated, Proceed, Stop
  <2>2. CASE HandleDeletion(Current)
    <3>1. Current.row = Deleted
      BY <1>2, <2>2 DEF HandleDeletion, IsDeletion, Event
    <3>. QED
      BY <3>1, RowsAssumption DEF Served!Wants
  <2>3. CASE HandleUpdated(Current)
    <3>1. ConfigChanged(Current)
      BY <2>3 DEF HandleUpdated, Proceed, Stop
    <3>2. handles[Current.gw].config # Current.row
      BY <1>4, <3>1 DEF ConfigChanged
    <3>. QED
      BY <3>2 DEF Served!Wants
  <2>. QED
    BY <2>1, <2>2, <2>3 DEF HandleEvent
<1>7. Log' = Log /\ Disturbed' = Disturbed
  BY <1>1 DEF Log, Disturbed
<1>. QED
  BY <1>1, <1>3, <1>4, <1>5, <1>6, <1>7 DEF Served!EndEarlier

\* An acknowledgement goes on to the next change when the gateway is served as
\* the change that is due wants.
LEMMA AckGoesOn ==
  ASSUME IInv, AliveInv, OrderInv, FollowInv, faults = 0, faults' = 0, Ack
  PROVE  Served!GoOn
<1>. PICK n \in Int : n = FirstUnacked
  BY BatchType
<1>1. /\ batch # <<>> /\ step = "done" /\ FirstUnacked' = n + 1
      /\ UNCHANGED <<rows, stream, wal, copied, tasks>>
  BY AckEffect DEF Ack, NextMessage, dbVars, cdcVars
<1>2. phase = "consuming"
  BY <1>1 DEF IInv, StepInv
<1>3. /\ n \in 1..Len(stream) /\ Current = stream[n] /\ Current \in Event
      /\ Served!Following /\ Served!Due = Current
  BY <1>1, FirstIsCurrent, DueIsCurrent
<1>4. Current.gw \in Gateways /\ Current.row \in Configs \cup {Deleted}
  BY <1>3 DEF Event
<1>5. IF Current.row = Deleted THEN ~Exists(Current.gw)
      ELSE Exists(Current.gw) /\ handles[Current.gw].config = Current.row
  <2>1. Follows(n, Current.gw)
    BY <1>1, <1>2 DEF FollowInv
  <2>2. n \in 1..n /\ \A j \in (n + 1)..n : FALSE
    BY <1>3
  <2>. QED
    BY <1>3, <2>1, <2>2 DEF Follows
<1>6. ServedNow[Current.gw] = IF Exists(Current.gw) THEN {handles[Current.gw].config} ELSE {}
  BY <1>1, <1>2, <1>4, ServedByHandle
<1>7. ServedNow[Current.gw] = Served!Wants(Current)
  BY <1>4, <1>5, <1>6, RowsAssumption DEF Served!Wants
<1>8. Followed' = Followed + 1
  BY <1>1 DEF Followed
<1>9. Log' = Log /\ Disturbed' = Disturbed /\ ServedNow' = ServedNow
  BY <1>1, ServedKept DEF Log, Disturbed
<1>. QED
  BY <1>1, <1>3, <1>7, <1>8, <1>9 DEF Served!GoOn

\* As long as nothing is disturbed.
LEMMA QuietServes ==
  ASSUME IInv, AliveInv, FirstLifeInv, OrderInv, FollowInv,
         [Next]_vars, faults = 0, faults' = 0
  PROVE  [Served!Next]_(Served!vars)
<1>1. QuietStep /\ TypeOK
  BY QuietNext DEF IInv
<1>2. CASE Ack
  BY <1>2, AckGoesOn DEF Served!Next, Served!Follow
<1>. SUFFICES ASSUME ~Ack PROVE [Served!Next]_(Served!vars)
  BY <1>2
<1>3. Followed' = Followed
  BY <1>1, PlaceKept DEF Followed
<1>4. CASE Api
  BY <1>1, <1>3, <1>4, ApiCommits DEF Served!Next
<1>5. CASE \E t \in Tasks : Deploy(t)
  BY <1>3, <1>5, DeployStartsDue DEF Served!Next, Served!Follow
<1>6. CASE HandleEvent
  <2>1. CASE \E want : Stop(Current.gw, want)
    BY <1>3, <1>6, <2>1, StopEndsEarlier DEF Served!Next, Served!Follow
  <2>2. CASE \E s, j : Proceed(s, j)
    <3>1. UNCHANGED <<rows, stream, wal, copied, tasks>>
      BY <1>6, <2>2 DEF HandleEvent, HandleCreated, HandleDeletion, HandleUpdated,
                        Handling, Proceed, dbVars, cdcVars, streamVars
    <3>. QED
      BY <1>3, <3>1, ServedStutters DEF Log
  <2>. QED
    BY <1>6, <2>1, <2>2 DEF HandleEvent, HandleCreated, HandleDeletion, HandleUpdated
<1>7. CASE PublishChange
  <2>1. UNCHANGED <<rows, copied, tasks>>
    BY <1>7 DEF PublishChange, dbVars
  <2>. QED
    BY <1>1, <1>3, <1>7, <2>1, PublishLog, ServedStutters
<1>8. ASSUME NEW t \in Tasks, TaskStops(t)
      PROVE  UNCHANGED Served!vars
  <2>1. ~shutdownToken
    BY DEF AliveInv, FirstLifeInv
  <2>2. ServedNow' = ServedNow
    BY <1>8, <2>1, ForgetServes DEF TaskStops
  <2>3. UNCHANGED <<rows, stream, wal, copied>>
    BY <1>8 DEF TaskStops, dbVars, cdcVars, streamVars
  <2>4. Log' = Log /\ Disturbed' = Disturbed
    BY <2>3 DEF Log, Disturbed
  <2>. QED
    BY <1>3, <2>2, <2>3, <2>4 DEF Served!vars
<1>9. CASE UNCHANGED <<rows, stream, wal, copied, tasks>>
  BY <1>3, <1>9, ServedStutters DEF Log
<1>10. CASE CopyTable
  BY <1>3, <1>10, CopyWatches DEF Served!Next
<1>. QED
  BY <1>1, <1>4, <1>5, <1>6, <1>7, <1>8, <1>9, <1>10
  DEF QuietStep, Deliver, SendToConsumer, AckWaitExpires, FetchEnds, StartSkips,
      StoreHandle, StopReturns, LaunchGateways, StartConsumer, dbVars, cdcVars, streamVars, vars

LEMMA InitServes == Init => Served!Init
<1>. SUFFICES ASSUME Init PROVE Served!Init
  OBVIOUS
<1>1. Log = <<>>
  BY DEF Init, Log
<1>2. Followed = 0
  <2>1. Len(batch) = 0 /\ nextSeq = 1
    BY DEF Init
  <2>. QED
    BY <2>1 DEF Followed, FirstUnacked
<1>3. ServedNow = [g \in Gateways |-> {}]
  <2>1. DOMAIN tasks = {}
    BY DEF Init, EmptyMap
  <2>. QED
    BY <2>1 DEF ServedNow, Running, Subscribed
<1>4. Disturbed = FALSE
  BY DEF Init, Disturbed
<1>. QED
  BY <1>1, <1>2, <1>3, <1>4 DEF Init, Served!Init

\* The orchestrator keeps its promise: as long as nothing is disturbed, each
\* change committed since the CDC worker copied the table takes effect once and in
\* its turn, one committed earlier has none, no gateway is touched but the one it
\* speaks of, nothing restarts that runs as it should, and an
\* earlier configuration ends before the next one starts; and in every other
\* behaviour a gateway is served by one subscriber at most, with what its row
\* has or what one of its changes speaks of.
THEOREM ImplementsServedGateways == Spec => ServesGateways
<1>1. ASSUME IInv, RowInv, LaunchInv, [Next]_vars
      PROVE  [Served!Next]_(Served!vars)
  <2>1. CASE faults' # faults
    BY <1>1, <2>1, FaultDisturbs DEF Served!Next
  <2>2. CASE faults' = faults /\ faults # 0
    BY <1>1, <2>2, DisturbedStep
  <2>3. CASE faults' = faults /\ faults = 0
    BY <1>1, <2>3, QuietServes DEF RowInv, NoFaultInv
  <2>. QED
    BY <2>1, <2>2, <2>3
<1>2. IInv /\ RowInv /\ LaunchInv /\ [Next]_vars => [Served!Next]_(Served!vars)
  BY <1>1
<1>. QED
  BY InitServes, Invariance, RowInvariance, LaunchStartsRows, <1>2, PTL
  DEF Spec, ServesGateways, Served!Spec
=============================================================================
