# ponix-rs in TLA+

This directory is a verification development for the ponix-rs workspace: TLA+
modules translated from the Rust source, TLC configurations that check small
instances of them, and TLAPS proofs of the theorems that should hold for every
instance. Paths below are relative to `crates/` of the repository.

## 1. The system

`ponix_all_in_one` is one program. `main.rs` brings up what the program stands on
(migrations, clients, streams, policies, consumers), builds every part, and hands
its long-running processes and its closers to the runner.

| Part | State it keeps | Operations | Talks to |
|---|---|---|---|
| start-up (`ponix_all_in_one/src`, `goose`, `common/src/nats`) | tables, streams, consumers and policies, all outside the program | some twenty steps in a fixed order, each of which may fail; restart by the supervisor | PostgreSQL, ClickHouse, JetStream |
| runner (`runner/src/lib.rs`) | join set, cancellation token, first error | start, join, signal, abort, closers, exit | every process, by the token |
| API services and repositories (`ponix_api/src/domain`, `common/src/postgres`) | rows of organizations and gateways (soft deletion), definitions (hard deletion), end devices, memberships | create, update, delete, each after its checks; get and list | authorization; CDC, by the write-ahead log |
| authorization (`common/src/auth`) | policies and roles, in memory and in `casbin_rule` | load the policies, assign a role, require a permission | the API services |
| CDC worker (`cdc_worker`) | position in the log, table schemas, all in memory | copy a table, learn its schema, publish each committed change | PostgreSQL to JetStream |
| gateway orchestrator (`gateway_orchestrator`) | deployment handles, spawned tasks | launch, created, updated, deleted, shutdown | consumer, handle store, tasks |
| MQTT subscriber (`gateway_orchestrator/src/mqtt`) | retry count, connection | connect, receive, publish, retry, stop | broker, JetStream |
| NATS consumer (`common/src/nats/tower_consumer.rs`) | the batch in hand | fetch, serve, ack, nak | JetStream, a tower service |
| analytics worker (`analytics_worker`) | inserter buffer | raw to processed, buffer, commit | PostgreSQL, JetStream, ClickHouse |
| payload decoding (`common/src/cel`) | none | decode Cayenne LPP, run a compiled CEL expression, convert JSON to CEL and back | the analytics worker |
| users and refresh tokens (`ponix_api`, `common/src/auth`) | rows of users and of the hashes of refresh tokens; a cookie in each browser | register, login, refresh, logout | PostgreSQL, browsers |

What is hard about it:

* Several asynchronous actors share state through tables, streams, an in-memory
  map and cancellation tokens. A tokio `select!` may drop a handler at an await.
* JetStream delivers at least once, out of order after a redelivery, and each
  acknowledgement may be lost. A handler must bear a message twice, or late.
* Durable state (rows, log, streams, consumers) survives a crash; handles,
  tasks, batches, the inserter's buffer and the replication state do not.
* An API request is a chain of queries without a transaction: what it checked may
  be untrue when it writes, and its client may leave between any two of them. Two
  requests of one browser may carry the same refresh token.
* What is made at start-up survives a start that fails half way, and the next one
  must cope with it; some of its errors are ignored.
* Time: `ack_wait`, the fetch's `max_wait`, the five seconds of `wait_for_stop`,
  the closers' timeout, reconnect delays and the commit interval race with what
  they wait for.

What makes each part correct is stated beside the runs in section 4.
`PROJECT.json` lists the hazards with the line where each bites and the
properties that would notice it going wrong.

## 2. Modules

| Module | Models | Used by |
|---|---|---|
| `GatewayOrchestrator` | table, log, stream, consumer, handle store, tasks and handlers of the orchestrator | `MCGatewayOrchestrator`, `GatewayOrchestratorProofs` |
| `ServedGateways` | abstract: undisturbed, what serves the gateways follows, one by one, the changes committed once they are watched; disturbed, it may end and start again, with a configuration of the row or of a change | refined by `GatewayOrchestrator` |
| `MqttSubscriber` | the subscriber tasks of one gateway and the broker's session | `MCMqttSubscriber`, `MqttSubscriberProofs` |
| `SubscriberTasks` | abstract: a task that is told to stop ends; one that is not may give up | refined by `MqttSubscriber` |
| `TowerConsumer` | one durable pull consumer and its loop | `EnvelopePipeline` (twice), `MCTowerConsumer`, `TowerConsumerProofs`, which `EnvelopePipelineProofs` instantiates twice |
| `WorkQueue` | abstract: an item is offered until it is accepted, and settled only then | refined by `TowerConsumer` |
| `EnvelopePipeline` | both consumers of the analytics worker, their services, the inserter, shutdown | `MCEnvelopePipeline`, `EnvelopePipelineProofs` |
| `PayloadContracts` | the contract loop of a definition, as a function | `EnvelopePipeline`, `CelEnvironment` |
| `CayenneLpp` | the payload decoder, as operators over sequences of bytes | `CelEnvironment`, `EnvelopePipelineProofs` |
| `CelEnvironment` | the decoder as a CEL function, the run of a compiled expression, the conversions between JSON and CEL values | `MCPayloadDecoding` |
| `CdcConverters` | a row as JSON and as a message | `CdcSink`, `GatewayFollower` |
| `GatewayFollower` | what the orchestrator reads of a gateway, out of an event and out of a row, and where the two differ (`FollowersAgree`) | `MCPayloadDecoding`, `CdcSinkProofs` |
| `CdcSink` | the CDC process, etl and `NatsSink` | `MCCdcSink`, `CdcSinkProofs` |
| `ChangeFeed` | abstract: the changes of a table in order, each at most once, each decided in the end | refined by `CdcSink` |
| `Registry` | the services and tables of organizations, gateways, definitions and devices, and the roles | `RegistryReads` |
| `RegistryReads` | the queries, the services that read, the handlers and the statuses they answer | `MCRegistry`, `RegistryProofs` |
| `UserSessions` | registration, login, rotation, logout, the cookies | `MCUserSessions`, `UserSessionsProofs` |
| `Runner` | `Runner::run` and its closers | `AllInOne` |
| `AllInOne` | `main`: each step of the start-up, then the runner; kills and restarts | `MCRunner`, `AllInOneProofs` |

`MC*` modules give the constants of an instance; `MCPayloadDecoding` holds the
reference definitions against which the pure functions are compared as well.

Composition: `EnvelopePipeline` holds two instances of `TowerConsumer`, one per
stream, replaces its service by the real one, and calls `PayloadContracts` for
the verdict on a payload. `GatewayOrchestrator` keeps a consumer loop of its own
shape because its handler never rejects; the tasks it spawns are those that
`MqttSubscriber` shows to behave like `SubscriberTasks`. Its CDC worker is what
`CdcSink` comes to for one table with a converter: `CopyTable` once in every life,
which publishes nothing of what was written before it, then `PublishChange` or
`SkipChange` for each later change, and the rest is forgotten when the life ends.
`AllInOne` EXTENDS `Runner`: a step of the runner is a step of a program
that has come up, and the exit of the runner is its end. `RegistryReads` EXTENDS
`Registry`. An operator marked `Mutant` is a plausible bug of the definition below
it and is used by no specification.

### GatewayOrchestrator

| Code | Model |
|---|---|
| `gateways` row: config, `deleted_at` | `rows[g]`: a config, `Absent`, or `Deleted` |
| WAL of the publication, behind the copy of the table | `wal`: the changes committed since the copy and not yet published, in their order; what a life leaves of it is in the copy of the next, and so dropped |
| `MemoryStore` and the no-op `write_table_rows` | `copied`, `CopyTable` |
| what no follower hears of | `missed` (history): gateways whose last change in this life was in the copy, or was not published |
| stream `gateways`, durable consumer | `stream`, `nextSeq`, `unacked`, `redeliver` |
| `InMemoryDeploymentHandleStore` | `handles`: gateway to task and configuration hash |
| tokio tasks of `InProcessDeployer` | `tasks`, with the state of their token |
| `start_gateway_process` | `StartSkips`, `Deploy`, `StoreHandle`: exists, deploy and upsert are separate steps |
| `stop_gateway_process` | `Stop` (remove and cancel), then `StopReturns`: the task has ended, or five seconds have passed |
| `handle_gateway_created/updated/deleted` | `HandleCreated`, `HandleUpdated`, `HandleDeletion` |
| `launch_gateways` | `LaunchGateways`, `LaunchNext`, before the consumer exists |
| consumer loop | `Deliver`, `LoseDelivery`, `FetchEnds`, `Ack`, `LoseAck`, `StopConsumer` |
| closer of main, runner exit, crash | `CancelTasks`, `Exit`, `Crash` |

Configurations stand for what `hash_gateway_config` looks at; collisions of the
64-bit hash are left out. Rows are only soft-deleted by the repository, so no
`deleted` event is ever produced, but the dispatch on it is in the model. The
handler returns `Ok` on every path, so it has no nak. A message that cannot be
decoded is left out: the converters of the CDC worker are the only producers.

It implements `ServedGateways` under this mapping:

| `ServedGateways` | `GatewayOrchestrator` |
|---|---|
| `rows` | `rows` |
| `log`, the changes committed while the rows were watched | `Log`: the stream, then what is still to be published |
| `watched` | `copied` |
| `followed` | what comes before the first message not acknowledged; 0 after a fault |
| `served[g]` | the configurations of the tasks of `g` that run and were not told to stop |
| `disturbed` | `faults > 0` |

### TowerConsumer and WorkQueue

`unacked` and `redeliver` are the server's; `batch` and `step` the loop's. A
message leaves the server by `Deliver` (or `LoseDelivery`, when an error takes
its place in the fetch), is served by `CallService`, then `Accept` or `Reject`,
and answered by `Ack`, `Nak` or, if the answer is lost, `LoseAnswer`. `Restart`
drops the loop at any await. `AckWaitExpires` never concerns the fetch in
progress because `max_wait` (5 s) is less than `ack_wait` (30 s); a later one
may expire while the service works on it. `max_ack_pending` is not reached.

### EnvelopePipeline and PayloadContracts

`at` is the await of `process_raw_envelope` that the raw service is in: device,
organization, publish. Between the first two the device's contracts are read;
they may change, and the organization may be deleted, at any later point.
`buffer`, `table` and `lost` follow a row through the inserter; a failed commit
loses what the insert in progress had. `commit()` is taken to flush, as the
comments of `inserter_repository.rs` say. `get_organization` filters deleted
rows, so a deleted organization is one that is not found. Here CEL and JSON Schema
are an oracle: for each payload a contract matches, does not, or fails; its
transform gives an object, something else, or fails; the schema takes the result
or not. `CelEnvironment` (`Judged`) says what CEL makes of real expressions.

### MqttSubscriber and SubscriberTasks

`at` is where `run_mqtt_subscriber` is; `Retry` is its error arm with the counter
that is never set back. The broker keeps one session per client id: a second
`Connect` takes it over, and the task that lost it sees `Disconnected`.

### CdcSink, CdcConverters and ChangeFeed

| Code | Model |
|---|---|
| `CdcProcess::run`: a new `NatsSink` and `MemoryStore`, the pipeline's start, its wait | `state`; `Start`, `StartReturns`, `Stop` |
| etl: copy of a table, changes of the commits in batches | `CopyTable`, `Receive`; `synced`, `received` |
| `write_table_rows` (a no-op) | what is `copied` is passed over |
| `table_schemas`, `configs_by_id` | `schemas`, `configs`, filled by `HandleRelation` |
| the loop of `write_events` | `SkipUnmapped`, `RefuseRow`, `PublishChange`, `PublishFails`, one change at a time |
| messages of the streams | `feed`, positions in `log` |

`CdcConverters` holds the five converters and the sink's `table_row_to_json`;
`GatewayFollower`, on the other side, what the orchestrator reads out of an event and
out of a row. A converter's verdict on a change (`Converted`) decides between `RefuseRow` and
`PublishChange`, on the cells that PostgreSQL sends: of a deletion, the key alone.
A row is the same for each change of its table. The etl library is external: it
copies each table after every start, because its state is in memory, and sends the
Relation event of a table before its first change.

### Registry and RegistryReads

| Code | Model |
|---|---|
| `organizations`, `gateways` rows, `deleted_at` | `organizations[o]`, `gateways[g]`: absent, live or deleted |
| `end_device_definitions` rows | `definitions[d]`; "deleted" is a row that is gone, which nothing tells from one with another identifier |
| `end_devices` rows and their foreign keys | `devices[e]`; `InUse` is ON DELETE RESTRICT |
| `user_organizations` | `memberships` |
| grouping policies, in the table and in the enforcer | `stored`, `roles` |
| a request between two awaits | `request[r]`: what it asks for and the await it has come to |
| `require_permission` | the guard of `Begin`; a refused request changes nothing |
| the checks of a creation | `ValidateOrganization`, `ValidateDefinition`, `ValidateGateway` |
| the write of a repository | one action for each operation, with the WHERE clause of its statement |
| `assign_role` | `StoreRole` (the adapter writes), then `AssignRole` (the enforcer takes it), under one lock |
| a dropped handler, a failed query | `CutShort` |
| the process comes back | `Restart`: requests are gone, the enforcer loads what is stored |
| a query that reads | `Select...`, a set of identifiers |
| a service that reads, a handler | an operator giving an answer, or the set of answers a caller may get |
| `domain_error_to_status` | `DomainErrorToStatus` |

Names, configurations, contracts and e-mail addresses are left out; that a
request's fields may be refused before any write is in the answers of the
handlers. Identifiers are fresh xids. The only role a program assigns is that of
the creator. `overtaken` is a history variable: who was in flight when a row was
deleted. A read is one statement, or statements whose answers are taken at one
instant; the writes are what interleaves.

### UserSessions

| Code | Model |
|---|---|
| `users`, unique index on the address | `emailOf` |
| `refresh_tokens` | `rows` (a token stands for its hash), `owner`, `expired` |
| `register_user` | `RegisterUser`, one statement |
| `login_user` | `StartLogin` (look up, verify), `FinishLogin` (insert) |
| `refresh_token` | `SendCookie`, `FindForRefresh`, then `FinishRefresh` or `DeleteExpired` |
| `rotate_refresh_token` | `RotateRefreshToken`: DELETE and INSERT in one transaction, the count of deleted rows ignored |
| `logout` | `SendCookie`, `FindForLogout`, `FinishLogout` |
| `Set-Cookie`, `Max-Age` | `Deliver`, `CookieExpires` |
| lost answer, dropped handler | `Lose`; a failed statement is `Fail` |

A token is a random value that is never drawn twice. `session`, `holder`,
`overlapped`, `stale` and `loggedOut` are history. The access token leaves no
record in the server and is left out.

### CayenneLpp and CelEnvironment

`d[i]` is `data[i - 1]`. `Reading` is one turn of the loop of `decode`, `Object` the
map in which a later value replaces an earlier one of the same name. A value is the
integers that were sent and the number they are divided by: the division in floating
point and the text of a time or a colour are left out. A 32-bit integer is a pair of
16-bit ones. `SensorJson`, `JsonToCel` and `CelToJson` follow a value through the
conversions, with their errors; `Eval` runs the few forms of expression that the
checks need, in place of the library `cel_core`.

### Runner and AllInOne

`proc`, `joined`, `token` (with what cancelled it), `firstError`, `stage`,
`closer`, `exitCode`. `JoinNext` is one turn of the loop over `join_next` with
all its arms; `Abort` is `JoinSet::shutdown`. A signal that arrives between the
test of `is_cancelled` and `cancel` counts as one that arrives after it.

In `AllInOne`, `todo` is what `main` has still to do, `made` what exists outside
the program and outlives it, `known` the base policies in the enforcer.

| Code | Model |
|---|---|
| `main.rs`, its calls in their order | `Plan` |
| goose on PostgreSQL and on ClickHouse | `Migrate`, `MigrationFails`: the second knows no transaction |
| `ensure_stream`: any error of `get_stream` leads to `create_stream` | `EnsureStream` |
| `CasbinAuthorizationService::new` | `LoadPolicies`, then `AddPolicy` for each base policy, whose errors are ignored |
| `launch_gateways`, before the consumer | `LaunchGateways`, `CreateConsumer` |
| `process::exit(1)`, `?` | `StepFails` |
| a kill; the supervisor's restart | `Crash`, `RestartProgram` |
| another instance that starts meanwhile | `OtherInstanceStores` |

## 3. Faults, bounds and fairness

Faults are named (`Faults`) and counted (`MaxFaults`): `crash`, `shutdown`,
`restart`, `ackLost`, `deliveryLost`, `publishFails`, `queryFails`, `bufferFails`,
`flushFails`, `giveUp`. In `Registry` a fault is a request cut short or a restart, in
`CdcSink` a stop or a failed publication, in `AllInOne` a failed step, a kill or an
interfering instance; the failures of `UserSessions` are not counted, since each
uses up a request or a token. A fault may happen and never has to.

| Constant | Bounds | Why it is enough |
|---|---|---|
| `MaxChanges` = 3 | writes to `gateways` | create, update and delete of one gateway, or two gateways interleaved; one before the copy of the table and two behind it |
| one gateway | `gateway_settles` | each gateway settles by its own events; what two do to each other is in `gateway_faults`, with the same faults |
| `Tasks` = 2 or 3 | tasks alive at once | an old task that outlives `wait_for_stop`, its successor, and one of another gateway |
| `MaxMessages`, `MaxRaw` = 2 or 3 | messages of a stream | a full batch, one more than a batch, and one that is redelivered behind a later one |
| `MaxProcessed` = `MaxRaw` + `MaxFaults` | processed envelopes | a publish whose acknowledgement is lost is repeated once per fault |
| `MaxFaults` = 1 to 2 | faults of a behaviour | each kind alone, and each pair where the state space allows it |
| `MaxRetries` = 3 | reconnects | the first, one in the middle and the last |
| `Requests` = 2 | requests in flight, in `Registry` and `UserSessions` | a creation and the deletion it races with, two refreshes of one token; the properties relate no more than two |
| two users, two organizations, one of each other row | `Registry` | one device with all it names, and an organization it does not belong to |
| `Token` = 3, two browsers, one address | `UserSessions` | a login, its rotation and another login, or a token rotated twice |
| `Tables` = 2, one configured | `CdcSink` | the table with deletions, whose converter refuses them, beside one without a converter; the three other tables behave like the first without its deletions |
| `MaxChanges` = 3, `MaxBatch` = 2 | `CdcSink` | a batch, a change behind it, one before a restart |
| three processes, one that heeds the token, two closers, two base policies | `AllInOne` | one process and several, one policy and the rest (the code has six processes and twenty policies) |
| two readings per payload | `MCPayloadDecoding` | one before and one behind each, with the least, the greatest and a mixed value of every type |
| contracts per list <= 3 | `PayloadContracts` | one before, one at and one after the decisive contract |

Task identities and configurations are symmetric in `GatewayOrchestratorFaults`, and
users, organizations and requests in `Registry`, and users, tokens, browsers and
requests in `UserSessions`; no run with a liveness property uses symmetry. Deadlock is not checked where the
system may stop: the bounds on writes and messages run out, or the program exits.

Fairness, and why the code justifies it:

* handler and consumer steps (weak): tokio polls a ready task again;
* `CopyTable`, `PublishChange`, `Deliver`, `AckWaitExpires` (weak): the CDC worker and
  the server keep running, and `ack_wait` elapses;
* `ServiceFairness`, for `ImplementsQueue` only: a service returns (weak) and in the
  end accepts a message that it is offered again and again (strong). That is a
  hypothesis about the service: `EnvelopePipeline` has real services, does not assume
  it, and shows in `EventuallyStored` when it comes true;
* `StopReturns` (weak): a timeout bounds the wait;
* `TaskStops` (weak) and the subscriber's `Stop` (strong): each await of the
  subscriber selects on its tokens, and a `select!` picks a ready branch at
  random, so a branch that is ready again and again is taken;
* `Commit` (weak): the loop sleeps `commit_interval` and commits;
* `Exit` then the launch (weak): a supervisor starts the program again;
* the CDC process (weak): `Start` and `StartReturns`, since the program is started
  again; `CopyTable`, `Receive` and `WriteEvents` of each table, since etl goes on
  as long as it runs;
* start-up (weak): `main` goes on to its next step, and
  `docker/docker-compose.service.yaml:98` (`restart: unless-stopped`) starts the
  program again whenever it is down;
* the runner: the processes of `Heeding` (one of three in the run) return once the
  token is cancelled, and timeouts elapse. The others and the closers may hang.

Otherwise no fairness is assumed of the API, of faults, or of success: a query, a
publish and a commit may fail as often as the bound allows.

## 4. Runs

| Run | Checks | Shows |
|---|---|---|
| `gateway_faults` | `NoOrphan`, `OneSubscriber`, `OneToOneWithoutFaults`, `NoForgottenGateway`, `AckedAfterEffect`, `ServesGateways` | two gateways, three tasks, every pair of faults: a subscriber can always be told to stop, a gateway has at most one that was not told, a live row has one unless its last change was missed or its subscriber gave up, an event is acknowledged after its effect, and all steps together implement `ServedGateways`: without faults the changes behind the copy take effect in their order, each on its own gateway and with no needless restart, and with them no gateway is served with what neither its row nor a change says |
| `gateway_settles` | `Settles`, `EventuallyAcked` | one gateway, two tasks, every pair of faults: without faults the subscribers settle on the live rows that were not missed; with them every published change is handled and acknowledged |
| `runner` | `ClosersLast`, `ExitCodeTellsCause`, `UsesWhatExists`, `PoliciesWhole`, `Stops`, `ComesUp` | starts that fail, are killed or meet another instance, and processes that end, fail, panic or hang in every order: what runs finds what it uses, the next start always can come up, and a program told to stop stops |
| `consumer` | `SettledIsAccepted`, `BatchOutstanding`, `ImplementsQueue` | batches of two, four messages, two faults: at least once, and an implementation of `WorkQueue` with its liveness |
| `payloads` | `FirstMatchWins`, `DecodesWhatWasEncoded`, `FollowersAgree` | the contract loop, on compiled expressions, against a reference definition; decoder and conversions against an encoder of the documented format, for every pair of sample readings of all 27 types and for every prefix of them; a gateway read from an event against the one read from its row: the same in all but its type |
| `registry` | `SameOrganization`, `ListedIsUsable`, `OrphanIsInert`, `AnswersToMembers`, `DevicesResolve`, `DeletedIsClosed`, `RolesStay` | two users, two organizations, two requests in flight, one fault: devices stay with their definitions and gateways, memberships agree with roles, only members are answered, only overtaken requests create under what is deleted, and no role is lost in a restart |
| `pipeline_faults` | `NothingVanishes`, `RowsAccountedFor`, `NoneAfterDeletion` | each kind of fault, a late device, a deletion and a change of contracts |
| `pipeline_stored` | `EventuallyStored` | three envelopes, fetches of two: an acceptable one reaches the table or is lost with the buffer, although a poisoned one has a place in every fetch |
| `pipeline_shutdown` | `FlushedAtExit` (violated) | see section 6 |
| `subscriber` | `EndsForAReason`, `ImplementsContract`, `SomeoneListens` | two tasks, three retries, two network failures |
| `sessions` | `CookieWorks`, `OneLiveToken`, `LogoutEnds` | two browsers whose logins, refreshes and logouts overlap, fail and lose their answers: none is locked out by itself, a login has one token, and a logout ends it |
| `cdc` | `NothingVanishes`, `MissedForCause`, `ImplementsFeed` | stops, failed publications and batches: each change is published, or passed over for a cause the code names, in order and at most once |

Every property of a passing run has a mutant in `PROJECT.json`: a change to one
definition, of the kind a bug in that code would be, under which TLC finds the
property violated. The type invariants are not run: they are proved; the one of
`AllInOne` is a part of the invariant proved in `AllInOneProofs`.

`OneLiveToken` and `LogoutEnds` name their exceptions, which follow from the code:
two refreshes of one token that overlap both insert a token, and a logout with a
token that was rotated meanwhile deletes nothing and says that it succeeded.
`MissedForCause` does the same for the CDC worker: a copy, a failed publication, a
table without a converter, and every deletion.

The gateway properties name theirs as well. A change that was committed before the
CDC worker copied the table, or that `write_events` failed to publish, reaches no one
until the next change of that gateway or the next start, and the handle of a
subscriber that used up its retries stays in the store, where neither a redelivered
created event nor an update with the same configuration starts it again.
`OneToOneWithoutFaults` and `Settles` except the first (`missed`),
`NoForgottenGateway` both (`missed`, `GaveUp`), and all of them run with every kind of
fault. What a life leaves unpublished is no exception: the launch of the next one
reads the table.

`EventuallyStored` has its hypotheses in the formula: the device is registered, the
organization stays, the contracts do not change, and the envelopes that can never be
processed are fewer than a fetch takes. The last one is needed: without it TLC finds
two such envelopes that fill every fetch of two. The specification of the run
(`SupposedSpec`) leaves out the steps that delete the organization or poison a
whole fetch, since the formula claims nothing of what follows them. It has no crash
and no shutdown, for the size of the state space: for a consumer a crash is the loss
of all deliveries of its batch, its redelivery after a restart is in `consumer`
(`ImplementsQueue`), and what it does to the buffer in `pipeline_faults`.

## 5. Proofs

Each proof module EXTENDS its component and TLAPS. For a specification the argument is
an inductive invariant, `Init => IInv` and `IInv /\ [Next]_vars => IInv'` action
by action, and temporal steps by PTL; a refinement is shown for the initial states and
for each step, and a function for every input. The proofs assume only the named ASSUMEs of
the component, for any sets and bounds.

* `GatewayOrchestratorProofs`: `TypeCorrect`, `NoOrphanTask`,
  `AtMostOneSubscriber`, `AckAfterEffect`, and `HandlesAreTrue`, which is proved and not
  run: a handle tells the configuration of its task. The properties are not
  inductive by themselves: that `StoreHandle` keeps `OneSubscriber` needs to know
  that no handle of the gateway exists while the handler holds one
  (`DeployedInv`), and that an acknowledgement follows its effect needs the
  link between the handler's job and the message it came from (`JobInv`,
  `DoneInv`).

  `RowInvariance` is a second invariant, `RowInv`, which relates the handle store to
  the table and rests on the first. `NoGatewayIsForgotten` follows from its part
  `TrackedInv`: a live row has a handle, or something is *pending* for it (a change
  to publish, a message to handle, a job, a row of the list that the start-up
  still goes through), or its last change was missed; and `AliveInv`: the task of a
  handle runs, until a task gives up. It needs that no row comes back after its
  deletion (`DeletedInv`). Neither theorem has a hypothesis: every kind of fault is in,
  and `OneToOne` itself speaks of the time before the first one. Until then every
  change behind the copy is handled once and in order (`FirstLifeInv`, `OrderInv`), the
  stream with the changes still to publish is the history of the rows since the copy,
  and a gateway missed by the copy is in none of it yet (`LogInv`), and the handle
  store is what the handled prefix of that history makes of it (`FollowInv`), so that
  it is what the rows make of it when nothing is left to do.

  `ImplementsServedGateways` (`Spec => ServesGateways`) is the refinement, step by step:
  a step that is a fault is a `Disturb`; after the first fault a step ends service
  (`StopServes`, `TasksEnd`) or starts it with something that is offered
  (`DeployOffers`); before it a step is a commit of the API or the copy (`Watch`), or
  the handler is at the change that is due (`DueIsCurrent`, from `OrderInv`), and ends
  what ran before, starts what the change wants, or acknowledges it and so goes on. That
  a launch starts a gateway with what its row says is an invariant of its own,
  `LaunchStartsRows`.
* `TowerConsumerProofs`: `TypeCorrect`, `AtLeastOnce`, `BatchCanBeDropped`,
  `ImplementsQueueSafety` (`Spec => Queue!Spec`). `LoopInv` adds that a message of
  the fetch in progress is not due for redelivery, which is why a batch never
  names one twice.
* `EnvelopePipelineProofs`: `TypeCorrect`, `NoEnvelopeVanishes`, `NoRowVanishes`,
  `DeletionIsFinal`. The module is about the composition: it instantiates
  `TowerConsumerProofs` once for each stream, so that a step of the pipeline is a step
  or a stutter of either consumer (`ConsumersStep`) and the lemmas of the consumer give
  its half of the invariant. The other half is the services: what a consumer has
  accepted was published or dropped, or was buffered (`AcceptedInv`); what is buffered,
  stored or lost was published, and what was published had arrived (`OriginInv`); and what
  is about to be published arrived before a deletion (`ServiceInv`).
  `EnvelopesAccountedFor` puts these together, from the arrival of an envelope to the
  table, and
  `ConsumersAreQueues` shows that what the consumer promises on its own
  (`WorkQueue`, without its fairness) survives the composition. The proofs use nothing of
  what the contract loop computes: these theorems hold whatever it answers.

  Theorems about the functions that the worker runs on a payload follow, for
  lists and payloads of any length. `FirstContractDecides`: `process_contracts` drops a
  payload that all contracts decline, and otherwise its verdict is that of the first
  contract that does not decline, whatever follows. Of the Cayenne LPP decoder:
  `PayloadsAreFramed` (it returns the object of the readings that the payload is cut
  into, or the error of the first that fails, and every payload has such a cutting),
  `CutOffIsRefused` (a payload cut off inside a reading is an error, one cut off between
  two is what came before), `EveryReadingCounts` (whole readings one after another
  decode to the value of each, the later one where a name comes twice),
  `WholeReadings` (what a whole reading of each type is) and `IntegersReadBack`
  (integers of two and three bytes). In the code these are loops, in the model functions
  given by recursion. That the function exists is shown by writing it out; the library's
  induction theorems cannot be used with the installed provers, so an induction is a
  search for the last member of a finite set of numbers (`LastOfRun`, proved by the
  pigeonhole principle).
* `MqttSubscriberProofs`: `TypeCorrect`, `NoEndWithoutReason`, `KeepsContract`
  (`Spec => Contract!Spec`). The count of a task that goes on is below the
  maximum.
* `RegistryProofs`: `TypeCorrect`, `DevicesStayTogether`, `OrphansAreInert`,
  `DeletedStaysClosed`. What a request has found out about the organization of a row
  stays true (`CheckedInv`), because rows do not move and identifiers are not used
  again; that the row is alive may become untrue, but then the request is in the
  history of that deletion (`OvertakenInv`); and whoever makes a request has a role
  (`RolesInv`). `RolesAreKept`: a role is in the table before it is in the enforcer
  (`StoredInv`), so that a restart, which loads the table, loses none.
  `RolesAndMembershipsAgree` needs that a stored role has its membership in the table
  (`MembersInv`), and that a membership without a role is of an organization
  whose creator is still at it, or was cut short (`CreatorInv`).
  `StrangersLearnNothing` and `ListedDevicesResolve` are about `RegistryReads`: the queries and
  handlers change nothing, and their answers are read off the same invariant.
* `UserSessionsProofs`: `SessionsTypeCorrect`, `CookiesWork`, `OneTokenPerLogin`,
  `LogoutsEnd`, `EndedLoginsStayEnded` (a login that has no usable token left never gets
  one again, unless two of its requests overlapped). A token is known to one browser, once it arrived there (`OneHolder`,
  `Undelivered`), and a row that a request has read stays, unless another request
  carries the same token (`RowsStay`).
* `CdcSinkProofs`: `FeedTypeCorrect`, `NothingLost`, `MissedForACause`,
  `ImplementsFeedSafety` (`Spec => Feed!Spec`). `MemoryInv`: a table whose Relation
  event was handled is mapped, and changes are handled only after it. `FateInv`:
  what a table is not done with was neither published nor passed over, hence at
  most once. `EventsTellRows` is about the converters and the follower:
  `FollowersAgree` for any table of rows, over any sets of texts, settings and times.
* `AllInOneProofs`: of the runner, `TypeCorrect`, `ClosersRunLast`, `ExitCodeSound`;
  `CauseInv` links the first error to what cancelled the token. Of the start-up,
  `WhatIsUsedExists`, `PoliciesAreWhole` and `EveryLifeEndsWell`: what a process needs
  is made, or is still in `todo` (`MadeInv`); a base policy is in the enforcer, still
  to be added or excused (`PolicyInv`); and an order of two steps in the plan is kept
  by its rest (`InOrder`). They assume that each entity of the CDC worker has a stream
  among those that `main` ensures (`StartupAssumption`), as in the default settings.

Only model-checked, because the prover cannot do it:

* liveness under fairness: `Settles`, `EventuallyAcked`, `Stops`, `ComesUp`,
  `EventuallyStored`, `SomeoneListens`, and of the refinements `ImplementsQueue`,
  `ImplementsContract` and `ImplementsFeed` the part that is about fairness (the theorems
  have the initial states and the steps);
* `FirstMatchWins` and `DecodesWhatWasEncoded`: they go through `CelEnvironment`, whose
  operators recurse over expressions and JSON values (RECURSIVE), which the prover does
  not take. What they say of the contract loop and of the decoder alone is proved
  (`FirstContractDecides` and the theorems on the decoder); what is left to TLC is
  the meaning of expressions, the conversions between JSON and CEL values, and that
  the tables of types, scales and precisions are the documented ones.

`FlushedAtExit` is violated, and so is not proved. Of the bounds in the configurations
(how many changes, faults, crashes and messages) the proofs use none: they hold for
every natural number.

## 6. Where code and documents differ

* `pipeline_shutdown`: the final flush can be aborted by the runner, or be followed
  by rows that are buffered and acknowledged after it.

Seen in the code as well, and not the subject of a run:

* `docs/modules/gateway-orchestrator.md:26` has "a 1:1 mapping between gateway
  database records and long-running MQTT subscriber processes". It fails without any
  fault: a gateway created, changed or deleted after `launch_gateways` read the table
  and before etl has copied it is in no event, at the first start and after each
  restart (`cdc_worker/src/domain/process.rs:49`, `cdc_worker/src/nats/nats_sink.rs:304`),
  so it has no subscriber, or the old one, until its next change or the next start.
  `OneToOneWithoutFaults` and `NoForgottenGateway` except it by name (`missed`).
* It fails after a crash as well: a created event that is redelivered starts a
  subscriber for a gateway deleted meanwhile, and an old update that is redelivered is
  applied after a newer one. Events have no version and the handlers do not look at
  the table. `OneToOneWithoutFaults` is therefore stated without faults, and
  `ServesGateways` promises of a disturbed life only that what is started is what the
  row or one of its changes says.
* Instances of the program share the client id of a gateway, so that each throws the
  other out of the broker; a comment of `mqtt/subscriber.rs` has them share the load.
* The replication state is in memory and the copy of a table is a no-op, so changes
  made while the program is down reach no one, where `docs/modules/cdc-worker.md:54`
  says that none is lost across restarts. `slot_name` is read and used nowhere.
* Deletions of definitions are never published: their table has no REPLICA IDENTITY
  FULL (a test of `cdc_worker` sets it for its own), and the converter wants more
  than the key. An update that leaves long contracts alone carries none of them.
* Once its pipeline has started, the CDC process does not look at the token any more
  (`cdc_worker/src/domain/process.rs:82`): the runner has to abort it.
* A gateway's type reads differently in an event and in its row: "unspecified"
  (`common/src/proto/gateway.rs:68`) comes back as "UNSPECIFIED"
  (`common/src/proto/gateway.rs:45`). Nothing in the orchestrator compares it;
  `FollowersAgree` says so exactly.
* `docs/modules/runner.md:62` has "If any process returned an error, the binary exits
  with code 1". An error that comes after the token was cancelled, by a signal or a
  panic, or while the rest is aborted, is not kept (`runner/src/lib.rs:268`).
* A panicked process cancels the token but stores no error
  (`runner/src/lib.rs:268`), so the program exits with 0 where
  `docs/modules/runner.md:56` says that an error is stored.
  `ExitCodeTellsCause` states what the code does.
* `docs/modules/analytics-worker.md:86` has "End device not found, organization
  deleted/missing, CEL execution failure" end in "message acknowledgment to prevent
  infinite redelivery". The code answers every error with a nak
  (`analytics_worker/src/nats/raw_envelope_service.rs:82`), without a delay and for
  ever, as no consumer sets `max_deliver`; `NothingVanishes` states what the code does.
  Such envelopes come before anything new. As many of them as a fetch takes (30 by
  default) are all that the worker gets to see; as long as they are fewer, the others
  get through (`EventuallyStored`).
* A request that is overtaken by a deletion creates its row under the deleted
  organization or gateway: `DeletedIsClosed` says that no other does.
* An organization whose creator got no role stays for good: `OrphanIsInert`.
* Devices of a deleted gateway are listed with their organization and not by their
  gateway: `DevicesResolve` says which.
* Registration takes addresses that `is_valid_email` refuses at login (those without
  a dot in the domain): `LoginEmail` is a subset of `Email`. The run has one address,
  which both accept.
* `docs/modules/ponix-api.md:42` has an `AuthorizationProvider` "that every service
  calls via `require_permission(user_id, org_id, resource, action)` before performing
  any operation". `list_organizations` asks for neither a token nor a permission.
  `update_organization` has no handler.
* `casbin_authorization_service.rs` relies on a unique constraint of `casbin_rule`
  that its migration does not make; `AddPolicy` allows both.
* A CEL string that is the text of a JSON value becomes that value, and an unsigned
  integer becomes a float, on the way from CEL to JSON.

## 7. Not modelled, and what is planned

Planned: authorization in two processes. Policies are loaded once, so a role assigned
by one is not seen by the other.

Left out for good:

* the raw envelope ingestion service, which no program constructs, and
  `store_batch` of the ClickHouse repository, `rollback_migration`,
  `migration_status`, `remove_role` and the super admin, which no program calls;
* cryptography of tokens and passwords, the evaluation of JSON Schema and, beyond
  the forms above, of CEL: libraries;
* field by field conversions between protobuf and domain types, wherever no
  property tells their results apart;
* the middleware of NATS and gRPC (logging, tracing, headers), pool sizes, and the
  exporters of telemetry.
