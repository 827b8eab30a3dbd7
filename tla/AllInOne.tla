------------------------------- MODULE AllInOne -------------------------------
(***************************************************************************)
(* ponix_all_in_one: main brings up what the program stands on, one await   *)
(* after the other, and then hands its processes to the Runner.  What it    *)
(* makes in PostgreSQL, ClickHouse and NATS outlives it.  Any step that     *)
(* fails ends the program, except for one; what supervises the program      *)
(* starts it again, whatever the last life left half done.                  *)
(***************************************************************************)
EXTENDS Runner, Sequences, Naturals

CONSTANTS
  Streams,      \* names of the streams, by the setting that gives them
  Entities,     \* names of the entities of the CDC worker
  BasePolicies, \* what base_policies returns
  MaxFaults     \* bound on the faults of a behaviour

VARIABLES
  phase,   \* "starting", "up" once the runner runs, "down"
  todo,    \* the steps main has before it
  made,    \* what exists outside the program
  known,   \* base policies in the enforcer
  tasks,   \* the tasks of the gateways run
  excused, \* history: base policies this life may lack
  faults   \* counts the faults, for MaxFaults

bootVars == <<phase, todo, made, known, tasks, excused, faults>>
allVars  == <<vars, bootVars>>

\* What Streams and Entities are unless the environment says otherwise.
DefaultStreams ==
  [processed    |-> "processed_envelopes",
   raw          |-> "raw_envelopes",
   gateway      |-> "gateways",
   end_devices  |-> "end_devices",
   organization |-> "organizations",
   user         |-> "users",
   definitions  |-> "end_device_definitions"]

DefaultEntities ==
  {"gateways", "end_devices", "organizations", "users", "end_device_definitions"}

Range0(f) == {f[x] : x \in DOMAIN f}

\* Each entity has a stream among those that main ensures: so the defaults have it,
\* and the environment has to when it changes them.
ASSUME StartupAssumption ==
  /\ DOMAIN Streams = DOMAIN DefaultStreams
  /\ Entities \subseteq Range0(Streams)
  /\ BasePolicies \in Seq(Range0(BasePolicies))
  /\ Processes \subseteq {"ponix_api", "gateway_orchestrator", "cdc_worker",
                         "analytics_worker_0", "analytics_worker_1", "analytics_worker_2"}

\* The durable consumers of the program, and the stream of each.
ConsumerStream ==
  [x \in {"gateway-orchestrator-consumer", "ponix-all-in-one", "ponix-all-in-one-raw"} |->
     CASE x = "gateway-orchestrator-consumer" -> Streams.gateway
       [] x = "ponix-all-in-one"              -> Streams.processed
       [] x = "ponix-all-in-one-raw"          -> Streams.raw]

Labelled(kind, names) == [i \in DOMAIN names |-> <<kind, names[i]>>]

StreamSteps ==
  Labelled("stream",
           <<Streams.processed, Streams.raw, Streams.gateway, Streams.end_devices,
             Streams.organization, Streams.user, Streams.definitions>>)

SharedDependencies ==
  <<<<"migrate", "postgres">>, <<"migrate", "clickhouse">>,
    <<"connect", "clickhouse">>, <<"connect", "nats">>>> \o StreamSteps

PolicySteps ==
  <<<<"connect", "adapter">>, <<"load", "policies">>>> \o Labelled("policy", BasePolicies)

\* Existing gateways are started before the consumer of their events is created.
GatewaySteps ==
  <<<<"launch", "gateways">>, <<"consumer", "gateway-orchestrator-consumer">>>>

WorkerSteps == Labelled("consumer", <<"ponix-all-in-one", "ponix-all-in-one-raw">>)

Plan ==
  <<<<"connect", "telemetry">>>> \o SharedDependencies \o PolicySteps
    \o GatewaySteps \o WorkerSteps

Start ==
  /\ Init
  /\ phase = "starting"
  /\ todo = Plan
  /\ made = {}
  /\ known = {}
  /\ tasks = FALSE
  /\ excused = {}
  /\ faults = 0

\* The next program has a runner of its own.
NewRunner ==
  /\ proc' = [p \in Processes |-> "running"]
  /\ joined' = {}
  /\ token' = "live"
  /\ firstError' = NoProcess
  /\ stage' = "joining"
  /\ closer' = [c \in Closers |-> "idle"]
  /\ exitCode' = NoCode

Doing(kind, x) == phase = "starting" /\ todo # <<>> /\ Head(todo) = <<kind, x>>

Advance == todo' = Tail(todo)

Fault == faults < MaxFaults /\ faults' = faults + 1

Die ==
  /\ phase' = "down"
  /\ todo' = <<>>
  /\ known' = {}
  /\ tasks' = FALSE

\* A migration makes its tables and records its version.
Migration(db) == {<<"table", db>>, <<"version", db>>}

\* Mutant: the migration is no CREATE TABLE IF NOT EXISTS.
MigrateOnce(db) ==
  /\ Doing("migrate", db)
  /\ IF <<"table", db>> \in made /\ <<"version", db>> \notin made
     THEN Die /\ UNCHANGED made
     ELSE Advance /\ made' = made \cup Migration(db) /\ UNCHANGED <<phase, known, tasks>>
  /\ UNCHANGED <<vars, excused, faults>>

\* goose up: whatever is missing is made, and what is there is left alone.
Migrate(db) ==
  /\ Doing("migrate", db)
  /\ Advance
  /\ made' = made \cup Migration(db)
  /\ UNCHANGED <<vars, phase, known, tasks, excused, faults>>

\* goose fails, or is stopped with the program.  PostgreSQL undoes what the script
\* did so far; ClickHouse knows no transaction.
MigrationFails(db) ==
  /\ Doing("migrate", db)
  /\ Fault
  /\ Die
  /\ \/ UNCHANGED made
     \/ db = "clickhouse" /\ made' = made \cup {<<"table", db>>}
  /\ UNCHANGED <<vars, excused>>

\* What the program makes inside itself leaves nothing behind.
WithinTheProgram ==
  /\ Advance
  /\ UNCHANGED <<vars, phase, made, known, tasks, excused, faults>>

\* The exporters of traces and logs, or the plain log.
InitTelemetry == Doing("connect", "telemetry") /\ WithinTheProgram

ConnectNats == Doing("connect", "nats") /\ WithinTheProgram

\* Any other client is built, and reaches what it is a client of.
Connect(x) == Doing("connect", x) /\ WithinTheProgram

\* Mutant: an error of get_stream passes for "stream already exists".
EnsureStreamSeen(s) ==
  /\ Doing("stream", s)
  /\ Advance
  /\ \/ made' = made \cup {<<"stream", s>>} /\ UNCHANGED faults
     \/ Fault /\ UNCHANGED made
  /\ UNCHANGED <<vars, phase, known, tasks, excused>>

\* Every error of get_stream leads to create_stream, which NATS grants as well
\* when the stream exists with the same settings.
EnsureStream(s) ==
  /\ Doing("stream", s)
  /\ Advance
  /\ made' = made \cup {<<"stream", s>>}
  /\ UNCHANGED <<vars, phase, known, tasks, excused, faults>>

\* Mutant: the enforcer starts from the base policies alone.
LoadNothing ==
  /\ Doing("load", "policies")
  /\ Advance
  /\ known' = {}
  /\ UNCHANGED <<vars, phase, made, tasks, excused, faults>>

LoadPolicies ==
  /\ Doing("load", "policies")
  /\ Advance
  /\ known' = {p \in Range0(BasePolicies) : <<"policy", p>> \in made}
  /\ UNCHANGED <<vars, phase, made, tasks, excused, faults>>

\* A policy enters the enforcer once the adapter has stored it.  The adapter may
\* refuse a policy that is stored already, and may fail; new ignores any error.
AddPolicy(p) ==
  /\ Doing("policy", p)
  /\ Advance
  /\ \/ /\ made' = made \cup {<<"policy", p>>}
        /\ known' = known \cup {p}
        /\ UNCHANGED <<excused, faults>>
     \/ /\ <<"policy", p>> \in made
        /\ UNCHANGED <<made, known, excused, faults>>
     \/ /\ Fault
        /\ made' \in {made, made \cup {<<"policy", p>>}}
        /\ excused' = excused \cup {p}
        /\ UNCHANGED known
  /\ UNCHANGED <<vars, phase, tasks>>

\* Another instance of the program, which starts at the same time, stores a policy.
OtherInstanceStores(p) ==
  /\ <<"table", "postgres">> \in made
  /\ <<"policy", p>> \notin made
  /\ Fault
  /\ made' = made \cup {<<"policy", p>>}
  /\ excused' = IF \A i \in DOMAIN todo : todo[i] # <<"load", "policies">>
                THEN excused \cup {p} ELSE excused
  /\ UNCHANGED <<vars, phase, todo, known, tasks>>

\* launch_gateways reads the gateways and starts a task for each.
LaunchGateways ==
  /\ Doing("launch", "gateways")
  /\ Advance
  /\ tasks' = TRUE
  /\ UNCHANGED <<vars, phase, made, known, excused, faults>>

\* A durable consumer is made, or found, on a stream, which has to exist.
CreateConsumer(c) ==
  /\ Doing("consumer", c)
  /\ IF <<"stream", ConsumerStream[c]>> \in made
     THEN Advance /\ made' = made \cup {<<"consumer", c>>} /\ UNCHANGED <<phase, known, tasks>>
     ELSE Die /\ UNCHANGED made
  /\ UNCHANGED <<vars, excused, faults>>

\* Any other step fails: error!, process::exit(1).  What it asked for may be made.
StepFails ==
  /\ phase = "starting"
  /\ todo # <<>>
  /\ Head(todo)[1] \in {"connect", "stream", "load", "launch", "consumer"}
  /\ Fault
  /\ Die
  /\ \/ UNCHANGED made
     \/ Head(todo)[1] \in {"stream", "consumer"} /\ made' = made \cup {Head(todo)}
  /\ UNCHANGED <<vars, excused>>

RunnerStarts ==
  /\ phase = "starting"
  /\ todo = <<>>
  /\ phase' = "up"
  /\ UNCHANGED <<vars, todo, made, known, tasks, excused, faults>>

RunnerStep ==
  /\ phase = "up"
  /\ Next
  /\ IF stage' = "exited" THEN Die ELSE UNCHANGED <<phase, todo, known, tasks>>
  /\ UNCHANGED <<made, excused, faults>>

\* The program is killed; before run installs its handlers a signal does that too.
Crash ==
  /\ phase # "down"
  /\ Fault
  /\ Die
  /\ NewRunner
  /\ UNCHANGED <<made, excused>>

\* "restart: unless-stopped".
RestartProgram ==
  /\ phase = "down"
  /\ NewRunner
  /\ phase' = "starting"
  /\ todo' = Plan
  /\ excused' = {}
  /\ UNCHANGED <<made, known, tasks, faults>>

StartupStep ==
  \/ \E db \in {"postgres", "clickhouse"} : Migrate(db) \/ MigrationFails(db)
  \/ InitTelemetry
  \/ ConnectNats
  \/ \E x \in {"clickhouse", "adapter"} : Connect(x)
  \/ \E s \in Range0(Streams) : EnsureStream(s)
  \/ LoadPolicies
  \/ \E p \in Range0(BasePolicies) : AddPolicy(p)
  \/ LaunchGateways
  \/ \E c \in DOMAIN ConsumerStream : CreateConsumer(c)
  \/ StepFails
  \/ RunnerStarts

ProgramNext ==
  \/ StartupStep
  \/ RunnerStep
  \/ \E p \in Range0(BasePolicies) : OtherInstanceStores(p)
  \/ Crash
  \/ RestartProgram

\* main goes on until a step fails it, and what supervises the program starts it
\* again whenever it is down.
ProgramFairness == Fairness /\ WF_allVars(StartupStep) /\ WF_allVars(RestartProgram)

ProgramSpec == Start /\ [][ProgramNext]_allVars /\ ProgramFairness

-----------------------------------------------------------------------------
\* The streams the CDC worker publishes to: an event of an entity has the subject
\* <entity>.<operation>, and a stream takes the subjects <stream>.* .
EntityStreams == {<<"stream", e>> : e \in Entities}

Needs(q) ==
  CASE q = "ponix_api"            -> {<<"table", "postgres">>}
    [] q = "gateway_orchestrator" -> {<<"table", "postgres">>, <<"stream", Streams.raw>>,
                                      <<"consumer", "gateway-orchestrator-consumer">>}
    [] q = "cdc_worker"           -> {<<"table", "postgres">>} \cup EntityStreams
    [] q = "analytics_worker_0"   -> {<<"table", "clickhouse">>,
                                      <<"consumer", "ponix-all-in-one">>}
    [] q = "analytics_worker_1"   -> {<<"table", "postgres">>, <<"stream", Streams.processed>>,
                                      <<"consumer", "ponix-all-in-one-raw">>}
    [] q = "analytics_worker_2"   -> {<<"table", "clickhouse">>}

\* Whatever failed in this start or in earlier ones, and wherever: the processes,
\* once they run, find the tables, streams and consumers they use, and the tasks of
\* the gateways, which run before them, the stream they publish to.
UsesWhatExists ==
  /\ phase = "up" => \A q \in Processes : Needs(q) \subseteq made
  /\ tasks => {<<"table", "postgres">>, <<"stream", Streams.raw>>} \subseteq made

\* A program that runs enforces every base policy, or an insert of this very start
\* failed, or was beaten by another instance.  (In those cases it goes on without
\* the policy, and denies what the policy grants, until it is started again.)
PoliciesWhole ==
  phase = "up" => Range0(BasePolicies) \ known \subseteq excused

\* A program told to stop, with a process that heeds it, stops.
Stops == phase = "up" /\ MustExit ~> phase = "down"

\* No failed start leaves anything behind that keeps the next one from coming up.
ComesUp == []<>(phase = "up")
=============================================================================
