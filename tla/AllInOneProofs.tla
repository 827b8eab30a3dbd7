---------------------------- MODULE AllInOneProofs ----------------------------
(***************************************************************************)
(* For any processes and closers: closers run after every process has       *)
(* stopped, and the exit code tells what began the shutdown.  For any        *)
(* streams, policies and faults of the start-up: what runs finds what it     *)
(* uses, and enforces every base policy that it was able to store.           *)
(***************************************************************************)
EXTENDS AllInOne, TLAPS

(* Every process starts running, with a live token and idle closers. *)
LEMMA InitIInv == Init => IInv
BY ProcessAssumption
   DEF Init, IInv, TypeOK, StageInv, CauseInv, Results, Causes, Stages, Running

(* No step of the loop, of a process or of the closers breaks the invariant. *)
LEMMA NextIInv == IInv /\ [Next]_vars => IInv'
<1>. SUFFICES ASSUME IInv, [Next]_vars PROVE IInv'
  OBVIOUS
<1>. USE ProcessAssumption, CodeAssumption DEF IInv, TypeOK
<1>1. ASSUME NEW p \in Processes, NEW r \in Results, ProcessEnds(p, r)
      PROVE IInv'
  <2>1. TypeOK' /\ CauseInv'
    BY <1>1 DEF ProcessEnds, CauseInv, Running, Results
  <2>2. StageInv'
    BY <1>1 DEF ProcessEnds, StageInv, Running
  <2>. QED BY <2>1, <2>2
<1>2. ASSUME NEW p \in Processes, JoinNext(p)
      PROVE IInv'
  <2>1. TypeOK'
    BY <1>2 DEF JoinNext, CancelToken, Results, Causes, Stages
  <2>2. StageInv'
    BY <1>2 DEF JoinNext, StageInv, Running
  <2>3. CASE proc[p] = "ok"
    BY <1>2, <2>1, <2>2, <2>3 DEF JoinNext, CauseInv
  <2>4. CASE proc[p] # "ok"
    BY <1>2, <2>1, <2>2, <2>4
       DEF JoinNext, CancelToken, CauseInv, Results, Causes
  <2>. QED BY <2>3, <2>4
<1>3. ASSUME NEW p \in Processes, Abort(p)
      PROVE IInv'
  <2>1. TypeOK' /\ CauseInv'
    BY <1>3 DEF Abort, CauseInv, Running, Results
  <2>2. StageInv'
    BY <1>3 DEF Abort, StageInv
  <2>. QED BY <2>1, <2>2
<1>4. CASE Signal
  BY <1>4 DEF Signal, StageInv, CauseInv, Running, Causes
<1>5. CASE NothingToJoin
  BY <1>5 DEF NothingToJoin, StageInv, CauseInv, Running, Stages
<1>6. CASE RunClosers
  BY <1>6 DEF RunClosers, StageInv, CauseInv, Running, Stages
<1>7. ASSUME NEW c \in Closers, CloserEnds(c)
      PROVE IInv'
  BY <1>7 DEF CloserEnds, StageInv, CauseInv, Running
<1>8. CASE CloserTimeout
  BY <1>8 DEF CloserTimeout, StageInv, CauseInv, Running
<1>9. CASE Exit
  BY <1>9 DEF Exit, StageInv, CauseInv, Running, Stages
<1>10. CASE UNCHANGED vars
  BY <1>10 DEF vars, StageInv, CauseInv, Running
<1>. QED
  BY <1>1, <1>2, <1>3, <1>4, <1>5, <1>6, <1>7, <1>8, <1>9, <1>10 DEF Next

(* The conjunction that every step keeps. *)
THEOREM Invariance == Spec => []IInv
BY InitIInv, NextIInv, PTL DEF Spec

(* Every variable keeps its type. *)
THEOREM TypeCorrect == Spec => []TypeOK
<1>1. IInv => TypeOK
  BY DEF IInv
<1>. QED BY Invariance, <1>1, PTL

(* What the invariant says of closers and of the exit. *)
LEMMA LastAndTold == IInv => ClosersLast /\ ExitCodeTellsCause
<1>1. IInv => ClosersLast
  BY DEF IInv, TypeOK, StageInv, ClosersLast, Stages
<1>2. IInv => ExitCodeTellsCause
  <2>. SUFFICES ASSUME IInv, stage = "exited" PROVE ExitCodeTellsCause
    BY DEF ExitCodeTellsCause
  <2>1. exitCode = 1 <=> token = "error"
    BY DEF IInv, StageInv, CauseInv
  <2>2. token = "error" => firstError # NoProcess /\ proc[firstError] = "error"
    BY DEF IInv, CauseInv
  <2>3. token = "live" => \A p \in Processes : proc[p] = "ok"
    BY DEF IInv, CauseInv
  <2>. QED BY <2>1, <2>2, <2>3 DEF ExitCodeTellsCause
<1>. QED BY <1>1, <1>2

(* No process runs beside a closer or after the exit: join_set.shutdown() ends *)
(* every task before run_closers_static starts.                               *)
THEOREM ClosersRunLast == Spec => []ClosersLast
BY Invariance, LastAndTold, PTL

(* The program exits with 1 exactly when an error began the shutdown, and with *)
(* a live token only when every process returned Ok.                          *)
THEOREM ExitCodeSound == Spec => []ExitCodeTellsCause
BY Invariance, LastAndTold, PTL

-----------------------------------------------------------------------------
(***************************************************************************)
(* Sequences of steps.                                                      *)
(***************************************************************************)

\* No x is at y or behind it.
Before(x, y, s) == \A i, j \in DOMAIN s : s[i] = x /\ s[j] = y => i < j

(* What is left of a sequence without its head. *)
LEMMA TailFacts ==
  ASSUME NEW S, NEW s \in Seq(S), s # <<>>
  PROVE  /\ Head(s) \in S
         /\ Tail(s) \in Seq(S)
         /\ Range0(Tail(s)) \subseteq Range0(s)
         /\ Range0(s) \subseteq {Head(s)} \cup Range0(Tail(s))
         /\ Head(s) \in Range0(s)
<1>1. /\ Head(s) \in S /\ Tail(s) \in Seq(S)
      /\ Len(s) \in Nat /\ Len(s) > 0 /\ DOMAIN s = 1..Len(s)
      /\ Head(s) = s[1]
      /\ Len(Tail(s)) = Len(s) - 1 /\ DOMAIN Tail(s) = 1..(Len(s) - 1)
      /\ \A i \in 1..(Len(s) - 1) : Tail(s)[i] = s[i + 1]
  OBVIOUS
<1>2. Range0(Tail(s)) \subseteq Range0(s)
  BY <1>1 DEF Range0
<1>3. ASSUME NEW i \in 1..Len(s), i # 1
      PROVE  s[i] \in Range0(Tail(s))
  <2>1. i - 1 \in 1..(Len(s) - 1) /\ Tail(s)[i - 1] = s[i]
    BY <1>1, <1>3
  <2>. QED BY <2>1, <1>1 DEF Range0
<1>. QED BY <1>1, <1>2, <1>3 DEF Range0

(* An order is kept without the head, and nothing that comes first is left at it. *)
LEMMA TailOrder ==
  ASSUME NEW S, NEW s \in Seq(S), s # <<>>, NEW x, NEW y, Before(x, y, s)
  PROVE  /\ Before(x, y, Tail(s))
         /\ Head(s) = y => x \notin Range0(s)
<1>1. /\ Len(s) \in Nat /\ Len(s) > 0 /\ DOMAIN s = 1..Len(s)
      /\ Head(s) = s[1]
      /\ DOMAIN Tail(s) = 1..(Len(s) - 1)
      /\ \A i \in 1..(Len(s) - 1) : Tail(s)[i] = s[i + 1]
  OBVIOUS
<1>2. ASSUME NEW i \in DOMAIN Tail(s), NEW j \in DOMAIN Tail(s),
             Tail(s)[i] = x, Tail(s)[j] = y
      PROVE  i < j
  <2>1. i + 1 \in DOMAIN s /\ j + 1 \in DOMAIN s /\ s[i + 1] = x /\ s[j + 1] = y
    BY <1>1, <1>2
  <2>2. i + 1 < j + 1
    BY <2>1 DEF Before
  <2>. QED BY <2>2, <1>1
<1>3. ASSUME Head(s) = y, NEW i \in DOMAIN s, s[i] = x
      PROVE  FALSE
  BY <1>1, <1>3 DEF Before
<1>. QED BY <1>2, <1>3 DEF Before, Range0

(* One sequence behind another. *)
LEMMA Joined ==
  ASSUME NEW S, NEW s \in Seq(S), NEW t \in Seq(S)
  PROVE  /\ s \o t \in Seq(S)
         /\ Range0(s \o t) = Range0(s) \cup Range0(t)
<1>1. /\ s \o t \in Seq(S)
      /\ Len(s) \in Nat /\ Len(t) \in Nat /\ DOMAIN s = 1..Len(s) /\ DOMAIN t = 1..Len(t)
      /\ DOMAIN (s \o t) = 1..(Len(s) + Len(t))
      /\ \A i \in 1..(Len(s) + Len(t)) :
           (s \o t)[i] = IF i <= Len(s) THEN s[i] ELSE t[i - Len(s)]
  OBVIOUS
<1>2. ASSUME NEW i \in 1..Len(t) PROVE t[i] \in Range0(s \o t)
  <2>1. i + Len(s) \in 1..(Len(s) + Len(t)) /\ (s \o t)[i + Len(s)] = t[i]
    BY <1>1
  <2>. QED BY <2>1, <1>1 DEF Range0
<1>3. ASSUME NEW i \in 1..Len(s) PROVE s[i] \in Range0(s \o t)
  <2>1. i \in 1..(Len(s) + Len(t)) /\ (s \o t)[i] = s[i]
    BY <1>1
  <2>. QED BY <2>1, <1>1 DEF Range0
<1>4. ASSUME NEW i \in 1..(Len(s) + Len(t))
      PROVE  (s \o t)[i] \in Range0(s) \cup Range0(t)
  BY <1>1 DEF Range0
<1>. QED BY <1>1, <1>2, <1>3, <1>4 DEF Range0

(* What is in the first only comes before what is in the second only. *)
LEMMA JoinedOrder ==
  ASSUME NEW S, NEW s \in Seq(S), NEW t \in Seq(S), NEW x, NEW y,
         Before(x, y, s), Before(x, y, t), x \notin Range0(t) \/ y \notin Range0(s)
  PROVE  Before(x, y, s \o t)
<1>1. /\ Len(s) \in Nat /\ Len(t) \in Nat /\ DOMAIN s = 1..Len(s) /\ DOMAIN t = 1..Len(t)
      /\ DOMAIN (s \o t) = 1..(Len(s) + Len(t))
      /\ \A i \in 1..(Len(s) + Len(t)) :
           (s \o t)[i] = IF i <= Len(s) THEN s[i] ELSE t[i - Len(s)]
  OBVIOUS
<1>2. SUFFICES ASSUME NEW i \in 1..(Len(s) + Len(t)), NEW j \in 1..(Len(s) + Len(t)),
                      (s \o t)[i] = x, (s \o t)[j] = y
               PROVE  i < j
  BY <1>1 DEF Before
<1>3. CASE i <= Len(s) /\ j <= Len(s)
  BY <1>1, <1>2, <1>3 DEF Before
<1>4. CASE i > Len(s) /\ j > Len(s)
  <2>1. /\ i - Len(s) \in DOMAIN t /\ j - Len(s) \in DOMAIN t
        /\ t[i - Len(s)] = x /\ t[j - Len(s)] = y
    BY <1>1, <1>2, <1>4
  <2>2. i - Len(s) < j - Len(s)
    BY <2>1 DEF Before
  <2>. QED BY <2>2, <1>1
<1>5. CASE i <= Len(s) /\ j > Len(s)
  BY <1>1, <1>5
<1>6. CASE i > Len(s) /\ j <= Len(s)
  <2>1. /\ i - Len(s) \in DOMAIN t /\ t[i - Len(s)] = x /\ j \in DOMAIN s /\ s[j] = y
    BY <1>1, <1>2, <1>6
  <2>. QED BY <2>1 DEF Range0
<1>. QED BY <1>1, <1>3, <1>4, <1>5, <1>6

(* An order says nothing of a sequence without one of the two. *)
LEMMA NoOrder ==
  ASSUME NEW s, NEW x, NEW y, x \notin Range0(s) \/ y \notin Range0(s)
  PROVE  Before(x, y, s)
BY DEF Before, Range0

-----------------------------------------------------------------------------
(***************************************************************************)
(* The start-up.                                                            *)
(***************************************************************************)
Launch == <<"launch", "gateways">>
Load   == <<"load", "policies">>

Steps ==
  {"connect", "migrate", "stream", "load", "policy", "launch", "consumer"}
    \X ({"telemetry", "postgres", "clickhouse", "nats", "adapter", "policies", "gateways"}
        \cup DOMAIN ConsumerStream \cup Range0(Streams) \cup Range0(BasePolicies))

\* What the start-up makes and the program needs, and the step that makes it.
Required ==
  {<<"table", db>> : db \in {"postgres", "clickhouse"}}
  \cup {<<"stream", s>> : s \in Range0(Streams)}
  \cup {<<"consumer", c>> : c \in DOMAIN ConsumerStream}

Maker(x) == IF x[1] = "table" THEN <<"migrate", x[2]>> ELSE x

\* The steps before the policies, and those of the policies.
First == <<<<"connect", "telemetry">>>> \o SharedDependencies

\* What comes before what, in a plan or the rest of one.
InOrder(s) ==
  /\ Before(<<"migrate", "postgres">>, Launch, s)
  /\ Before(<<"stream", Streams.raw>>, Launch, s)
  /\ \A p \in Range0(BasePolicies) : Before(Load, <<"policy", p>>, s)

(* One step for each name. *)
LEMMA LabelledFacts ==
  ASSUME NEW kind, NEW S, NEW names \in Seq(S)
  PROVE  /\ Labelled(kind, names) \in Seq({kind} \X S)
         /\ Range0(Labelled(kind, names)) = {<<kind, n>> : n \in Range0(names)}
<1>1. DOMAIN names = 1..Len(names) /\ Len(names) \in Nat
      /\ \A i \in 1..Len(names) : names[i] \in S
  OBVIOUS
<1>2. Labelled(kind, names) \in Seq({kind} \X S)
  BY <1>1 DEF Labelled
<1>. QED BY <1>1, <1>2 DEF Labelled, Range0

(* The streams are those that the settings name. *)
LEMMA StreamNames ==
  /\ Range0(Streams) =
       {Streams.processed, Streams.raw, Streams.gateway, Streams.end_devices,
        Streams.organization, Streams.user, Streams.definitions}
  /\ \A c \in DOMAIN ConsumerStream : ConsumerStream[c] \in Range0(Streams)
<1>1. DOMAIN Streams = {"processed", "raw", "gateway", "end_devices", "organization",
                        "user", "definitions"}
  BY StartupAssumption DEF DefaultStreams
<1>2. Range0(Streams) =
       {Streams.processed, Streams.raw, Streams.gateway, Streams.end_devices,
        Streams.organization, Streams.user, Streams.definitions}
  BY <1>1 DEF Range0
<1>. QED BY <1>2 DEF ConsumerStream

(* Each part of the plan, and the steps in it. *)
LEMMA PartsOfPlan ==
  /\ First \in Seq(Steps)
  /\ Range0(First) =
       {<<"connect", "telemetry">>, <<"migrate", "postgres">>, <<"migrate", "clickhouse">>,
        <<"connect", "clickhouse">>, <<"connect", "nats">>}
       \cup {<<"stream", s>> : s \in Range0(Streams)}
  /\ PolicySteps \in Seq(Steps)
  /\ Range0(PolicySteps) =
       {<<"connect", "adapter">>, Load}
       \cup {<<"policy", p>> : p \in Range0(BasePolicies)}
  /\ GatewaySteps \in Seq(Steps)
  /\ Range0(GatewaySteps) = {Launch, <<"consumer", "gateway-orchestrator-consumer">>}
  /\ WorkerSteps \in Seq(Steps)
  /\ Range0(WorkerSteps) =
       {<<"consumer", "ponix-all-in-one">>, <<"consumer", "ponix-all-in-one-raw">>}
<1>. DEFINE names == <<Streams.processed, Streams.raw, Streams.gateway, Streams.end_devices,
                       Streams.organization, Streams.user, Streams.definitions>>
            shared == <<<<"migrate", "postgres">>, <<"migrate", "clickhouse">>,
                        <<"connect", "clickhouse">>, <<"connect", "nats">>>>
            telemetry == <<<<"connect", "telemetry">>>>
            policies == <<<<"connect", "adapter">>, Load>>
            workers == <<"ponix-all-in-one", "ponix-all-in-one-raw">>
<1>1. StreamSteps \in Seq(Steps)
      /\ Range0(StreamSteps) = {<<"stream", s>> : s \in Range0(Streams)}
  <2>1. names \in Seq(Range0(Streams)) /\ Range0(names) = Range0(Streams)
    BY StreamNames DEF Range0
  <2>2. StreamSteps \in Seq({"stream"} \X Range0(Streams))
        /\ Range0(StreamSteps) = {<<"stream", s>> : s \in Range0(names)}
    BY <2>1, LabelledFacts DEF StreamSteps
  <2>. QED BY <2>1, <2>2 DEF Steps
<1>2. shared \in Seq(Steps) /\ telemetry \in Seq(Steps) /\ policies \in Seq(Steps)
  BY DEF Steps, Load
<1>3. Range0(shared) = {<<"migrate", "postgres">>, <<"migrate", "clickhouse">>,
                        <<"connect", "clickhouse">>, <<"connect", "nats">>}
  BY DEF Range0
<1>4. Range0(telemetry) = {<<"connect", "telemetry">>}
  BY DEF Range0
<1>5. Range0(policies) = {<<"connect", "adapter">>, Load}
  BY DEF Range0
<1>6. SharedDependencies \in Seq(Steps)
      /\ Range0(SharedDependencies) = Range0(shared) \cup Range0(StreamSteps)
  <2>. HIDE DEF shared
  <2>1. shared \o StreamSteps \in Seq(Steps)
        /\ Range0(shared \o StreamSteps) = Range0(shared) \cup Range0(StreamSteps)
    BY <1>1, <1>2, Joined
  <2>2. SharedDependencies = shared \o StreamSteps
    BY DEF SharedDependencies, shared
  <2>. QED BY <2>1, <2>2
<1>7. First \in Seq(Steps)
      /\ Range0(First) = Range0(telemetry) \cup Range0(SharedDependencies)
  <2>. HIDE DEF telemetry
  <2>1. telemetry \o SharedDependencies \in Seq(Steps)
        /\ Range0(telemetry \o SharedDependencies)
             = Range0(telemetry) \cup Range0(SharedDependencies)
    BY <1>2, <1>6, Joined
  <2>2. First = telemetry \o SharedDependencies
    BY DEF First, telemetry
  <2>. QED BY <2>1, <2>2
<1>8. PolicySteps \in Seq(Steps)
      /\ Range0(PolicySteps) =
           {<<"connect", "adapter">>, Load}
           \cup {<<"policy", p>> : p \in Range0(BasePolicies)}
  <2>1. Labelled("policy", BasePolicies) \in Seq({"policy"} \X Range0(BasePolicies))
        /\ Range0(Labelled("policy", BasePolicies))
             = {<<"policy", p>> : p \in Range0(BasePolicies)}
    BY StartupAssumption, LabelledFacts
  <2>2. Labelled("policy", BasePolicies) \in Seq(Steps)
    BY <2>1 DEF Steps
  <2>3. PolicySteps = policies \o Labelled("policy", BasePolicies)
    BY DEF PolicySteps, Load
  <2>. HIDE DEF policies
  <2>4. PolicySteps \in Seq(Steps)
        /\ Range0(PolicySteps) = Range0(policies) \cup Range0(Labelled("policy", BasePolicies))
    BY <1>2, <2>2, <2>3, Joined
  <2>. QED BY <1>5, <2>1, <2>4
<1>9. GatewaySteps \in Seq(Steps)
      /\ Range0(GatewaySteps) = {Launch, <<"consumer", "gateway-orchestrator-consumer">>}
  BY DEF GatewaySteps, Launch, Steps, ConsumerStream, Range0
<1>10. WorkerSteps \in Seq(Steps)
       /\ Range0(WorkerSteps) =
            {<<"consumer", "ponix-all-in-one">>, <<"consumer", "ponix-all-in-one-raw">>}
  <2>1. workers \in Seq(DOMAIN ConsumerStream)
        /\ Range0(workers) = {"ponix-all-in-one", "ponix-all-in-one-raw"}
    BY DEF ConsumerStream, Range0
  <2>2. WorkerSteps \in Seq({"consumer"} \X DOMAIN ConsumerStream)
        /\ Range0(WorkerSteps) = {<<"consumer", c>> : c \in Range0(workers)}
    BY <2>1, LabelledFacts DEF WorkerSteps
  <2>. QED BY <2>1, <2>2 DEF Steps
<1>. QED BY <1>1, <1>3, <1>4, <1>6, <1>7, <1>8, <1>9, <1>10

(* The plan makes what is required, and in the right order. *)
LEMMA PlanFacts ==
  /\ Plan \in Seq(Steps)
  /\ \A x \in Required : Maker(x) \in Range0(Plan)
  /\ Load \in Range0(Plan)
  /\ \A p \in Range0(BasePolicies) : <<"policy", p>> \in Range0(Plan)
  /\ InOrder(Plan)
<1>. DEFINE upToPolicies == First \o PolicySteps
            upToGateways == upToPolicies \o GatewaySteps
<1>1. Plan = upToGateways \o WorkerSteps
  BY DEF Plan, First
<1>2. upToPolicies \in Seq(Steps)
      /\ Range0(upToPolicies) = Range0(First) \cup Range0(PolicySteps)
  BY PartsOfPlan, Joined
<1>3. upToGateways \in Seq(Steps)
      /\ Range0(upToGateways) = Range0(upToPolicies) \cup Range0(GatewaySteps)
  <2>. HIDE DEF upToPolicies
  <2>. QED BY <1>2, PartsOfPlan, Joined
<1>4. Plan \in Seq(Steps)
      /\ Range0(Plan) = Range0(First) \cup Range0(PolicySteps) \cup Range0(GatewaySteps)
                          \cup Range0(WorkerSteps)
  <2>. HIDE DEF upToGateways
  <2>. QED BY <1>1, <1>2, <1>3, PartsOfPlan, Joined
<1>5. \A x \in Required : Maker(x) \in Range0(Plan)
  BY <1>4, PartsOfPlan DEF Required, Maker, ConsumerStream
<1>6. ASSUME NEW x \in Range0(First), x \notin Range0(PolicySteps)
      PROVE  Before(x, Launch, Plan)
  <2>1. x[1] \in {"connect", "migrate", "stream"}
    BY <1>6, PartsOfPlan
  <2>2. /\ Launch \notin Range0(First) /\ Launch \notin Range0(PolicySteps)
        /\ Launch \notin Range0(WorkerSteps)
        /\ x \notin Range0(GatewaySteps) /\ x \notin Range0(WorkerSteps)
    BY <2>1, PartsOfPlan DEF Launch, Load
  <2>3. /\ Before(x, Launch, upToPolicies)
        /\ Before(x, Launch, GatewaySteps) /\ Before(x, Launch, WorkerSteps)
    BY <1>2, <2>2, NoOrder
  <2>4. Before(x, Launch, upToGateways)
    BY <1>2, <2>2, <2>3, PartsOfPlan, JoinedOrder
  <2>. QED BY <1>1, <1>3, <2>2, <2>3, <2>4, PartsOfPlan, JoinedOrder
<1>7. ASSUME NEW p \in Range0(BasePolicies)
      PROVE  Before(Load, <<"policy", p>>, Plan)
  <2>. DEFINE policies == <<<<"connect", "adapter">>, Load>>
              rest == Labelled("policy", BasePolicies)
              y == <<"policy", p>>
  <2>1. /\ policies \in Seq(Steps) /\ Range0(policies) = {<<"connect", "adapter">>, Load}
        /\ PolicySteps = policies \o rest
    BY DEF Steps, Load, Range0, PolicySteps
  <2>2. rest \in Seq(Steps) /\ Range0(rest) = {<<"policy", q>> : q \in Range0(BasePolicies)}
    <3>1. rest \in Seq({"policy"} \X Range0(BasePolicies))
          /\ Range0(rest) = {<<"policy", q>> : q \in Range0(BasePolicies)}
      BY StartupAssumption, LabelledFacts
    <3>. QED BY <3>1 DEF Steps
  <2>3. /\ Load \notin Range0(rest) /\ y \notin Range0(policies)
        /\ Load \notin Range0(First) /\ y \notin Range0(First)
        /\ Load \notin Range0(GatewaySteps) /\ Load \notin Range0(WorkerSteps)
    BY <2>1, <2>2, PartsOfPlan DEF Load, Launch
  <2>. HIDE DEF policies, rest, y
  <2>4. Before(Load, y, PolicySteps)
    BY <2>1, <2>2, <2>3, NoOrder, JoinedOrder
  <2>5. Before(Load, y, upToPolicies)
    BY <2>3, <2>4, PartsOfPlan, NoOrder, JoinedOrder
  <2>6. Before(Load, y, upToGateways)
    BY <1>2, <2>3, <2>5, PartsOfPlan, NoOrder, JoinedOrder
  <2>7. Before(Load, y, Plan)
    BY <1>1, <1>3, <2>3, <2>6, PartsOfPlan, NoOrder, JoinedOrder
  <2>. QED BY <2>7 DEF y
<1>8. Before(<<"migrate", "postgres">>, Launch, Plan)
  BY <1>6, PartsOfPlan DEF Load
<1>9. Before(<<"stream", Streams.raw>>, Launch, Plan)
  BY <1>6, PartsOfPlan, StreamNames DEF Load
<1>10. Load \in Range0(Plan)
       /\ \A p \in Range0(BasePolicies) : <<"policy", p>> \in Range0(Plan)
  BY <1>4, PartsOfPlan
<1>. QED BY <1>4, <1>5, <1>7, <1>8, <1>9, <1>10 DEF InOrder

\* What is made is made, or still to be done; and what the tasks need was made first.
MadeInv ==
  /\ phase # "down" => \A x \in Required : Maker(x) \in Range0(todo) \/ x \in made
  /\ phase = "up" => todo = <<>>
  /\ tasks => {<<"table", "postgres">>, <<"stream", Streams.raw>>} \subseteq made

\* A base policy is in the enforcer, or still to be added, or excused; and once the
\* stored ones are loaded, no other is stored without a reason.
PolicyInv ==
  phase # "down" =>
    /\ \A p \in Range0(BasePolicies) :
         <<"policy", p>> \in Range0(todo) \/ p \in known \cup excused
    /\ IF Load \in Range0(todo)
       THEN \A p \in Range0(BasePolicies) : <<"policy", p>> \in Range0(todo)
       ELSE \A p \in Range0(BasePolicies) :
              <<"policy", p>> \in made => p \in known \cup excused

BootInv ==
  /\ todo \in Seq(Steps)
  /\ InOrder(todo)
  /\ MadeInv
  /\ PolicyInv

(* There is nothing to put in order. *)
LEMMA EmptyFacts == <<>> \in Seq(Steps) /\ Range0(<<>>) = {} /\ InOrder(<<>>)
<1>1. <<>> \in Seq(Steps) /\ Range0(<<>>) = {}
  BY DEF Range0
<1>. QED BY <1>1, NoOrder DEF InOrder

(* A program that is down owes nothing. *)
LEMMA DownIsSafe == ASSUME Die PROVE BootInv'
<1>1. todo' = <<>> /\ phase' = "down" /\ ~tasks'
  BY DEF Die
<1>2. todo' \in Seq(Steps) /\ InOrder(todo')
  BY <1>1, EmptyFacts
<1>3. InOrder(todo)'
  BY <1>2 DEF InOrder, Before
<1>. QED BY <1>1, <1>2, <1>3 DEF BootInv, MadeInv, PolicyInv

(* The rest of the plan after the step that was done. *)
LEMMA RestOfPlan ==
  ASSUME BootInv, todo # <<>>, Advance
  PROVE  /\ (todo \in Seq(Steps))'
         /\ InOrder(todo)'
         /\ Range0(todo') \subseteq Range0(todo)
         /\ Range0(todo) \subseteq {Head(todo)} \cup Range0(todo')
         /\ Head(todo) \in Range0(todo)
         /\ Head(todo) = Launch =>
              <<"migrate", "postgres">> \notin Range0(todo)
              /\ <<"stream", Streams.raw>> \notin Range0(todo)
         /\ \A p \in Range0(BasePolicies) :
              Head(todo) = <<"policy", p>> => Load \notin Range0(todo)
<1>1. todo \in Seq(Steps) /\ InOrder(todo) /\ todo' = Tail(todo)
  BY DEF BootInv, Advance
<1>2. InOrder(Tail(todo))
  BY <1>1, TailOrder DEF InOrder
<1>3. InOrder(todo)'
  BY <1>1, <1>2 DEF InOrder, Before
<1>4. /\ todo' \in Seq(Steps)
      /\ Range0(todo') \subseteq Range0(todo)
      /\ Range0(todo) \subseteq {Head(todo)} \cup Range0(todo')
      /\ Head(todo) \in Range0(todo)
  BY <1>1, TailFacts
<1>5. Head(todo) = Launch =>
        <<"migrate", "postgres">> \notin Range0(todo)
        /\ <<"stream", Streams.raw>> \notin Range0(todo)
  BY <1>1, TailOrder DEF InOrder
<1>6. \A p \in Range0(BasePolicies) :
        Head(todo) = <<"policy", p>> => Load \notin Range0(todo)
  BY <1>1, TailOrder DEF InOrder
<1>. QED BY <1>3, <1>4, <1>5, <1>6

(* A step that makes what it stands for, and changes no policy. *)
LEMMA StepDone ==
  ASSUME BootInv, phase = "starting", todo # <<>>, Advance,
         made \subseteq made', UNCHANGED <<phase, known, tasks, excused>>,
         \A x \in Required : Maker(x) = Head(todo) => x \in made',
         Head(todo)[1] \notin {"load", "policy"},
         \A p \in Range0(BasePolicies) : <<"policy", p>> \in made' => <<"policy", p>> \in made
  PROVE  BootInv'
<1>1. MadeInv'
  BY RestOfPlan DEF BootInv, MadeInv
<1>2. Load \in Range0(todo') <=> Load \in Range0(todo)
  BY RestOfPlan DEF Load
<1>3. \A p \in Range0(BasePolicies) :
        <<"policy", p>> \in Range0(todo') <=> <<"policy", p>> \in Range0(todo)
  <2>1. \A p : Head(todo) # <<"policy", p>>
    OBVIOUS
  <2>. QED BY <2>1, RestOfPlan
<1>4. PolicyInv'
  BY <1>2, <1>3 DEF BootInv, PolicyInv
<1>. QED BY <1>1, <1>4, RestOfPlan DEF BootInv

(* Nothing of the start-up is touched. *)
LEMMA BootUntouched == ASSUME BootInv, UNCHANGED bootVars PROVE BootInv'
BY DEF BootInv, InOrder, Before, MadeInv, PolicyInv, bootVars, Range0

LEMMA StartBootInv == Start => BootInv
BY PlanFacts DEF Start, BootInv, MadeInv, PolicyInv

LEMMA NextBootInv == BootInv /\ [ProgramNext]_allVars => BootInv'
<1>. SUFFICES ASSUME BootInv, [ProgramNext]_allVars PROVE BootInv'
  OBVIOUS
<1>1. ASSUME NEW db \in {"postgres", "clickhouse"}, Migrate(db) PROVE BootInv'
  <2>1. /\ phase = "starting" /\ todo # <<>> /\ Advance /\ Head(todo) = <<"migrate", db>>
        /\ made \subseteq made' /\ UNCHANGED <<phase, known, tasks, excused>>
        /\ <<"table", db>> \in made'
        /\ \A p : <<"policy", p>> \in made' => <<"policy", p>> \in made
    BY <1>1 DEF Migrate, Migration, Doing
  <2>2. \A x \in Required : Maker(x) = Head(todo) => x = <<"table", db>>
    BY <2>1 DEF Required, Maker
  <2>. QED BY <2>1, <2>2, StepDone
<1>2. ASSUME NEW db \in {"postgres", "clickhouse"}, MigrationFails(db) PROVE BootInv'
  BY <1>2, DownIsSafe DEF MigrationFails
<1>3. ASSUME NEW x, Doing("connect", x), WithinTheProgram PROVE BootInv'
  <2>1. /\ phase = "starting" /\ todo # <<>> /\ Advance /\ Head(todo) = <<"connect", x>>
        /\ made' = made /\ UNCHANGED <<phase, known, tasks, excused>>
    BY <1>3 DEF WithinTheProgram, Doing
  <2>2. \A y \in Required : Maker(y) # Head(todo)
    BY <2>1 DEF Required, Maker
  <2>. QED BY <2>1, <2>2, StepDone
<1>4. ASSUME NEW s \in Range0(Streams), EnsureStream(s) PROVE BootInv'
  <2>1. /\ phase = "starting" /\ todo # <<>> /\ Advance /\ Head(todo) = <<"stream", s>>
        /\ made \subseteq made' /\ UNCHANGED <<phase, known, tasks, excused>>
        /\ <<"stream", s>> \in made'
        /\ \A p : <<"policy", p>> \in made' => <<"policy", p>> \in made
    BY <1>4 DEF EnsureStream, Doing
  <2>2. \A x \in Required : Maker(x) = Head(todo) => x = <<"stream", s>>
    BY <2>1 DEF Required, Maker
  <2>. QED BY <2>1, <2>2, StepDone
<1>5. CASE LoadPolicies
  <2>1. /\ phase = "starting" /\ todo # <<>> /\ Advance /\ Head(todo) = Load
        /\ known' = {p \in Range0(BasePolicies) : <<"policy", p>> \in made}
        /\ UNCHANGED <<phase, made, tasks, excused>>
    BY <1>5 DEF LoadPolicies, Doing, Load
  <2>2. \A y \in Required : Maker(y) # Head(todo)
    BY <2>1 DEF Required, Maker, Load
  <2>3. MadeInv'
    BY <2>1, <2>2, RestOfPlan DEF BootInv, MadeInv
  <2>4. \A p \in Range0(BasePolicies) : <<"policy", p>> \in Range0(todo')
    BY <2>1, RestOfPlan DEF BootInv, PolicyInv, Load
  <2>5. PolicyInv'
    BY <2>1, <2>4 DEF PolicyInv
  <2>. QED BY <2>1, <2>3, <2>5, RestOfPlan DEF BootInv
<1>6. ASSUME NEW p \in Range0(BasePolicies), AddPolicy(p) PROVE BootInv'
  <2>1. /\ phase = "starting" /\ todo # <<>> /\ Advance /\ Head(todo) = <<"policy", p>>
        /\ made \subseteq made' /\ made' \subseteq made \cup {<<"policy", p>>}
        /\ known \subseteq known' /\ excused \subseteq excused'
        /\ <<"policy", p>> \in made \/ p \in known' \cup excused'
        /\ UNCHANGED <<phase, tasks>>
    BY <1>6 DEF AddPolicy, Doing
  <2>2. \A y \in Required : Maker(y) # Head(todo)
    BY <2>1 DEF Required, Maker
  <2>3. MadeInv'
    BY <2>1, <2>2, RestOfPlan DEF BootInv, MadeInv
  <2>4. Load \notin Range0(todo) /\ Load \notin Range0(todo')
    BY <2>1, RestOfPlan
  <2>5. p \in known' \cup excused'
    BY <2>1, <2>4 DEF BootInv, PolicyInv
  <2>6. PolicyInv'
    BY <2>1, <2>4, <2>5, RestOfPlan DEF BootInv, PolicyInv
  <2>. QED BY <2>1, <2>3, <2>6, RestOfPlan DEF BootInv
<1>7. CASE LaunchGateways
  <2>1. /\ phase = "starting" /\ todo # <<>> /\ Advance /\ Head(todo) = Launch
        /\ tasks' = TRUE /\ UNCHANGED <<phase, made, known, excused>>
    BY <1>7 DEF LaunchGateways, Doing, Launch
  <2>2. \A y \in Required : Maker(y) # Head(todo)
    BY <2>1 DEF Required, Maker, Launch
  <2>3. {<<"table", "postgres">>, <<"stream", Streams.raw>>} \subseteq made
    <3>1. <<"table", "postgres">> \in Required /\ <<"stream", Streams.raw>> \in Required
      BY StreamNames DEF Required
    <3>. QED BY <2>1, <3>1, RestOfPlan DEF BootInv, MadeInv, Maker
  <2>4. MadeInv'
    BY <2>1, <2>2, <2>3, RestOfPlan DEF BootInv, MadeInv
  <2>5. PolicyInv'
    BY <2>1, RestOfPlan DEF BootInv, PolicyInv, Load, Launch
  <2>. QED BY <2>1, <2>4, <2>5, RestOfPlan DEF BootInv
<1>8. ASSUME NEW c \in DOMAIN ConsumerStream, CreateConsumer(c) PROVE BootInv'
  <2>1. CASE <<"stream", ConsumerStream[c]>> \in made
    <3>1. /\ phase = "starting" /\ todo # <<>> /\ Advance /\ Head(todo) = <<"consumer", c>>
          /\ made \subseteq made' /\ UNCHANGED <<phase, known, tasks, excused>>
          /\ <<"consumer", c>> \in made'
          /\ \A p : <<"policy", p>> \in made' => <<"policy", p>> \in made
      BY <1>8, <2>1 DEF CreateConsumer, Doing
    <3>2. \A x \in Required : Maker(x) = Head(todo) => x = <<"consumer", c>>
      BY <3>1 DEF Required, Maker
    <3>. QED BY <3>1, <3>2, StepDone
  <2>2. CASE <<"stream", ConsumerStream[c]>> \notin made
    BY <1>8, <2>2, DownIsSafe DEF CreateConsumer
  <2>. QED BY <2>1, <2>2
<1>9. CASE StepFails
  BY <1>9, DownIsSafe DEF StepFails
<1>10. CASE RunnerStarts
  BY <1>10 DEF RunnerStarts, BootInv, InOrder, Before, MadeInv, PolicyInv, Range0
<1>11. CASE RunnerStep
  <2>1. CASE stage' = "exited"
    BY <1>11, <2>1, DownIsSafe DEF RunnerStep
  <2>2. CASE stage' # "exited"
    BY <1>11, <2>2, BootUntouched DEF RunnerStep, bootVars
  <2>. QED BY <2>1, <2>2
<1>12. ASSUME NEW p \in Range0(BasePolicies), OtherInstanceStores(p) PROVE BootInv'
  <2>1. /\ made' = made \cup {<<"policy", p>>}
        /\ excused \subseteq excused'
        /\ Load \notin Range0(todo) => p \in excused'
        /\ UNCHANGED <<phase, todo, known, tasks>>
    BY <1>12 DEF OtherInstanceStores, Range0, Load
  <2>2. PolicyInv'
    BY <2>1 DEF BootInv, PolicyInv
  <2>. QED BY <2>1, <2>2 DEF BootInv, InOrder, Before, MadeInv
<1>13. CASE Crash
  BY <1>13, DownIsSafe DEF Crash
<1>14. CASE RestartProgram
  <2>1. /\ phase' = "starting" /\ todo' = Plan /\ UNCHANGED <<made, known, tasks>>
    BY <1>14 DEF RestartProgram
  <2>2. InOrder(todo)'
    BY <2>1, PlanFacts DEF InOrder, Before
  <2>. QED BY <2>1, <2>2, PlanFacts DEF BootInv, MadeInv, PolicyInv
<1>15. CASE UNCHANGED allVars
  BY <1>15, BootUntouched DEF allVars, bootVars
<1>16. ASSUME StartupStep PROVE BootInv'
  BY <1>1, <1>2, <1>3, <1>4, <1>5, <1>6, <1>7, <1>8, <1>9, <1>10, <1>16
     DEF StartupStep, InitTelemetry, ConnectNats, Connect
<1>. QED BY <1>11, <1>12, <1>13, <1>14, <1>15, <1>16 DEF ProgramNext

(* What the start-up owes, whatever failed in this start or in earlier ones. *)
THEOREM BootInvariance == ProgramSpec => []BootInv
BY StartBootInv, NextBootInv, PTL DEF ProgramSpec

(* The processes find what they use, and so do the tasks of the gateways, which    *)
(* run before them: main makes all of it, in every start, before it hands them to  *)
(* the runner, and what exists stays.                                             *)
THEOREM WhatIsUsedExists == ProgramSpec => []UsesWhatExists
<1>1. BootInv => UsesWhatExists
  <2>. SUFFICES ASSUME BootInv PROVE UsesWhatExists
    OBVIOUS
  <2>1. phase = "up" => Required \subseteq made
    BY EmptyFacts DEF BootInv, MadeInv
  <2>2. ASSUME NEW q \in Processes PROVE Needs(q) \subseteq Required
    <3>1. EntityStreams \subseteq Required
      BY StartupAssumption DEF EntityStreams, Required
    <3>2. <<"stream", Streams.raw>> \in Required /\ <<"stream", Streams.processed>> \in Required
      BY StreamNames DEF Required
    <3>. QED BY <3>1, <3>2, StartupAssumption DEF Needs, Required, ConsumerStream
  <2>3. tasks => {<<"table", "postgres">>, <<"stream", Streams.raw>>} \subseteq made
    BY DEF BootInv, MadeInv
  <2>. QED BY <2>1, <2>2, <2>3 DEF UsesWhatExists
<1>. QED BY BootInvariance, <1>1, PTL

(* A program that runs enforces every base policy that no failed insert and no      *)
(* other instance kept from it: the ones stored by earlier starts are loaded.       *)
THEOREM PoliciesAreWhole == ProgramSpec => []PoliciesWhole
<1>1. BootInv => PoliciesWhole
  BY EmptyFacts DEF BootInv, MadeInv, PolicyInv, PoliciesWhole
<1>. QED BY BootInvariance, <1>1, PTL

-----------------------------------------------------------------------------
(***************************************************************************)
(* The runner inside the program, which is started again and again.          *)
(***************************************************************************)
LEMMA ProgramKeepsRunner == IInv /\ [ProgramNext]_allVars => IInv'
<1>1. NewRunner => Init'
  BY DEF NewRunner, Init
<1>2. Init' => IInv'
  BY InitIInv, PTL
<1>3. [ProgramNext]_allVars => NewRunner \/ [Next]_vars
  BY DEF ProgramNext, allVars, StartupStep, Migrate, MigrationFails, InitTelemetry, ConnectNats,
         Connect, WithinTheProgram, EnsureStream, LoadPolicies, AddPolicy, LaunchGateways,
         CreateConsumer, StepFails, RunnerStarts, RunnerStep, OtherInstanceStores, Crash,
         RestartProgram
<1>. QED BY <1>1, <1>2, <1>3, NextIInv

(* No process of any life of the program runs beside a closer of it, and its exit    *)
(* code tells what ended it.                                                       *)
THEOREM EveryLifeEndsWell == ProgramSpec => [](ClosersLast /\ ExitCodeTellsCause)
<1>1. Start => IInv
  BY InitIInv DEF Start
<1>2. ProgramSpec => []IInv
  BY <1>1, ProgramKeepsRunner, PTL DEF ProgramSpec
<1>. QED BY <1>2, LastAndTold, PTL
=============================================================================
