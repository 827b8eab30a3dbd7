---------------------------- MODULE RegistryProofs ----------------------------
(***************************************************************************)
(* Proofs about Registry for any number of users, rows and requests.        *)
(***************************************************************************)
EXTENDS RegistryReads, TLAPS

(***************************************************************************)
(* What the helpers do to the requests.                                     *)
(***************************************************************************)

\* The requests other than r do not change.
OthersStay(r) == \A q \in Requests \ {r} : request'[q] = request[q]

\* A request that goes on keeps what it names.
LEMMA GotoKeeps ==
  ASSUME TypeOK, NEW r \in Requests, ~Idle(r),
         NEW step \in {"definition", "gateway", "write", "role"}, Goto(r, step)
  PROVE  /\ request' \in [Requests -> {NoRequest} \cup InFlight]
         /\ request'[r].step = step
         /\ request'[r].op = request[r].op
         /\ request'[r].user = request[r].user
         /\ request'[r].org = request[r].org
         /\ request'[r].gateway = request[r].gateway
         /\ request'[r].definition = request[r].definition
         /\ OthersStay(r)
<1>1. request[r] \in InFlight
  BY DEF TypeOK, RequestsOK, Idle, NoRequest
<1>2. request' = [request EXCEPT ![r] = [request[r] EXCEPT !.step = step]]
  BY DEF Goto
<1>3. [request[r] EXCEPT !.step = step] \in InFlight
  BY <1>1 DEF InFlight
<1>. QED
  BY <1>1, <1>2, <1>3 DEF TypeOK, RequestsOK, InFlight, OthersStay

LEMMA EndKeeps ==
  ASSUME TypeOK, NEW r \in Requests, End(r)
  PROVE  /\ request' \in [Requests -> {NoRequest} \cup InFlight]
         /\ request'[r] = NoRequest
         /\ OthersStay(r)
         /\ overtaken' \in [Organizations \cup Gateways -> SUBSET Requests]
         /\ \A x \in Organizations \cup Gateways : overtaken'[x] = overtaken[x] \ {r}
BY DEF TypeOK, RequestsOK, End, OthersStay

\* All other requests in flight are overtaken by a deletion.
LEMMA DeletionKeeps ==
  ASSUME TypeOK, NEW r \in Requests, NEW x \in Organizations \cup Gateways,
         EndByDeleting(r, x)
  PROVE  /\ request' \in [Requests -> {NoRequest} \cup InFlight]
         /\ request'[r] = NoRequest
         /\ OthersStay(r)
         /\ overtaken' \in [Organizations \cup Gateways -> SUBSET Requests]
         /\ overtaken'[x] = {q \in Requests : ~Idle(q)} \ {r}
         /\ \A y \in (Organizations \cup Gateways) \ {x} :
              overtaken'[y] = overtaken[y] \ {r}
BY DEF TypeOK, RequestsOK, EndByDeleting, OthersStay

(***************************************************************************)
(* Types.                                                                   *)
(***************************************************************************)

\* Rows are added and deleted, but not removed.
RowsStay ==
  /\ \A g \in Gateways : gateways[g] # Absent => gateways'[g] # Absent
  /\ \A d \in Definitions : definitions[d] # Absent => definitions'[d] # Absent

\* A request that stays as it is goes on naming rows.
LEMMA OthersNameRows ==
  ASSUME TypeOK, NEW q \in Requests, request'[q] = request[q], RowsStay
  PROVE  NamesRows(q)'
<1>1. /\ request[q].gateway \in Gateways \cup {None}
      /\ request[q].definition \in Definitions \cup {None}
  BY DEF TypeOK, RequestsOK, NoRequest, InFlight
<1>. QED
  BY <1>1 DEF TypeOK, RequestsOK, NamesRows, RowsStay, At

LEMMA GotoOK ==
  ASSUME TypeOK, NEW r \in Requests, ~Idle(r), RowsStay,
         NEW step \in {"definition", "gateway", "write", "role"}, Goto(r, step),
         request[r].op = "createOrganization" <=> step = "role"
  PROVE  RequestsOK'
<1>1. /\ request[r].gateway \in Gateways \cup {None}
      /\ request[r].definition \in Definitions \cup {None}
  BY DEF TypeOK, RequestsOK, NoRequest, InFlight
<1>2. NamesRows(r)'
  BY <1>1, GotoKeeps DEF TypeOK, RequestsOK, NamesRows, RowsStay, At
<1>. QED
  BY <1>2, GotoKeeps, OthersNameRows DEF RequestsOK, OthersStay

LEMMA EndOK ==
  ASSUME TypeOK, NEW r \in Requests, RowsStay,
         End(r) \/ \E x \in Organizations \cup Gateways : EndByDeleting(r, x)
  PROVE  RequestsOK'
<1>1. /\ request' \in [Requests -> {NoRequest} \cup InFlight]
      /\ request'[r] = NoRequest
      /\ OthersStay(r)
  BY EndKeeps, DeletionKeeps
<1>2. NamesRows(r)'
  BY <1>1 DEF NamesRows, At, NoRequest, OnGateway, OnDefinition
<1>. QED
  BY <1>1, <1>2, OthersNameRows DEF RequestsOK, OthersStay

LEMMA TypeInit == Init => TypeOK
BY RegistryAssumption
DEF Init, TypeOK, TablesOK, RequestsOK, NamesRows, At, States, Rows, Absent, NoRequest,
    OnGateway, OnDefinition

LEMMA TypeStep ==
  ASSUME TypeOK, NEW r \in Requests, Step(r)
  PROVE  TypeOK'
<1>. USE DEF TypeOK
\* The actions that leave the tables alone.
<1>a. ASSUME UNCHANGED <<tables, policies>>
      PROVE  TablesOK' /\ RowsStay
  BY <1>a DEF TablesOK, RowsStay, tables, policies
<1>1. ASSUME NEW u \in Users, NEW o \in Organizations, CreateOrganization(r, u, o)
      PROVE  TypeOK'
  <2>1. RowsStay
    BY <1>1 DEF CreateOrganization, InsertOrganization, RowsStay
  <2>2. TablesOK'
    BY <1>1 DEF CreateOrganization, InsertOrganization, TablesOK, policies, States
  <2>3. /\ request' \in [Requests -> {NoRequest} \cup InFlight]
        /\ OthersStay(r)
    BY <1>1 DEF CreateOrganization, InsertOrganization, RequestsOK, InFlight, OthersStay
  <2>4. NamesRows(r)'
    BY <1>1
    DEF CreateOrganization, InsertOrganization, RequestsOK, NamesRows, At, OnGateway, OnDefinition
  <2>5. RequestsOK'
    BY <2>1, <2>3, <2>4, OthersNameRows DEF RequestsOK, OthersStay
  <2>. QED
    BY <1>1, <2>2, <2>5 DEF CreateOrganization, InsertOrganization
<1>2. ASSUME NEW op \in Operations, NEW u \in Users, NEW o \in Organizations,
             NEW g \in Gateways \cup {None}, NEW d \in Definitions \cup {None},
             Begin(r, op, u, o, g, d)
      PROVE  TypeOK'
  <2>1. TablesOK' /\ RowsStay
    BY <1>2, <1>a DEF Begin
  <2>. DEFINE step == IF op \in Creations THEN "organization" ELSE "write"
  <2>2. /\ request' = [request EXCEPT ![r] =
              [op |-> op, user |-> u, org |-> o, gateway |-> g, definition |-> d,
               step |-> step]]
        /\ g # None => gateways[g] # Absent
        /\ d # None => definitions[d] # Absent
        /\ op \in OnGateway => g # None
        /\ op \in OnDefinition => d # None
    BY <1>2, RegistryAssumption DEF Begin
  <2>3. /\ request' \in [Requests -> {NoRequest} \cup InFlight]
        /\ OthersStay(r)
    BY <2>2 DEF RequestsOK, InFlight, OthersStay
  <2>4. NamesRows(r)'
    <3>1. UNCHANGED <<gateways, definitions>>
      BY <1>2 DEF Begin, tables
    <3>2. op # "createOrganization" /\ step # "role"
      BY DEF Operations
    <3>. QED
      BY <2>2, <3>1, <3>2 DEF RequestsOK, NamesRows, At
  <2>5. RequestsOK'
    BY <2>1, <2>3, <2>4, OthersNameRows DEF RequestsOK, OthersStay
  <2>. QED
    BY <1>2, <2>1, <2>5 DEF Begin
<1>3. CASE CutShort(r)
  BY <1>3, <1>a, EndKeeps, EndOK, RegistryAssumption DEF CutShort
<1>b. CASE StoreRole(r)
  <2>1. request[r].user \in Users /\ request[r].org \in Organizations /\ ~Idle(r)
    BY <1>b DEF StoreRole, At, Idle, RequestsOK, NoRequest, InFlight
  <2>2. TablesOK' /\ RowsStay
    BY <1>b, <2>1 DEF StoreRole, AdminRole, TablesOK, RowsStay, Roles, tables
  <2>3. request[r].op = "createOrganization"
    BY <1>b DEF StoreRole, At, RequestsOK, NamesRows
  <2>. QED
    BY <1>b, <2>1, <2>2, <2>3, GotoOK DEF StoreRole
<1>4. CASE AssignRole(r)
  <2>1. request[r].user \in Users /\ request[r].org \in Organizations
    BY <1>4 DEF AssignRole, At, RequestsOK, NoRequest, InFlight
  <2>2. TablesOK' /\ RowsStay
    BY <1>4, <2>1 DEF AssignRole, AdminRole, TablesOK, RowsStay, Roles, tables
  <2>. QED
    BY <1>4, <2>2, EndKeeps, EndOK DEF AssignRole
<1>5. CASE DeleteOrganization(r)
  <2>1. request[r].org \in Organizations
    BY <1>5 DEF DeleteOrganization, At, RequestsOK, NoRequest, InFlight
  <2>2. TablesOK' /\ RowsStay
    BY <1>5, <2>1 DEF DeleteOrganization, TablesOK, policies, RowsStay, States
  <2>. QED
    BY <1>5, <2>1, <2>2, EndKeeps, DeletionKeeps, EndOK DEF DeleteOrganization
<1>6. CASE UpdateOrganization(r) \/ UpdateGateway(r) \/ UpdateDefinition(r)
  BY <1>6, <1>a, EndKeeps, EndOK
  DEF UpdateOrganization, UpdateGateway, UpdateDefinition, Update
<1>7. CASE ValidateOrganization(r) \/ ValidateDefinition(r) \/ ValidateGateway(r)
  <2>1. /\ TablesOK' /\ RowsStay
        /\ UNCHANGED faults
        /\ ~Idle(r) /\ request[r].op # "createOrganization"
    BY <1>7, <1>a
    DEF ValidateOrganization, ValidateDefinition, ValidateGateway, At, Idle,
        RequestsOK, NamesRows
  <2>2. CASE End(r)
    BY <2>1, <2>2, EndKeeps, EndOK
  <2>3. CASE /\ \E step \in {"definition", "gateway", "write"} : Goto(r, step)
             /\ UNCHANGED overtaken
    BY <2>1, <2>3, GotoOK
  <2>. QED
    BY <1>7, <2>2, <2>3 DEF ValidateOrganization, ValidateDefinition, ValidateGateway
<1>8. CASE CreateGateway(r)
  <2>1. request[r].org \in Organizations
    BY <1>8 DEF CreateGateway, At, RequestsOK, NoRequest, InFlight
  <2>2. TablesOK' /\ RowsStay
    BY <1>8, <2>1 DEF CreateGateway, TablesOK, policies, RowsStay, Rows, Absent
  <2>. QED
    BY <1>8, <2>2, EndKeeps, EndOK DEF CreateGateway
<1>9. CASE DeleteGateway(r)
  <2>1. request[r].gateway \in Gateways
    BY <1>9
    DEF DeleteGateway, At, RequestsOK, NamesRows, OnGateway, NoRequest, InFlight
  <2>2. TablesOK' /\ RowsStay
    BY <1>9, <2>1 DEF DeleteGateway, Found, TablesOK, policies, RowsStay, Rows, Absent
  <2>. QED
    BY <1>9, <2>1, <2>2, EndKeeps, DeletionKeeps, EndOK DEF DeleteGateway
<1>10. CASE CreateDefinition(r)
  <2>1. request[r].org \in Organizations
    BY <1>10 DEF CreateDefinition, At, RequestsOK, NoRequest, InFlight
  <2>2. TablesOK' /\ RowsStay
    BY <1>10, <2>1 DEF CreateDefinition, TablesOK, policies, RowsStay, Rows, Absent
  <2>. QED
    BY <1>10, <2>2, EndKeeps, EndOK DEF CreateDefinition
<1>11. CASE DeleteDefinition(r)
  <2>1. request[r].definition \in Definitions
    BY <1>11
    DEF DeleteDefinition, At, RequestsOK, NamesRows, OnDefinition, NoRequest, InFlight
  <2>2. TablesOK' /\ RowsStay
    BY <1>11, <2>1 DEF DeleteDefinition, Found, TablesOK, policies, RowsStay, Rows, Absent
  <2>. QED
    BY <1>11, <2>2, EndKeeps, EndOK DEF DeleteDefinition
<1>12. CASE CreateDevice(r)
  <2>1. /\ request[r].org \in Organizations
        /\ request[r].definition \in Definitions
        /\ request[r].gateway \in Gateways
    BY <1>12
    DEF CreateDevice, At, RequestsOK, NamesRows, OnGateway, OnDefinition, NoRequest,
        InFlight
  <2>2. TablesOK' /\ RowsStay
    BY <1>12, <2>1 DEF CreateDevice, TablesOK, policies, RowsStay
  <2>. QED
    BY <1>12, <2>2, EndKeeps, EndOK DEF CreateDevice
<1>. QED
  BY <1>1, <1>2, <1>3, <1>b, <1>4, <1>5, <1>6, <1>7, <1>8, <1>9, <1>10, <1>11, <1>12
  DEF Step

\* A restart keeps the tables, and takes the stored roles.
LEMMA TypeRestart == TypeOK /\ Restart => TypeOK'
BY RegistryAssumption
DEF Restart, TypeOK, TablesOK, RequestsOK, NamesRows, At, tables, NoRequest, OnGateway,
    OnDefinition

LEMMA TypeNext == TypeOK /\ [Next]_vars => TypeOK'
<1>1. ASSUME TypeOK, UNCHANGED vars
      PROVE  TypeOK'
  BY <1>1
  DEF vars, tables, policies, TypeOK, TablesOK, RequestsOK, NamesRows, At
<1>. QED
  BY <1>1, TypeStep, TypeRestart DEF Next

\* The type invariant: every table, role and request keeps its type, and a
\* request names rows that are or have been in the tables.
THEOREM TypeCorrect == Spec => []TypeOK
BY TypeInit, TypeNext, PTL DEF Spec

(***************************************************************************)
(* What every step leaves as it was: the other requests, the organization a  *)
(* row belongs to, and the roles that were given.                           *)
(***************************************************************************)
RowsKeepOrg ==
  /\ \A g \in Gateways : gateways[g] # Absent => gateways'[g].org = gateways[g].org
  /\ \A d \in Definitions :
       definitions[d] # Absent => definitions'[d].org = definitions[d].org

LEMMA StepKeeps ==
  ASSUME TypeOK, NEW r \in Requests, Step(r)
  PROVE  OthersStay(r) /\ RowsKeepOrg /\ roles \subseteq roles'
<1>1. OthersStay(r)
  <2>1. ASSUME NEW u \in Users, NEW o \in Organizations, CreateOrganization(r, u, o)
        PROVE  OthersStay(r)
    BY <2>1 DEF CreateOrganization, InsertOrganization, OthersStay, TypeOK, RequestsOK
  <2>2. ASSUME NEW op \in Operations, NEW u \in Users, NEW o \in Organizations,
               NEW g \in Gateways \cup {None}, NEW d \in Definitions \cup {None},
               Begin(r, op, u, o, g, d)
        PROVE  OthersStay(r)
    BY <2>2 DEF Begin, OthersStay, TypeOK, RequestsOK
  <2>3. CASE End(r) \/ \E step : Goto(r, step)
    BY <2>3 DEF End, Goto, OthersStay, TypeOK, RequestsOK
  <2>4. CASE \E x : EndByDeleting(r, x)
    BY <2>4 DEF EndByDeleting, OthersStay, TypeOK, RequestsOK
  <2>. QED
    BY <2>1, <2>2, <2>3, <2>4
    DEF Step, CutShort, StoreRole, AssignRole, DeleteOrganization, UpdateOrganization,
        UpdateGateway, UpdateDefinition, Update, ValidateOrganization,
        ValidateDefinition, ValidateGateway, CreateGateway, DeleteGateway,
        CreateDefinition, DeleteDefinition, CreateDevice
<1>2. RowsKeepOrg
  <2>1. CASE UNCHANGED <<gateways, definitions>>
    BY <2>1 DEF RowsKeepOrg
  <2>2. CASE CreateGateway(r)
    BY <2>2 DEF CreateGateway, RowsKeepOrg, TypeOK, TablesOK
  <2>3. CASE DeleteGateway(r)
    BY <2>3 DEF DeleteGateway, RowsKeepOrg, TypeOK, TablesOK, Rows, Absent
  <2>4. CASE CreateDefinition(r)
    BY <2>4 DEF CreateDefinition, RowsKeepOrg, TypeOK, TablesOK
  <2>5. CASE DeleteDefinition(r)
    BY <2>5 DEF DeleteDefinition, RowsKeepOrg, TypeOK, TablesOK, Rows, Absent
  <2>. QED
    BY <2>1, <2>2, <2>3, <2>4, <2>5
    DEF Step, CreateOrganization, InsertOrganization, Begin, CutShort, StoreRole, AssignRole, DeleteOrganization,
        UpdateOrganization,
        UpdateGateway, UpdateDefinition, Update, ValidateOrganization,
        ValidateDefinition, ValidateGateway,
        CreateDevice, tables
<1>3. roles \subseteq roles'
  BY DEF Step, CreateOrganization, InsertOrganization, Begin, CutShort, StoreRole, AssignRole, DeleteOrganization,
         UpdateOrganization,
        UpdateGateway, UpdateDefinition, Update, ValidateOrganization,
        ValidateDefinition, ValidateGateway,
         CreateGateway, DeleteGateway, CreateDefinition, DeleteDefinition,
         CreateDevice, tables, policies
<1>. QED
  BY <1>1, <1>2, <1>3

(***************************************************************************)
(* What becomes of the request that takes the step.                         *)
(***************************************************************************)
LEMMA OwnRequest ==
  ASSUME TypeOK, NEW r \in Requests, Step(r), request'[r].op \in Operations
  PROVE  \/ /\ request'[r].step \in {"organization", "write"}
            /\ request'[r].op \in Creations => request'[r].step = "organization"
            /\ HasRole(request'[r].org)
         \/ /\ \/ /\ ValidateOrganization(r)
                  /\ request'[r].step \in {"definition", "write"}
                  /\ request'[r].op = "createDevice" <=> request'[r].step = "definition"
                  /\ ~IsDeleted(request[r].org)
               \/ /\ ValidateDefinition(r)
                  /\ request'[r].step = "gateway"
                  /\ Found(definitions[request[r].definition], request[r].org)
               \/ /\ ValidateGateway(r)
                  /\ request'[r].step = "write"
                  /\ Found(gateways[request[r].gateway], request[r].org)
            /\ request'[r].op = request[r].op
            /\ request'[r].org = request[r].org
            /\ request'[r].gateway = request[r].gateway
            /\ request'[r].definition = request[r].definition
<1>1. ASSUME NEW u \in Users, NEW o \in Organizations, CreateOrganization(r, u, o)
      PROVE  FALSE
  BY <1>1 DEF CreateOrganization, InsertOrganization, TypeOK, RequestsOK, Operations
<1>2. ASSUME NEW op \in Operations, NEW u \in Users, NEW o \in Organizations,
             NEW g \in Gateways \cup {None}, NEW d \in Definitions \cup {None},
             Begin(r, op, u, o, g, d)
      PROVE  /\ request'[r].step \in {"organization", "write"}
             /\ request'[r].op \in Creations => request'[r].step = "organization"
             /\ HasRole(request'[r].org)
  BY <1>2 DEF Begin, Allowed, HasRole, TypeOK, RequestsOK
<1>3. CASE End(r) \/ \E x : EndByDeleting(r, x)
  BY <1>3 DEF End, EndByDeleting, TypeOK, RequestsOK, NoRequest, Operations
<1>4. CASE ValidateOrganization(r) /\ ~End(r)
  <2>1. ~Idle(r) /\ request[r].org \in Organizations
    BY <1>4 DEF ValidateOrganization, At, Idle, TypeOK, RequestsOK, NoRequest, InFlight
  <2>. QED
    BY <1>4, <2>1, GotoKeeps DEF ValidateOrganization, IsDeleted
<1>5. CASE ValidateDefinition(r) /\ ~End(r)
  BY <1>5, GotoKeeps DEF ValidateDefinition, At, Idle
<1>6. CASE ValidateGateway(r) /\ ~End(r)
  BY <1>6, GotoKeeps DEF ValidateGateway, At, Idle
<1>7. ~StoreRole(r)
  <2>1. ASSUME StoreRole(r)
        PROVE  request'[r].op = "createOrganization"
    BY <2>1, GotoKeeps DEF StoreRole, At, Idle, TypeOK, RequestsOK, NamesRows
  <2>. QED
    BY <2>1 DEF Operations
<1>. QED
  BY <1>1, <1>2, <1>3, <1>4, <1>5, <1>6, <1>7
  DEF Step, CutShort, StoreRole, AssignRole, DeleteOrganization, UpdateOrganization,
        UpdateGateway, UpdateDefinition, Update, CreateGateway,
      DeleteGateway, CreateDefinition, DeleteDefinition, CreateDevice

(***************************************************************************)
(* The inductive invariant, part by part.                                   *)
(***************************************************************************)
LEMMA RequestFields ==
  ASSUME TypeOK, NEW r \in Requests, request[r].op \in Operations
  PROVE  /\ request[r].org \in Organizations
         /\ request[r].op \in OnGateway =>
              /\ request[r].gateway \in Gateways
              /\ gateways[request[r].gateway] # Absent
         /\ request[r].op \in OnDefinition =>
              /\ request[r].definition \in Definitions
              /\ definitions[request[r].definition] # Absent
BY DEF TypeOK, RequestsOK, NamesRows, NoRequest, InFlight, Operations

LEMMA RolesStep ==
  ASSUME TypeOK, RolesInv, NEW r \in Requests, Step(r)
  PROVE  RolesInv'
<1>1. \A o : HasRole(o) => HasRole(o)'
  BY StepKeeps DEF HasRole
<1>2. ASSUME NEW q \in Requests \ {r}, request'[q].op \in Operations
      PROVE  HasRole(request[q].org)'
  <2>1. request'[q] = request[q]
    BY StepKeeps DEF OthersStay
  <2>2. HasRole(request[q].org)
    BY <1>2, <2>1 DEF RolesInv
  <2>. QED
    BY <2>1, <2>2, StepKeeps DEF HasRole
<1>3. ASSUME request'[r].op \in Operations
      PROVE  HasRole(request[r].org)'
  <2>1. HasRole(request'[r].org)
    BY <1>3, OwnRequest DEF RolesInv
  <2>. QED
    BY <2>1, StepKeeps DEF HasRole
<1>. QED
  BY <1>2, <1>3 DEF RolesInv

LEMMA StoredStep ==
  ASSUME TypeOK, StoredInv, NEW r \in Requests, Step(r)
  PROVE  StoredInv'
<1>1. stored \subseteq stored' /\ roles' \subseteq stored'
  BY DEF StoredInv, Step, CreateOrganization, InsertOrganization, Begin, CutShort, StoreRole, AssignRole,
         DeleteOrganization, UpdateOrganization, UpdateGateway, UpdateDefinition, Update,
         ValidateOrganization, ValidateDefinition, ValidateGateway, CreateGateway,
         DeleteGateway, CreateDefinition, DeleteDefinition, CreateDevice, policies
<1>2. ASSUME NEW q \in Requests \ {r}, At(q, "role")'
      PROVE  AdminRole(q)' \in stored'
  <2>1. request'[q] = request[q]
    BY StepKeeps DEF OthersStay
  <2>. QED
    BY <1>1, <1>2, <2>1 DEF StoredInv, At, AdminRole
<1>3. ASSUME At(r, "role")'
      PROVE  AdminRole(r)' \in stored'
  <2>1. CASE StoreRole(r)
    BY <2>1, GotoKeeps DEF StoreRole, At, Idle, AdminRole
  <2>2. CASE ~StoreRole(r)
    <3>. SUFFICES request'[r].step # "role"
      BY <1>3 DEF At
    <3>1. ASSUME NEW u \in Users, NEW o \in Organizations, CreateOrganization(r, u, o)
          PROVE  request'[r].step # "role"
      BY <3>1 DEF CreateOrganization, InsertOrganization, TypeOK, RequestsOK
    <3>2. ASSUME NEW op \in Operations, NEW u \in Users, NEW o \in Organizations,
                 NEW g \in Gateways \cup {None}, NEW d \in Definitions \cup {None},
                 Begin(r, op, u, o, g, d)
          PROVE  request'[r].step # "role"
      BY <3>2 DEF Begin, TypeOK, RequestsOK
    <3>3. CASE End(r) \/ \E x : EndByDeleting(r, x)
      BY <3>3 DEF End, EndByDeleting, TypeOK, RequestsOK, NoRequest
    <3>4. CASE /\ ~Idle(r)
               /\ \E step \in {"definition", "gateway", "write"} : Goto(r, step)
      BY <3>4, GotoKeeps
    <3>. QED
      BY <2>2, <3>1, <3>2, <3>3, <3>4
      DEF Step, CutShort, AssignRole, DeleteOrganization, UpdateOrganization,
          UpdateGateway, UpdateDefinition, Update, ValidateOrganization,
          ValidateDefinition, ValidateGateway, CreateGateway, DeleteGateway,
          CreateDefinition, DeleteDefinition, CreateDevice, At, Idle
  <2>. QED
    BY <2>1, <2>2
<1>. QED
  BY <1>1, <1>2, <1>3 DEF StoredInv

\* The request of a creator that is not new names what it has named before.
CreatorGoesOn(r, q) ==
  /\ request[q].op = "createOrganization"
  /\ request'[q].user = request[q].user
  /\ request'[q].org = request[q].org

LEMMA CreatorRequest ==
  ASSUME TypeOK, NEW r \in Requests, Step(r),
         NEW q \in Requests, request'[q].op = "createOrganization"
  PROVE  \/ CreatorGoesOn(r, q)
         \/ q = r /\ \E u \in Users, o \in Organizations : CreateOrganization(r, u, o)
<1>1. CASE q # r
  BY <1>1, StepKeeps DEF OthersStay, CreatorGoesOn
<1>2. CASE q = r
  <2>1. ASSUME NEW op \in Operations, NEW u \in Users, NEW o \in Organizations,
               NEW g \in Gateways \cup {None}, NEW d \in Definitions \cup {None},
               Begin(r, op, u, o, g, d)
        PROVE  FALSE
    BY <1>2, <2>1 DEF Begin, TypeOK, RequestsOK, Operations
  <2>2. CASE End(r) \/ \E x : EndByDeleting(r, x)
    BY <1>2, <2>2 DEF End, EndByDeleting, TypeOK, RequestsOK, NoRequest
  <2>3. CASE ~Idle(r) /\ \E step \in {"definition", "gateway", "write", "role"} : Goto(r, step)
    BY <1>2, <2>3, GotoKeeps DEF CreatorGoesOn
  <2>. QED
    BY <1>2, <2>1, <2>2, <2>3
    DEF Step, CutShort, StoreRole, AssignRole, DeleteOrganization, UpdateOrganization,
        UpdateGateway, UpdateDefinition, Update, ValidateOrganization,
        ValidateDefinition, ValidateGateway, CreateGateway, DeleteGateway,
        CreateDefinition, DeleteDefinition, CreateDevice, At, Idle
<1>. QED
  BY <1>1, <1>2

\* Members are added, and roles given to members only: AssignRole and StoreRole work
\* for the request of a creator.
LEMMA MembersStep ==
  ASSUME TypeOK, MembersInv, NEW r \in Requests, Step(r)
  PROVE  MembersInv'
<1>1. memberships \subseteq memberships'
  BY DEF Step, CreateOrganization, InsertOrganization, Begin, CutShort, StoreRole, AssignRole,
         DeleteOrganization, UpdateOrganization, UpdateGateway, UpdateDefinition, Update,
         ValidateOrganization, ValidateDefinition, ValidateGateway, CreateGateway,
         DeleteGateway, CreateDefinition, DeleteDefinition, CreateDevice, tables
<1>2. ASSUME NEW u \in Users, NEW role \in Roles, NEW o \in Organizations,
             <<u, role, o>> \in stored'
      PROVE  <<u, o>> \in memberships'
  <2>1. CASE <<u, role, o>> \in stored
    BY <1>1, <2>1 DEF MembersInv
  <2>2. CASE StoreRole(r) /\ <<u, role, o>> = AdminRole(r)
    <3>1. request[r].op = "createOrganization"
      BY <2>2 DEF StoreRole, At, TypeOK, RequestsOK, NamesRows
    <3>. QED
      BY <1>1, <2>2, <3>1 DEF MembersInv, AdminRole
  <2>. QED
    BY <1>2, <2>1, <2>2
    DEF Step, CreateOrganization, InsertOrganization, Begin, CutShort, StoreRole, AssignRole,
        DeleteOrganization, UpdateOrganization, UpdateGateway, UpdateDefinition, Update,
        ValidateOrganization, ValidateDefinition, ValidateGateway, CreateGateway,
        DeleteGateway, CreateDefinition, DeleteDefinition, CreateDevice, policies
<1>3. ASSUME NEW q \in Requests, request'[q].op = "createOrganization"
      PROVE  <<request'[q].user, request'[q].org>> \in memberships'
  <2>1. CASE CreatorGoesOn(r, q)
    BY <1>1, <1>3, <2>1 DEF CreatorGoesOn, MembersInv
  <2>2. ASSUME NEW u \in Users, NEW o \in Organizations, CreateOrganization(r, u, o), q = r
        PROVE  <<request'[q].user, request'[q].org>> \in memberships'
    BY <2>2 DEF CreateOrganization, InsertOrganization, TypeOK, RequestsOK
  <2>. QED
    BY <1>3, <2>1, <2>2, CreatorRequest
<1>. QED
  BY <1>2, <1>3 DEF MembersInv

\* A membership is new only in CreateOrganization, whose request is still there until
\* AssignRole ends it.
LEMMA CreatorStep ==
  ASSUME TypeOK, CreatorInv, NEW r \in Requests, Step(r)
  PROVE  CreatorInv'
<1>. SUFFICES ASSUME faults' = 0, NEW u \in Users, NEW o \in Organizations,
                     <<u, o>> \in memberships'
              PROVE  <<u, "admin", o>> \in roles' \/ o \in BeingCreated(u)'
  BY DEF CreatorInv
<1>1. UNCHANGED faults /\ ~CutShort(r)
  BY DEF TypeOK, Step, CreateOrganization, Begin, CutShort, StoreRole, AssignRole,
         DeleteOrganization, UpdateOrganization, UpdateGateway, UpdateDefinition, Update,
         ValidateOrganization, ValidateDefinition, ValidateGateway, CreateGateway,
         DeleteGateway, CreateDefinition, DeleteDefinition, CreateDevice
<1>2. CASE <<u, o>> \notin memberships
  <2>1. /\ CreateOrganization(r, u, o)
    BY <1>2
    DEF Step, CreateOrganization, InsertOrganization, Begin, CutShort, StoreRole, AssignRole,
        DeleteOrganization, UpdateOrganization, UpdateGateway, UpdateDefinition, Update,
        ValidateOrganization, ValidateDefinition, ValidateGateway, CreateGateway,
        DeleteGateway, CreateDefinition, DeleteDefinition, CreateDevice, tables
  <2>. QED
    BY <2>1 DEF CreateOrganization, BeingCreated, TypeOK, RequestsOK
<1>3. CASE <<u, "admin", o>> \in roles
  BY <1>3, StepKeeps
<1>4. ASSUME NEW q \in Requests, request[q].op = "createOrganization",
             request[q].user = u, request[q].org = o
      PROVE  <<u, "admin", o>> \in roles' \/ o \in BeingCreated(u)'
  <2>1. CASE q # r
    BY <1>4, <2>1, StepKeeps DEF OthersStay, BeingCreated
  <2>2. CASE q = r /\ StoreRole(r)
    BY <1>4, <2>2, GotoKeeps DEF StoreRole, At, Idle, BeingCreated
  <2>3. CASE q = r /\ AssignRole(r)
    BY <1>4, <2>3 DEF AssignRole, AdminRole
  <2>4. request[r].op = "createOrganization" => request[r].step \in {"store", "role"}
    BY DEF TypeOK, RequestsOK, NamesRows
  <2>. QED
    BY <1>1, <1>4, <2>1, <2>2, <2>3, <2>4
    DEF Step, CreateOrganization, Begin, DeleteOrganization, UpdateOrganization,
        UpdateGateway, UpdateDefinition, Update, ValidateOrganization,
        ValidateDefinition, ValidateGateway, CreateGateway, DeleteGateway,
        CreateDefinition, DeleteDefinition, CreateDevice, At, Idle
<1>. QED
  BY <1>1, <1>2, <1>3, <1>4 DEF CreatorInv, BeingCreated

LEMMA CheckedStep ==
  ASSUME TypeOK, CheckedInv, NEW r \in Requests, Step(r)
  PROVE  CheckedInv'
<1>. DEFINE Holds(q) ==
       /\ request[q].step \in {"gateway", "write"} =>
            definitions[request[q].definition].org = request[q].org
       /\ At(q, "write") => gateways[request[q].gateway].org = request[q].org
\* The rows that a request names belong to the organization they belonged to.
<1>1. ASSUME NEW q \in Requests, request[q].op = "createDevice"
      PROVE  /\ definitions'[request[q].definition].org
                  = definitions[request[q].definition].org
             /\ gateways'[request[q].gateway].org = gateways[request[q].gateway].org
  <2>1. request[q].op \in Operations \cap OnGateway \cap OnDefinition
    BY <1>1 DEF Operations, OnGateway, OnDefinition
  <2>. QED
    BY <2>1, RequestFields, StepKeeps DEF RowsKeepOrg
<1>2. ASSUME NEW q \in Requests \ {r}, request'[q].op = "createDevice"
      PROVE  Holds(q)'
  <2>1. request'[q] = request[q]
    BY StepKeeps DEF OthersStay
  <2>2. Holds(q)
    BY <1>2, <2>1 DEF CheckedInv
  <2>. QED
    BY <1>1, <1>2, <2>1, <2>2 DEF At
<1>3. ASSUME request'[r].op = "createDevice"
      PROVE  Holds(r)'
  <2>1. "createDevice" \in Operations \cap Creations
    BY DEF Operations, Creations
  <2>2. CASE request'[r].step \in {"organization", "definition"}
    BY <2>2 DEF At
  <2>3. CASE request'[r].step = "gateway" /\ ValidateDefinition(r)
    <3>1. /\ request[r].op = "createDevice"
          /\ request'[r].org = request[r].org
          /\ request'[r].definition = request[r].definition
          /\ definitions[request[r].definition].org = request[r].org
      BY <1>3, <2>1, <2>3, OwnRequest
      DEF Found, ValidateDefinition, ValidateOrganization, ValidateGateway, At
    <3>. QED
      BY <1>1, <2>3, <3>1 DEF At
  <2>4. CASE request'[r].step = "write" /\ ValidateGateway(r)
    <3>1. /\ request[r].op = "createDevice"
          /\ request[r].step = "gateway"
          /\ request'[r].org = request[r].org
          /\ request'[r].definition = request[r].definition
          /\ request'[r].gateway = request[r].gateway
          /\ gateways[request[r].gateway].org = request[r].org
      BY <1>3, <2>1, <2>4, OwnRequest
      DEF Found, ValidateDefinition, ValidateOrganization, ValidateGateway, At
    <3>2. definitions[request[r].definition].org = request[r].org
      BY <3>1 DEF CheckedInv
    <3>. QED
      BY <1>1, <2>4, <3>1, <3>2 DEF At
  <2>. QED
    BY <1>3, <2>1, <2>2, <2>3, <2>4, OwnRequest
<1>. QED
  BY <1>2, <1>3 DEF CheckedInv, At

\* Whoever deletes a row overtakes all others; nobody else's history is touched.
LEMMA Overtakes ==
  ASSUME TypeOK, NEW r \in Requests, Step(r), NEW q \in Requests \ {r}, ~Idle(q),
         NEW x \in Organizations \cup Gateways, IsDeleted(x)',
         IsDeleted(x) => q \in overtaken[x]
  PROVE  q \in overtaken'[x]
<1>1. CASE /\ UNCHANGED <<organizations, gateways>>
           /\ UNCHANGED overtaken \/ End(r)
  BY <1>1, EndKeeps DEF IsDeleted
<1>2. ASSUME NEW u \in Users, NEW o \in Organizations, CreateOrganization(r, u, o)
      PROVE  q \in overtaken'[x]
  BY <1>2 DEF CreateOrganization, InsertOrganization, IsDeleted, TypeOK, TablesOK
<1>3. CASE DeleteOrganization(r)
  <2>1. request[r].org \in Organizations
    BY <1>3
    DEF DeleteOrganization, At, TypeOK, RequestsOK, NoRequest, InFlight
  <2>2. CASE EndByDeleting(r, request[r].org)
    <3>1. /\ organizations' = [organizations EXCEPT ![request[r].org] = "deleted"]
             \/ UNCHANGED organizations
          /\ UNCHANGED gateways
      BY <1>3 DEF DeleteOrganization
    <3>2. CASE x = request[r].org
      BY <2>1, <2>2, <3>2, DeletionKeeps
    <3>3. CASE x # request[r].org
      <4>1. IsDeleted(x)
        BY <2>1, <3>1, <3>3 DEF IsDeleted, TypeOK, TablesOK
      <4>. QED
        BY <2>1, <2>2, <3>3, <4>1, DeletionKeeps
    <3>. QED
      BY <3>2, <3>3
  <2>3. CASE End(r) /\ UNCHANGED organizations
    BY <1>1, <1>3, <2>3 DEF DeleteOrganization
  <2>. QED
    BY <1>3, <2>2, <2>3 DEF DeleteOrganization
<1>4. CASE CreateGateway(r)
  <2>1. IsDeleted(x)
    BY <1>4 DEF CreateGateway, IsDeleted, TypeOK, TablesOK
  <2>. QED
    BY <1>4, <2>1, EndKeeps DEF CreateGateway
<1>5. CASE DeleteGateway(r)
  <2>1. request[r].gateway \in Gateways
    BY <1>5
    DEF DeleteGateway, At, TypeOK, RequestsOK, NamesRows, OnGateway, NoRequest, InFlight
  <2>2. CASE EndByDeleting(r, request[r].gateway)
    <3>1. CASE x = request[r].gateway
      BY <2>1, <2>2, <3>1, DeletionKeeps
    <3>2. CASE x # request[r].gateway
      <4>1. IsDeleted(x)
        BY <1>5, <2>1, <3>2 DEF DeleteGateway, IsDeleted, TypeOK, TablesOK
      <4>. QED
        BY <2>1, <2>2, <3>2, <4>1, DeletionKeeps
    <3>. QED
      BY <3>1, <3>2
  <2>3. CASE End(r) /\ UNCHANGED gateways
    BY <1>1, <1>5, <2>3 DEF DeleteGateway
  <2>. QED
    BY <1>5, <2>2, <2>3 DEF DeleteGateway
<1>. QED
  BY <1>1, <1>2, <1>3, <1>4, <1>5
  DEF Step, Begin, CutShort, StoreRole, AssignRole, UpdateOrganization,
        UpdateGateway, UpdateDefinition, Update, ValidateOrganization,
      ValidateDefinition, ValidateGateway, CreateDefinition, DeleteDefinition,
      CreateDevice, tables

LEMMA OvertakenStep ==
  ASSUME TypeOK, OvertakenInv, NEW r \in Requests, Step(r)
  PROVE  OvertakenInv'
<1>. SUFFICES ASSUME NEW q \in Requests, NEW x \in Organizations \cup Gateways,
                     HasPassed(q, x)', IsDeleted(x)'
              PROVE  q \in overtaken'[x]
  BY DEF OvertakenInv
<1>1. request'[q].op \in Creations \cap Operations
  BY DEF HasPassed, Creations, Operations
<1>2. CASE q # r
  <2>1. request'[q] = request[q]
    BY <1>2, StepKeeps DEF OthersStay
  <2>2. HasPassed(q, x)
    BY <2>1 DEF HasPassed, At
  <2>3. ~Idle(q)
    BY <2>2
    DEF HasPassed, Creations, Idle, TypeOK, RequestsOK, NoRequest, InFlight
  <2>. QED
    BY <1>2, <2>2, <2>3, Overtakes DEF OvertakenInv
<1>3. CASE q = r
  <2>1. request'[r].step # "organization"
    BY <1>3 DEF HasPassed, At
  <2>2. /\ request'[r].op = request[r].op
        /\ request'[r].org = request[r].org
        /\ request'[r].gateway = request[r].gateway
        /\ request'[r].step # "idle"
        /\ \/ /\ ValidateOrganization(r)
              /\ request'[r].op = "createDevice" => request'[r].step = "definition"
              /\ ~IsDeleted(request[r].org)
           \/ ValidateDefinition(r) /\ request'[r].step = "gateway"
           \/ ValidateGateway(r) /\ Found(gateways[request[r].gateway], request[r].org)
    <3>1. request'[r].op \in Operations /\ request'[r].op \in Creations
      BY <1>1, <1>3
    <3>. QED
      BY <2>1, <3>1, OwnRequest
  <2>3. ~End(r)
    BY <2>2, EndKeeps DEF NoRequest
  <2>4. UNCHANGED <<organizations, gateways, overtaken>>
    BY <2>2, <2>3 DEF ValidateOrganization, ValidateDefinition, ValidateGateway, tables
  <2>5. IsDeleted(x)
    BY <2>4 DEF IsDeleted
  <2>6. x # request[r].org => request[r].op = "createDevice" /\ At(r, "write")'
    BY <1>3, <2>2 DEF HasPassed
  <2>7. CASE ValidateOrganization(r)
    BY <2>2, <2>5, <2>6, <2>7
    DEF At, ValidateOrganization, ValidateDefinition, ValidateGateway
  <2>8. CASE ValidateDefinition(r) \/ ValidateGateway(r)
    <3>1. CASE x = request[r].org
      BY <1>1, <1>3, <2>2, <2>4, <2>5, <2>8, <3>1
      DEF OvertakenInv, HasPassed, At, ValidateDefinition, ValidateGateway
    <3>2. CASE x # request[r].org
      <4>1. x = request[r].gateway
        BY <1>3, <2>2, <3>2 DEF HasPassed
      <4>2. request[r].gateway \in Gateways
        BY <2>6, <3>2, RequestFields DEF OnGateway, Operations
      <4>3. ValidateGateway(r) /\ Found(gateways[x], request[r].org)
        BY <2>2, <2>6, <3>2, <2>8, <4>1
        DEF At, ValidateOrganization, ValidateDefinition, ValidateGateway
      <4>. QED
        BY <2>5, <4>1, <4>2, <4>3, RegistryAssumption DEF IsDeleted, Found
    <3>. QED
      BY <3>1, <3>2
  <2>. QED
    BY <2>2, <2>7, <2>8
<1>. QED
  BY <1>2, <1>3

LEMMA SameOrganizationStep ==
  ASSUME TypeOK, SameOrganization, CheckedInv, NEW r \in Requests, Step(r)
  PROVE  SameOrganization'
<1>1. CASE UNCHANGED <<gateways, definitions, devices>>
  BY <1>1 DEF SameOrganization, Found
<1>2. CASE CreateGateway(r) \/ DeleteGateway(r)
  <2>1. UNCHANGED <<definitions, devices>>
    BY <1>2 DEF CreateGateway, DeleteGateway
  <2>2. ASSUME NEW e \in Devices, devices[e] # None
        PROVE  gateways'[devices[e].gateway].org = devices[e].org
    <3>1. devices[e].gateway \in Gateways /\ devices[e].org \in Organizations
      BY <2>2 DEF TypeOK, TablesOK
    <3>2. gateways[devices[e].gateway].org = devices[e].org
      BY <2>2 DEF SameOrganization
    <3>3. gateways[devices[e].gateway] # Absent
      BY <3>1, <3>2, RegistryAssumption DEF Absent
    <3>. QED
      BY <3>1, <3>2, <3>3, StepKeeps DEF RowsKeepOrg
  <2>. QED
    BY <2>1, <2>2 DEF SameOrganization, Found
<1>3. CASE CreateDefinition(r)
  BY <1>3 DEF CreateDefinition, SameOrganization, Found, TypeOK, TablesOK, Absent
<1>4. CASE DeleteDefinition(r)
  <2>1. \A e \in Devices : devices[e] # None /\ definitions' # definitions =>
          devices[e].definition # request[r].definition
    BY <1>4 DEF DeleteDefinition, InUse
  <2>. QED
    BY <1>4, <2>1 DEF DeleteDefinition, SameOrganization, Found, TypeOK, TablesOK
<1>5. CASE CreateDevice(r)
  <2>1. /\ request[r].org \in Organizations
        /\ Found(definitions[request[r].definition], request[r].org)
             \/ UNCHANGED devices
        /\ gateways[request[r].gateway].org = request[r].org
    BY <1>5, RequestFields DEF CreateDevice, CheckedInv, Found, Operations, At
  <2>. QED
    BY <1>5, <2>1 DEF CreateDevice, SameOrganization, Found, TypeOK, TablesOK
<1>. QED
  BY <1>1, <1>2, <1>3, <1>4, <1>5
  DEF Step, CreateOrganization, InsertOrganization, Begin, CutShort, StoreRole, AssignRole, DeleteOrganization,
      UpdateOrganization,
        UpdateGateway, UpdateDefinition, Update, ValidateOrganization,
        ValidateDefinition, ValidateGateway, tables

\* A row is added, or an organization deleted, only by a request on an
\* organization where someone has a role.
LEMMA OrphanStep ==
  ASSUME TypeOK, OrphanIsInert, RolesInv, NEW r \in Requests, Step(r)
  PROVE  OrphanIsInert'
<1>. SUFFICES ASSUME NEW o \in Organizations, ~HasRole(o)'
              PROVE  organizations'[o] # "deleted" /\ RowsUnder(o)' = {}
  BY DEF OrphanIsInert
<1>1. ~HasRole(o)
  BY StepKeeps DEF HasRole
<1>2. organizations[o] # "deleted" /\ RowsUnder(o) = {}
  BY <1>1 DEF OrphanIsInert
<1>3. request[r].op \in Operations => request[r].org # o
  BY <1>1 DEF RolesInv
<1>4. CASE UNCHANGED <<organizations, gateways, definitions, devices>>
  BY <1>2, <1>4 DEF RowsUnder
<1>5. ASSUME NEW u \in Users, NEW p \in Organizations, CreateOrganization(r, u, p)
      PROVE  organizations'[o] # "deleted" /\ RowsUnder(o)' = {}
  <2>1. UNCHANGED <<gateways, definitions, devices>>
    BY <1>5 DEF CreateOrganization, InsertOrganization
  <2>2. organizations'[o] # "deleted"
    BY <1>2, <1>5 DEF CreateOrganization, InsertOrganization, TypeOK, TablesOK
  <2>. QED
    BY <1>2, <2>1, <2>2 DEF RowsUnder
<1>6. CASE DeleteOrganization(r)
  <2>1. UNCHANGED <<gateways, definitions, devices>>
    BY <1>6 DEF DeleteOrganization
  <2>2. request[r].org # o
    BY <1>3, <1>6 DEF DeleteOrganization, Operations
  <2>3. organizations'[o] = organizations[o]
    BY <1>6, <2>2 DEF DeleteOrganization, TypeOK, TablesOK
  <2>. QED
    BY <1>2, <2>1, <2>3 DEF RowsUnder
<1>7. CASE CreateGateway(r)
  <2>1. request[r].org # o
    BY <1>3, <1>7 DEF CreateGateway, Operations
  <2>. QED
    BY <1>2, <1>7, <2>1 DEF CreateGateway, RowsUnder, TypeOK, TablesOK
<1>8. CASE DeleteGateway(r)
  BY <1>2, <1>8 DEF DeleteGateway, RowsUnder, TypeOK, TablesOK, Rows, Absent
<1>9. CASE CreateDefinition(r)
  <2>1. request[r].org # o
    BY <1>3, <1>9 DEF CreateDefinition, Operations
  <2>. QED
    BY <1>2, <1>9, <2>1 DEF CreateDefinition, RowsUnder, TypeOK, TablesOK
<1>10. CASE DeleteDefinition(r)
  BY <1>2, <1>10 DEF DeleteDefinition, RowsUnder, TypeOK, TablesOK, Rows, Absent
<1>11. CASE CreateDevice(r)
  <2>1. request[r].org # o /\ request[r].gateway \in Gateways
    BY <1>3, <1>11, RequestFields DEF CreateDevice, Operations, OnGateway
  <2>2. request[r].gateway # o
    BY <2>1, RegistryAssumption
  <2>. QED
    BY <1>2, <1>11, <2>1, <2>2 DEF CreateDevice, RowsUnder, TypeOK, TablesOK
<1>. QED
  BY <1>4, <1>5, <1>6, <1>7, <1>8, <1>9, <1>10, <1>11
  DEF Step, Begin, CutShort, StoreRole, AssignRole, UpdateOrganization,
        UpdateGateway, UpdateDefinition, Update, ValidateOrganization,
      ValidateDefinition, ValidateGateway, tables

(***************************************************************************)
(* The theorems.                                                            *)
(***************************************************************************)
LEMMA InitIInv == Init => IInv
<1> SUFFICES ASSUME Init
             PROVE  IInv
  OBVIOUS
<1>1. SameOrganization
  BY DEF Init, SameOrganization
<1>2. OrphanIsInert
  BY RegistryAssumption DEF Init, OrphanIsInert, RowsUnder, Absent
<1>3. CheckedInv /\ OvertakenInv /\ StoredInv /\ RolesInv
  BY DEF Init, CheckedInv, OvertakenInv, HasPassed, StoredInv, RolesInv, At, NoRequest, Creations,
         Operations
<1>4. MembersInv /\ CreatorInv
  BY DEF Init, MembersInv, CreatorInv, NoRequest
<1>. QED
  BY <1>1, <1>2, <1>3, <1>4, TypeInit DEF IInv

\* A restart ends all requests, and gives back at least the roles there were.
LEMMA RestartIInv == IInv /\ Restart => IInv'
<1> SUFFICES ASSUME IInv, Restart
             PROVE  IInv'
  OBVIOUS
<1>. USE DEF IInv
<1>1. /\ UNCHANGED tables
      /\ roles \subseteq roles' /\ StoredInv'
      /\ \A r \in Requests : request'[r] = NoRequest
  BY DEF Restart, StoredInv, At, NoRequest
<1>2. SameOrganization'
  BY <1>1 DEF SameOrganization, Found, tables
<1>3. OrphanIsInert'
  BY <1>1 DEF OrphanIsInert, HasRole, RowsUnder, tables
<1>4. CheckedInv' /\ OvertakenInv' /\ RolesInv'
  BY <1>1
  DEF CheckedInv, OvertakenInv, HasPassed, RolesInv, NoRequest, Creations, Operations
<1>5. MembersInv' /\ CreatorInv'
  BY <1>1 DEF Restart, tables, TypeOK, MembersInv, CreatorInv, NoRequest
<1>. QED
  BY <1>1, <1>2, <1>3, <1>4, <1>5, TypeRestart

LEMMA NextIInv == IInv /\ [Next]_vars => IInv'
<1> SUFFICES ASSUME IInv, [Next]_vars
             PROVE  IInv'
  OBVIOUS
<1>1. ASSUME NEW r \in Requests, Step(r)
      PROVE  IInv'
  BY <1>1, TypeStep, SameOrganizationStep, OrphanStep, CheckedStep, OvertakenStep,
     StoredStep, RolesStep, MembersStep, CreatorStep
  DEF IInv
<1>2. CASE UNCHANGED vars
  <2>. USE <1>2 DEF IInv, vars, tables, policies
  <2>1. TypeOK' /\ SameOrganization'
    BY TypeNext DEF SameOrganization, Found
  <2>2. OrphanIsInert'
    BY DEF OrphanIsInert, HasRole, RowsUnder
  <2>3. CheckedInv' /\ OvertakenInv' /\ StoredInv' /\ RolesInv'
    BY DEF CheckedInv, OvertakenInv, HasPassed, IsDeleted, StoredInv, AdminRole, RolesInv,
           HasRole, At
  <2>4. MembersInv' /\ CreatorInv'
    BY DEF MembersInv, CreatorInv, BeingCreated
  <2>. QED
    BY <2>1, <2>2, <2>3, <2>4
<1>. QED
  BY <1>1, <1>2, RestartIInv DEF Next

\* However requests interleave, fail or are cut short, IInv holds.
THEOREM Invariance == Spec => []IInv
BY InitIInv, NextIInv, PTL DEF Spec

\* A device, its definition and its gateway always belong to one organization, for
\* any number of concurrent requests.
THEOREM DevicesStayTogether == Spec => []SameOrganization
<1>1. IInv => SameOrganization
  BY DEF IInv
<1>. QED
  BY Invariance, <1>1, PTL

\* An organization that nobody has a role in is neither used nor deleted.
THEOREM OrphansAreInert == Spec => []OrphanIsInert
<1>1. IInv => OrphanIsInert
  BY DEF IInv
<1>. QED
  BY Invariance, <1>1, PTL

\* Only requests that were in flight when an organization or a gateway was deleted
\* may still create something under it.
THEOREM DeletedStaysClosed == Spec => DeletedIsClosed
<1>1. ASSUME IInv, [Next]_vars, NEW x \in Organizations \cup Gateways,
             IsDeleted(x), overtaken[x] = {}
      PROVE  RowsUnder(x)' \subseteq RowsUnder(x)
  <2>. USE DEF IInv
  <2>1. ASSUME NEW r \in Requests
        PROVE  ~HasPassed(r, x)
    BY <1>1, <2>1 DEF OvertakenInv
  <2>2. CASE UNCHANGED <<gateways, definitions, devices>>
    BY <2>2 DEF RowsUnder
  <2>3. ASSUME NEW r \in Requests, CreateGateway(r)
        PROVE  RowsUnder(x)' \subseteq RowsUnder(x)
    <3>1. request[r].org # x
      BY <2>1, <2>3 DEF CreateGateway, HasPassed, At, Creations
    <3>. QED
      BY <1>1, <2>3, <3>1 DEF CreateGateway, RowsUnder, TypeOK, TablesOK
  <2>4. ASSUME NEW r \in Requests, CreateDefinition(r)
        PROVE  RowsUnder(x)' \subseteq RowsUnder(x)
    <3>1. request[r].org # x
      BY <2>1, <2>4 DEF CreateDefinition, HasPassed, At, Creations
    <3>. QED
      BY <1>1, <2>4, <3>1 DEF CreateDefinition, RowsUnder, TypeOK, TablesOK
  <2>5. ASSUME NEW r \in Requests, CreateDevice(r)
        PROVE  RowsUnder(x)' \subseteq RowsUnder(x)
    <3>1. request[r].org # x /\ request[r].gateway # x
      BY <2>1, <2>5 DEF CreateDevice, HasPassed, At, Creations
    <3>. QED
      BY <1>1, <2>5, <3>1 DEF CreateDevice, RowsUnder, TypeOK, TablesOK
  <2>6. ASSUME NEW r \in Requests, DeleteGateway(r) \/ DeleteDefinition(r)
        PROVE  RowsUnder(x)' \subseteq RowsUnder(x)
    BY <1>1, <2>6
    DEF DeleteGateway, DeleteDefinition, RowsUnder, TypeOK, TablesOK, Rows, Absent
  <2>. QED
    BY <1>1, <2>2, <2>3, <2>4, <2>5, <2>6
    DEF Next, Step, CreateOrganization, InsertOrganization, Begin, CutShort, StoreRole, AssignRole,
        DeleteOrganization, UpdateOrganization,
        UpdateGateway, UpdateDefinition, Update, ValidateOrganization, ValidateDefinition,
        ValidateGateway, Restart, tables, vars
<1>2. IInv /\ [Next]_vars =>
        [\A x \in Organizations \cup Gateways :
           IsDeleted(x) /\ overtaken[x] = {} => RowsUnder(x)' \subseteq RowsUnder(x)]_vars
  BY <1>1
<1>. QED
  BY Invariance, <1>2, PTL DEF Spec, DeletedIsClosed

\* No step takes a role away, a restart least of all: a role is in the table of the
\* adapter before the enforcer acts on it.
THEOREM RolesAreKept == Spec => RolesStay
<1>1. ASSUME IInv, [Next]_vars
      PROVE  [roles \subseteq roles']_vars
  <2>1. CASE Restart
    BY <1>1, <2>1 DEF Restart, IInv, StoredInv
  <2>2. ASSUME NEW r \in Requests, Step(r)
        PROVE  roles \subseteq roles'
    BY <1>1, <2>2, StepKeeps DEF IInv
  <2>. QED
    BY <1>1, <2>1, <2>2 DEF Next
<1>. QED
  BY Invariance, <1>1, PTL DEF Spec, RolesStay

(***************************************************************************)
(* Roles and memberships.                                                   *)
(***************************************************************************)

\* Every role is that of a member.
LEMMA RolesAreOfMembers ==
  ASSUME IInv, NEW u \in Users, NEW o \in Organizations, NEW need, Allowed(u, o, need)
  PROVE  <<u, o>> \in memberships
BY DEF IInv, StoredInv, MembersInv, Allowed

\* An admin may do whatever a request asks for.
LEMMA AdminMayAll ==
  ASSUME NEW u, NEW o, <<u, "admin", o>> \in roles, NEW op \in Operations
  PROVE  Allowed(u, o, Needs[op])
<1>1. Needs[op] \in Policies["admin"]
  BY DEF Needs, Policies, AllOf, Operations
<1>. QED
  BY <1>1 DEF Allowed, Roles

\* The list of a user's organizations and the enforcer agree, for any number of
\* concurrent creations, deletions and restarts: what one may use is listed, and what
\* is listed may be used unless its creation is not over or something was cut short.
THEOREM RolesAndMembershipsAgree == Spec => []ListedIsUsable
<1>1. ASSUME IInv, NEW u \in Users
      PROVE  /\ Usable(u) \subseteq Listed(u)
             /\ faults = 0 => Listed(u) \ BeingCreated(u) \subseteq Usable(u)
  <2>1. "createDevice" \in Operations
    BY DEF Operations
  <2>2. Usable(u) \subseteq Listed(u)
    BY <1>1, <2>1, RolesAreOfMembers DEF Usable, Listed
  <2>3. ASSUME faults = 0, NEW o \in Listed(u) \ BeingCreated(u)
        PROVE  o \in Usable(u)
    <3>1. o \in Organizations /\ <<u, "admin", o>> \in roles /\ organizations[o] = "live"
      BY <1>1, <2>3 DEF IInv, CreatorInv, Listed
    <3>. QED
      BY <3>1, AdminMayAll DEF Usable
  <2>. QED
    BY <2>2, <2>3
<1>2. IInv => ListedIsUsable
  BY <1>1 DEF ListedIsUsable
<1>. QED
  BY Invariance, <1>2, PTL

(***************************************************************************)
(* What the API answers.                                                    *)
(***************************************************************************)
Refused(a) == a.status \in Refusals /\ a.rows = {}

LEMMA ErrorsRefuse ==
  ASSUME NEW e \in {"PermissionDenied", "InvalidToken", "ValidationError",
                    "InvalidJsonSchema", "PayloadConversionError"}
  PROVE  Refused(Error(e))
BY DEF Refused, Refusals, Error, DomainErrorToStatus

\* A service that asks for a permission first refuses whoever is not a member.
LEMMA StrangersAreRefused ==
  ASSUME IInv, NEW u \in Users, NEW o \in Organizations, <<u, o>> \notin memberships,
         NEW need, NEW answer
  PROVE  Refused(Require(u, o, need, answer))
<1>1. Require(u, o, need, answer) = Error("PermissionDenied")
  BY RolesAreOfMembers DEF Require
<1>. QED
  BY <1>1, ErrorsRefuse

\* Whoever is not a member of an organization is refused by every handler that names
\* it, for any history of creations, deletions, roles and restarts.
THEOREM StrangersLearnNothing == Spec => []AnswersToMembers
<1>1. ASSUME IInv, NEW caller \in Users \cup {None}, NEW o \in Organizations,
             <<caller, o>> \notin memberships,
             NEW answers, NEW a \in ExtractUserContext(caller, answers),
             caller \in Users => \A b \in answers : Refused(b)
      PROVE  Refused(a)
  BY <1>1, ErrorsRefuse, RegistryAssumption DEF ExtractUserContext
<1>2. ASSUME IInv, NEW caller \in Users \cup {None}, NEW o \in Organizations,
             <<caller, o>> \notin memberships, NEW a \in AnswersAbout(caller, o)
      PROVE  Refused(a)
  <2>1. CASE a \in OrganizationHandler(caller, o)
    BY <1>1, <1>2, <2>1, StrangersAreRefused
    DEF OrganizationHandler, GetOrganization, Write
  <2>2. CASE a \in GatewayHandler(caller, o)
    BY <1>1, <1>2, <2>2, StrangersAreRefused
    DEF GatewayHandler, GetGateway, ListGateways, WriteGateway, GatewayCreation, Write
  <2>3. CASE a \in DefinitionHandler(caller, o)
    BY <1>1, <1>2, <2>3, StrangersAreRefused, ErrorsRefuse
    DEF DefinitionHandler, GetDefinition, ListDefinitions, WriteDefinition,
        DefinitionCreation, CompileContracts, Write
  <2>4. CASE a \in EndDeviceHandler(caller, o)
    BY <1>1, <1>2, <2>4, StrangersAreRefused
    DEF EndDeviceHandler, GetEndDevice, ListEndDevices, ListEndDevicesByGateway,
        DeviceCreation
  <2>. QED
    BY <1>2, <2>1, <2>2, <2>3, <2>4 DEF AnswersAbout
<1>3. IInv => AnswersToMembers
  BY <1>2 DEF AnswersToMembers, Refused
<1>. QED
  BY Invariance, <1>3, PTL

\* A device that the API lists has its definition listed beside it, and is listed under
\* its gateway for as long as the gateway is.
THEOREM ListedDevicesResolve == Spec => []DevicesResolve
<1>1. ASSUME IInv, NEW o \in Organizations, NEW e \in SelectDevices(o)
      PROVE  /\ devices[e].definition \in Definitions
             /\ devices[e].gateway \in Gateways
             /\ Found(definitions[devices[e].definition], o)
             /\ gateways[devices[e].gateway].org = o
  BY <1>1 DEF SelectDevices, IInv, TypeOK, TablesOK, SameOrganization
<1>2. ASSUME IInv, NEW o \in Organizations, NEW e \in SelectDevices(o)
      PROVE  \E d \in SelectDefinitions(o) :
               SelectDeviceWithDefinition(e, o) = {<<e, d>>}
  <2>1. devices[e].definition \in SelectDefinitions(o)
    BY <1>1, <1>2 DEF SelectDefinitions
  <2>2. SelectDevice(e, o) = {e}
    BY <1>2 DEF SelectDevice, SelectDevices
  <2>3. SelectDeviceWithDefinition(e, o) = {<<e, devices[e].definition>>}
    <3>1. ASSUME NEW row \in SelectDeviceWithDefinition(e, o)
          PROVE  row = <<e, devices[e].definition>>
      BY <2>2, <3>1 DEF SelectDeviceWithDefinition
    <3>2. <<e, devices[e].definition>> \in SelectDeviceWithDefinition(e, o)
      BY <1>1, <1>2, <2>2 DEF SelectDeviceWithDefinition, Found
    <3>. QED
      BY <3>1, <3>2
  <2>. QED
    BY <2>1, <2>3
<1>3. ASSUME IInv, NEW o \in Organizations
      PROVE  {e \in SelectDevices(o) : gateways[devices[e].gateway].state = "live"}
               = UNION {SelectDevicesOfGateway(o, g) : g \in SelectGateways(o)}
  BY <1>1, <1>3 DEF SelectDevicesOfGateway, SelectGateways, Found
<1>4. IInv => DevicesResolve
  BY <1>2, <1>3 DEF DevicesResolve
<1>. QED
  BY Invariance, <1>4, PTL
=============================================================================
