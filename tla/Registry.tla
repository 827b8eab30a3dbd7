------------------------------- MODULE Registry -------------------------------
(***************************************************************************)
(* Registry: organizations, gateways, end device definitions and end        *)
(* devices, and the services of ponix_api that write them.  A request runs   *)
(* through its checks one await after the other and ends with one statement  *)
(* or transaction, so what it has checked may be untrue when it writes.      *)
(*                                                                         *)
(* Identifiers are fresh xids: an absent row stands for one not yet made.    *)
(* Names, contracts and configurations are left out; so are the reads that   *)
(* answer a request, except for the list of a user's organizations.          *)
(***************************************************************************)
EXTENDS Naturals

CONSTANTS
  Users, Organizations, Gateways, Definitions, Devices,  \* identifiers
  Requests,   \* slots of the requests in flight
  None,       \* no value
  MaxFaults   \* bound on the requests cut short and the restarts

ASSUME RegistryAssumption ==
  /\ None \notin Users \cup Organizations \cup Gateways \cup Definitions
  /\ Organizations \cap Gateways = {}
  /\ MaxFaults \in Nat

VARIABLES
  organizations, \* table organizations: the state of each row
  memberships,   \* table user_organizations
  roles,         \* grouping policies that the enforcer holds: <<user, role, organization>>
  stored,        \* those in the table of its adapter
  gateways,      \* table gateways
  definitions,   \* table end_device_definitions
  devices,       \* table end_devices
  request,       \* the request in each slot
  overtaken,     \* history: the requests that were in flight when a row was deleted
  faults         \* counts them, for MaxFaults

tables == <<organizations, memberships, gateways, definitions, devices>>
policies == <<roles, stored>>
vars == <<tables, policies, request, overtaken, faults>>

States == {"absent", "live", "deleted"}
Absent == [org |-> None, state |-> "absent"]
Rows   == {Absent} \cup [org : Organizations, state : {"live", "deleted"}]

NoRequest ==
  [op |-> "none", user |-> None, org |-> None, gateway |-> None, definition |-> None,
   step |-> "idle"]

Init ==
  /\ organizations = [o \in Organizations |-> "absent"]
  /\ memberships = {}
  /\ roles = {}
  /\ stored = {}
  /\ gateways = [g \in Gateways |-> Absent]
  /\ definitions = [d \in Definitions |-> Absent]
  /\ devices = [e \in Devices |-> None]
  /\ request = [r \in Requests |-> NoRequest]
  /\ overtaken = [x \in Organizations \cup Gateways |-> {}]
  /\ faults = 0

(***************************************************************************)
(* Authorization.                                                           *)
(***************************************************************************)
AllOf(resources) == resources \X {"create", "read", "update", "delete"}

\* base_policies: what a role may do, in any organization.
Policies ==
  [admin  |-> AllOf({"end_device", "gateway"})
                \cup {"organization"} \X {"read", "update", "delete"},
   member |-> AllOf({"end_device", "gateway"}) \cup {<<"organization", "read">>}]

Roles == {"admin", "member"}

\* Mutant: the matcher leaves the domain out.
AllowedAnywhere(u, o, need) ==
  \E role \in Roles, any \in Organizations :
    <<u, role, any>> \in roles /\ need \in Policies[role]

\* check_permission.  No program makes a super admin.
Allowed(u, o, need) ==
  \E role \in Roles : <<u, role, o>> \in roles /\ need \in Policies[role]

\* The permission that each request but create_organization asks for.
Needs ==
  [updateOrganization |-> <<"organization", "update">>,
   deleteOrganization |-> <<"organization", "delete">>,
   createGateway      |-> <<"gateway", "create">>,
   updateGateway      |-> <<"gateway", "update">>,
   deleteGateway      |-> <<"gateway", "delete">>,
   createDefinition   |-> <<"end_device", "create">>,
   updateDefinition   |-> <<"end_device", "update">>,
   deleteDefinition   |-> <<"end_device", "delete">>,
   createDevice       |-> <<"end_device", "create">>]

Operations ==
  {"updateOrganization", "deleteOrganization", "createGateway", "updateGateway",
   "deleteGateway", "createDefinition", "updateDefinition", "deleteDefinition",
   "createDevice"}
Creations  == {"createGateway", "createDefinition", "createDevice"}

\* Those that name a gateway or a definition.
OnGateway    == {"updateGateway", "deleteGateway", "createDevice"}
OnDefinition == {"updateDefinition", "deleteDefinition", "createDevice"}

(***************************************************************************)
(* The life of a request.                                                   *)
(***************************************************************************)
Idle(r) == request[r].step = "idle"

At(r, step) == request[r].step = step

Goto(r, step) == request' = [request EXCEPT ![r].step = step]

End(r) ==
  /\ request' = [request EXCEPT ![r] = NoRequest]
  /\ overtaken' = [x \in DOMAIN overtaken |-> overtaken[x] \ {r}]

\* The row x is deleted by the request r, which ends.
EndByDeleting(r, x) ==
  /\ request' = [request EXCEPT ![r] = NoRequest]
  /\ overtaken' = [y \in DOMAIN overtaken |->
       (IF y = x THEN {q \in Requests : ~Idle(q)} ELSE overtaken[y]) \ {r}]

\* assign_role holds the enforcer's lock while the adapter writes.
Locked == \E r \in Requests : At(r, "role")

\* A permitted request; one that is not permitted ends here and changes nothing.
\* It names rows that exist or have existed.
Begin(r, op, u, o, g, d) ==
  /\ Idle(r)
  /\ ~Locked
  /\ Allowed(u, o, Needs[op])
  /\ IF op \in OnGateway
       THEN g \in Gateways /\ gateways[g] # Absent ELSE g = None
  /\ IF op \in OnDefinition
       THEN d \in Definitions /\ definitions[d] # Absent ELSE d = None
  /\ request' = [request EXCEPT ![r] =
       [op |-> op, user |-> u, org |-> o, gateway |-> g, definition |-> d,
        step |-> IF op \in Creations THEN "organization" ELSE "write"]]
  /\ UNCHANGED <<tables, policies, overtaken, faults>>

\* A query fails or its answer is lost, or the client gives up and the handler is
\* dropped.
CutShort(r) ==
  /\ ~Idle(r)
  /\ faults < MaxFaults
  /\ faults' = faults + 1
  /\ End(r)
  /\ UNCHANGED <<tables, policies>>

\* The process comes back: the enforcer loads the policies that are stored.
Restart ==
  /\ faults < MaxFaults
  /\ faults' = faults + 1
  /\ roles' = stored
  /\ request' = [r \in Requests |-> NoRequest]
  /\ overtaken' = [x \in DOMAIN overtaken |-> {}]
  /\ UNCHANGED <<tables, stored>>

(***************************************************************************)
(* OrganizationService.                                                     *)
(***************************************************************************)

\* Mutant: the creator gets no role.
CreateOrganizationOnly(r, u, o) ==
  /\ Idle(r)
  /\ organizations[o] = "absent"
  /\ organizations' = [organizations EXCEPT ![o] = "live"]
  /\ memberships' = memberships \cup {<<u, o>>}
  /\ UNCHANGED <<request, overtaken, gateways, definitions, devices, policies, faults>>

\* One transaction inserts the organization and its creator's membership.
InsertOrganization(u, o) ==
  /\ organizations[o] = "absent"
  /\ organizations' = [organizations EXCEPT ![o] = "live"]
  /\ memberships' = memberships \cup {<<u, o>>}

CreateOrganization(r, u, o) ==
  /\ Idle(r)
  /\ InsertOrganization(u, o)
  /\ request' = [request EXCEPT ![r] =
       [op |-> "createOrganization", user |-> u, org |-> o,
        gateway |-> None, definition |-> None, step |-> "store"]]
  /\ UNCHANGED <<gateways, definitions, devices, policies, overtaken, faults>>

\* Mutant: the role is kept in memory only.
StoreNothing(r) ==
  /\ At(r, "store")
  /\ Goto(r, "role")
  /\ UNCHANGED <<tables, policies, overtaken, faults>>

\* add_grouping_policy: the adapter writes the rule, then the enforcer takes it.
AdminRole(r) == <<request[r].user, "admin", request[r].org>>

StoreRole(r) ==
  /\ At(r, "store")
  /\ ~Locked
  /\ stored' = stored \cup {AdminRole(r)}
  /\ Goto(r, "role")
  /\ UNCHANGED <<tables, roles, overtaken, faults>>

AssignRole(r) ==
  /\ At(r, "role")
  /\ roles' = roles \cup {AdminRole(r)}
  /\ End(r)
  /\ UNCHANGED <<tables, stored, faults>>

DeleteOrganization(r) ==
  /\ At(r, "write")
  /\ request[r].op = "deleteOrganization"
  /\ LET o == request[r].org IN
     \/ /\ organizations[o] = "live"
        /\ organizations' = [organizations EXCEPT ![o] = "deleted"]
        /\ EndByDeleting(r, o)
     \/ /\ organizations[o] # "live"
        /\ End(r)
        /\ UNCHANGED organizations
  /\ UNCHANGED <<memberships, gateways, definitions, devices, policies, faults>>

\* The updates write columns that are left out here, and no others.
Update(r, op) ==
  /\ At(r, "write")
  /\ request[r].op = op
  /\ End(r)
  /\ UNCHANGED <<tables, policies, faults>>

UpdateOrganization(r) == Update(r, "updateOrganization")

(***************************************************************************)
(* What a creation checks first.  get_organization and get_gateway find live *)
(* rows only; a row that is not found ends the request with an error.        *)
(***************************************************************************)

\* Mutant: the organization need not be alive.
ValidateOrganizationExists(r) ==
  /\ At(r, "organization")
  /\ Goto(r, IF request[r].op = "createDevice" THEN "definition" ELSE "write")
  /\ UNCHANGED <<tables, policies, overtaken, faults>>

ValidateOrganization(r) ==
  /\ At(r, "organization")
  /\ IF organizations[request[r].org] = "live"
       THEN /\ Goto(r, IF request[r].op = "createDevice" THEN "definition" ELSE "write")
            /\ UNCHANGED overtaken
       ELSE End(r)
  /\ UNCHANGED <<tables, policies, faults>>

Found(row, o) == row.org = o /\ row.state = "live"

ValidateDefinition(r) ==
  /\ At(r, "definition")
  /\ IF Found(definitions[request[r].definition], request[r].org)
       THEN Goto(r, "gateway") /\ UNCHANGED overtaken
       ELSE End(r)
  /\ UNCHANGED <<tables, policies, faults>>

\* Mutant: the gateway may belong to any organization.
ValidateGatewayOfAny(r) ==
  /\ At(r, "gateway")
  /\ IF gateways[request[r].gateway].state = "live"
       THEN Goto(r, "write") /\ UNCHANGED overtaken
       ELSE End(r)
  /\ UNCHANGED <<tables, policies, faults>>

ValidateGateway(r) ==
  /\ At(r, "gateway")
  /\ IF Found(gateways[request[r].gateway], request[r].org)
       THEN Goto(r, "write") /\ UNCHANGED overtaken
       ELSE End(r)
  /\ UNCHANGED <<tables, policies, faults>>

(***************************************************************************)
(* Gateways.                                                                *)
(***************************************************************************)
CreateGateway(r) ==
  /\ At(r, "write")
  /\ request[r].op = "createGateway"
  /\ \E g \in Gateways :
       /\ gateways[g] = Absent
       /\ gateways' = [gateways EXCEPT ![g] = [org |-> request[r].org, state |-> "live"]]
  /\ End(r)
  /\ UNCHANGED <<organizations, memberships, definitions, devices, policies, faults>>

DeleteGateway(r) ==
  /\ At(r, "write")
  /\ request[r].op = "deleteGateway"
  /\ LET g == request[r].gateway IN
     \/ /\ Found(gateways[g], request[r].org)
        /\ gateways' = [gateways EXCEPT ![g].state = "deleted"]
        /\ EndByDeleting(r, g)
     \/ /\ ~Found(gateways[g], request[r].org)
        /\ End(r)
        /\ UNCHANGED gateways
  /\ UNCHANGED <<organizations, memberships, definitions, devices, policies, faults>>

UpdateGateway(r) == Update(r, "updateGateway")

(***************************************************************************)
(* End device definitions, which are deleted for good.                      *)
(***************************************************************************)
CreateDefinition(r) ==
  /\ At(r, "write")
  /\ request[r].op = "createDefinition"
  /\ \E d \in Definitions :
       /\ definitions[d] = Absent
       /\ definitions' =
            [definitions EXCEPT ![d] = [org |-> request[r].org, state |-> "live"]]
  /\ End(r)
  /\ UNCHANGED <<organizations, memberships, gateways, devices, policies, faults>>

\* The foreign key of end_devices: ON DELETE RESTRICT.
InUse(d) == \E e \in Devices : devices[e] # None /\ devices[e].definition = d

DeleteDefinition(r) ==
  /\ At(r, "write")
  /\ request[r].op = "deleteDefinition"
  /\ LET d == request[r].definition IN
       IF Found(definitions[d], request[r].org) /\ ~InUse(d)
         THEN definitions' = [definitions EXCEPT ![d].state = "deleted"]
         ELSE UNCHANGED definitions
  /\ End(r)
  /\ UNCHANGED <<organizations, memberships, gateways, devices, policies, faults>>

UpdateDefinition(r) == Update(r, "updateDefinition")

(***************************************************************************)
(* End devices, which are never deleted.  The foreign keys are on the        *)
(* identifiers alone; a soft-deleted gateway satisfies its own.              *)
(***************************************************************************)
CreateDevice(r) ==
  /\ At(r, "write")
  /\ request[r].op = "createDevice"
  /\ IF definitions[request[r].definition].state = "live"
       THEN \E e \in Devices :
              /\ devices[e] = None
              /\ devices' = [devices EXCEPT ![e] =
                   [org |-> request[r].org, definition |-> request[r].definition,
                    gateway |-> request[r].gateway]]
       ELSE UNCHANGED devices
  /\ End(r)
  /\ UNCHANGED <<organizations, memberships, gateways, definitions, policies, faults>>

-----------------------------------------------------------------------------
Step(r) ==
  \/ \E u \in Users, o \in Organizations : CreateOrganization(r, u, o)
  \/ \E op \in Operations, u \in Users, o \in Organizations,
        g \in Gateways \cup {None}, d \in Definitions \cup {None} :
       Begin(r, op, u, o, g, d)
  \/ CutShort(r)
  \/ StoreRole(r)
  \/ AssignRole(r)
  \/ DeleteOrganization(r)
  \/ UpdateOrganization(r)
  \/ UpdateGateway(r)
  \/ UpdateDefinition(r)
  \/ ValidateOrganization(r)
  \/ ValidateDefinition(r)
  \/ ValidateGateway(r)
  \/ CreateGateway(r)
  \/ DeleteGateway(r)
  \/ CreateDefinition(r)
  \/ DeleteDefinition(r)
  \/ CreateDevice(r)

Next == (\E r \in Requests : Step(r)) \/ Restart

Spec == Init /\ [][Next]_vars

-----------------------------------------------------------------------------
InFlight ==
  [op : Operations \cup {"createOrganization"}, user : Users, org : Organizations,
   gateway : Gateways \cup {None}, definition : Definitions \cup {None},
   step : {"organization", "definition", "gateway", "write", "store", "role"}]

TablesOK ==
  /\ organizations \in [Organizations -> States]
  /\ memberships \subseteq Users \X Organizations
  /\ roles \subseteq Users \X Roles \X Organizations
  /\ stored \subseteq Users \X Roles \X Organizations
  /\ gateways \in [Gateways -> Rows]
  /\ definitions \in [Definitions -> Rows]
  /\ devices \in [Devices -> {None} \cup
       [org : Organizations, definition : Definitions, gateway : Gateways]]

\* A request names rows that are or have been there.
NamesRows(r) ==
  /\ request[r].op = "createOrganization" <=> request[r].step \in {"store", "role"}
  /\ request[r].op \in OnGateway => request[r].gateway # None
  /\ request[r].gateway # None => gateways[request[r].gateway] # Absent
  /\ request[r].op \in OnDefinition => request[r].definition # None
  /\ request[r].definition # None => definitions[request[r].definition] # Absent

RequestsOK ==
  /\ request \in [Requests -> {NoRequest} \cup InFlight]
  /\ \A r \in Requests : NamesRows(r)

TypeOK ==
  /\ TablesOK
  /\ RequestsOK
  /\ overtaken \in [Organizations \cup Gateways -> SUBSET Requests]
  /\ faults \in 0..MaxFaults

\* A device, its definition and its gateway belong to one organization, and the
\* definition is still there, although the three are checked one after the other
\* and the foreign keys say nothing of the organization.
SameOrganization ==
  \A e \in Devices : devices[e] # None =>
    /\ Found(definitions[devices[e].definition], devices[e].org)
    /\ gateways[devices[e].gateway].org = devices[e].org

RowsUnder(x) ==
  {g \in Gateways : gateways[g].org = x}
  \cup {d \in Definitions : definitions[d].org = x}
  \cup {e \in Devices : devices[e] # None /\ x \in {devices[e].org, devices[e].gateway}}

IsDeleted(x) ==
  IF x \in Organizations THEN organizations[x] = "deleted"
                         ELSE gateways[x].state = "deleted"

\* Nothing is created under a deleted organization or gateway, except by the
\* requests that were in flight when it was deleted: no check and no foreign key
\* stops those, but there are no others.
DeletedIsClosed ==
  [][\A x \in Organizations \cup Gateways :
       IsDeleted(x) /\ overtaken[x] = {} => RowsUnder(x)' \subseteq RowsUnder(x)]_vars

\* What get_user_organizations lists, and where the user may do what an admin may.
Listed(u) == {o \in Organizations : <<u, o>> \in memberships /\ organizations[o] = "live"}

Usable(u) ==
  {o \in Organizations :
     organizations[o] = "live" /\ \A op \in Operations : Allowed(u, o, Needs[op])}

BeingCreated(u) == {o \in Organizations : \E r \in Requests :
  request[r].op = "createOrganization" /\ request[r].user = u /\ request[r].org = o}

\* The creator gets the admin role, and with it the use of the organization: the
\* table of memberships and the enforcer's roles never disagree for longer than
\* the creation takes, unless one was cut short.
ListedIsUsable ==
  \A u \in Users :
    /\ Usable(u) \subseteq Listed(u)
    /\ faults = 0 => Listed(u) \ BeingCreated(u) \subseteq Usable(u)

\* Nobody loses a role: what the enforcer has answered once, it answers after every
\* restart, since a role is in the table before it is in effect.
RolesStay == [][roles \subseteq roles']_vars

HasRole(o) == \E u \in Users, role \in Roles : <<u, role, o>> \in roles

\* An organization whose creation was cut short before the role is there for good,
\* with nothing in it: nobody may use it, delete it or be given a role in it.
OrphanIsInert ==
  \A o \in Organizations :
    ~HasRole(o) => organizations[o] # "deleted" /\ RowsUnder(o) = {}

-----------------------------------------------------------------------------
(***************************************************************************)
(* The inductive invariant: what the checks that a request has passed still  *)
(* say when it writes.                                                      *)
(***************************************************************************)

\* Identifiers are not used again and rows do not move, so these stay true.
CheckedInv ==
  \A r \in Requests : request[r].op = "createDevice" =>
    /\ request[r].step \in {"gateway", "write"} =>
         definitions[request[r].definition].org = request[r].org
    /\ At(r, "write") => gateways[request[r].gateway].org = request[r].org

\* The creation in slot r has found x alive.
HasPassed(r, x) ==
  /\ request[r].op \in Creations
  /\ \/ x = request[r].org /\ ~At(r, "organization")
     \/ x = request[r].gateway /\ request[r].op = "createDevice" /\ At(r, "write")

\* That it is alive may become untrue, but then the request was overtaken.
OvertakenInv ==
  \A r \in Requests, x \in Organizations \cup Gateways :
    HasPassed(r, x) /\ IsDeleted(x) => r \in overtaken[x]

\* The enforcer answers from rules that are stored.
StoredInv ==
  /\ roles \subseteq stored
  /\ \A r \in Requests : At(r, "role") => AdminRole(r) \in stored

\* Roles are never taken away.
RolesInv ==
  \A r \in Requests : request[r].op \in Operations => HasRole(request[r].org)

\* Only members have a role, and whoever creates an organization is a member of it
\* before that.
MembersInv ==
  /\ \A u \in Users, role \in Roles, o \in Organizations :
       <<u, role, o>> \in stored => <<u, o>> \in memberships
  /\ \A r \in Requests : request[r].op = "createOrganization" =>
       <<request[r].user, request[r].org>> \in memberships

\* A creation that is not cut short ends with the role.
CreatorInv ==
  faults = 0 => \A u \in Users, o \in Organizations :
    <<u, o>> \in memberships => <<u, "admin", o>> \in roles \/ o \in BeingCreated(u)

IInv ==
  /\ TypeOK
  /\ SameOrganization
  /\ OrphanIsInert
  /\ CheckedInv
  /\ OvertakenInv
  /\ StoredInv
  /\ RolesInv
  /\ MembersInv
  /\ CreatorInv
=============================================================================
