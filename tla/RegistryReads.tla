---------------------------- MODULE RegistryReads ----------------------------
(***************************************************************************)
(* What the API answers about the tables of Registry: the queries of the     *)
(* repositories, the services that ask for a permission before them, and    *)
(* the gRPC handlers that authenticate the caller and turn an error into a   *)
(* status.  Each is a function of the tables and the roles at one instant.   *)
(*                                                                         *)
(* Columns, and with them the conversions of the handlers, are left out.  A   *)
(* query that fails is answered "internal", whatever the tables hold.        *)
(***************************************************************************)
EXTENDS Registry

(***************************************************************************)
(* The repositories: the rows that a query returns, by their identifiers.    *)
(***************************************************************************)
SelectOrganization(o) == {x \in {o} : organizations[x] = "live"}

SelectOrganizations == {o \in Organizations : organizations[o] = "live"}

SelectGateway(g, o) == {x \in {g} : Found(gateways[x], o)}

SelectGateways(o) == {g \in Gateways : Found(gateways[g], o)}

SelectDefinition(d, o) == {x \in {d} : Found(definitions[x], o)}

SelectDefinitions(o) == {d \in Definitions : Found(definitions[d], o)}

SelectDevice(e, o) == {x \in {e} : devices[x] # None /\ devices[x].org = o}

SelectDevices(o) == {e \in Devices : devices[e] # None /\ devices[e].org = o}

SelectDevicesOfGateway(o, g) == {e \in SelectDevices(o) : devices[e].gateway = g}

\* Mutant: a join with the live gateways too.
SelectDeviceOfLiveGateway(e, o) ==
  {row \in SelectDevice(e, o) \X Definitions :
     /\ devices[row[1]].definition = row[2]
     /\ gateways[devices[row[1]].gateway].state = "live"}

\* The join is on the definition alone; end_device_definitions has no deleted rows.
SelectDeviceWithDefinition(e, o) ==
  {row \in SelectDevice(e, o) \X Definitions :
     devices[row[1]].definition = row[2] /\ definitions[row[2]].state = "live"}

(***************************************************************************)
(* The errors, and the statuses that the client sees.                       *)
(***************************************************************************)
DomainErrorToStatus ==
  [OrganizationNotFound        |-> "not_found",
   GatewayNotFound             |-> "not_found",
   EndDeviceDefinitionNotFound |-> "not_found",
   EndDeviceNotFound           |-> "not_found",
   PermissionDenied            |-> "permission_denied",
   InvalidToken                |-> "unauthenticated",
   ValidationError             |-> "invalid_argument",
   InvalidJsonSchema           |-> "invalid_argument",
   PayloadConversionError      |-> "invalid_argument"]

Ok(rows) == [status |-> "ok", rows |-> rows]
Error(e) == [status |-> DomainErrorToStatus[e], rows |-> {}]

\* query_opt(..).ok_or_else(..)
One(rows, error) == IF rows = {} THEN Error(error) ELSE Ok(rows)

\* require_permission, then the rest.
Require(u, o, need, answer) ==
  IF Allowed(u, o, need) THEN answer ELSE Error("PermissionDenied")

\* A write that is permitted, and a creation that finds what it names, go on as
\* requests of Registry.
Begun == [status |-> "begun", rows |-> {}]
Write(u, o, op) == Require(u, o, Needs[op], Begun)

\* A deleted organization is not found either: its query asks for live rows.
WithOrganization(o, answer) ==
  IF SelectOrganization(o) = {} THEN Error("OrganizationNotFound") ELSE answer

(***************************************************************************)
(* The services.                                                            *)
(***************************************************************************)
GetOrganization(u, o) ==
  Require(u, o, <<"organization", "read">>,
          One(SelectOrganization(o), "OrganizationNotFound"))

\* No permission: whom it lists is up to the caller.
GetUserOrganizations(u) == Ok(Listed(u))
ListOrganizations == Ok(SelectOrganizations)

GetGateway(u, o, g) ==
  Require(u, o, <<"gateway", "read">>, One(SelectGateway(g, o), "GatewayNotFound"))

GatewayCreation(u, o) ==
  Require(u, o, Needs["createGateway"], WithOrganization(o, Begun))

WriteGateway(u, o) ==
  {GatewayCreation(u, o)}
  \cup {Write(u, o, op) : op \in {"updateGateway", "deleteGateway"}}

ListGateways(u, o) == Require(u, o, <<"gateway", "read">>, Ok(SelectGateways(o)))

GetDefinition(u, o, d) ==
  Require(u, o, <<"end_device", "read">>,
          One(SelectDefinition(d, o), "EndDeviceDefinitionNotFound"))

\* An expression of a contract may not compile.
CompileContracts(answer) == {Error("PayloadConversionError"), answer}

\* A contract with a schema or an expression that does not compile is refused before
\* the permission is asked for.
DefinitionCreation(u, o) ==
  {Error("InvalidJsonSchema")}
  \cup CompileContracts(
         Require(u, o, Needs["createDefinition"], WithOrganization(o, Begun)))

WriteDefinition(u, o) ==
  DefinitionCreation(u, o)
  \cup {Write(u, o, op) : op \in {"updateDefinition", "deleteDefinition"}}

ListDefinitions(u, o) ==
  Require(u, o, <<"end_device", "read">>, Ok(SelectDefinitions(o)))

GetEndDevice(u, o, e) ==
  Require(u, o, <<"end_device", "read">>, One(SelectDevice(e, o), "EndDeviceNotFound"))

ListEndDevices(u, o) == Require(u, o, <<"end_device", "read">>, Ok(SelectDevices(o)))

\* The organization, then the definition, then the gateway.
DeviceCreation(u, o, d, g) ==
  Require(u, o, Needs["createDevice"],
    WithOrganization(o,
      CASE SelectDefinition(d, o) = {} -> Error("EndDeviceDefinitionNotFound")
        [] SelectDefinition(d, o) # {} /\ SelectGateway(g, o) = {} ->
             Error("GatewayNotFound")
        [] OTHER -> Begun))

\* Mutant: the gateway is looked up for whoever asks.
ListByGatewayUnasked(u, o, g) ==
  IF SelectGateway(g, o) = {} THEN Error("GatewayNotFound")
                              ELSE Ok(SelectDevicesOfGateway(o, g))

\* The gateway has to be there.
ListEndDevicesByGateway(u, o, g) ==
  Require(u, o, <<"end_device", "read">>,
    IF SelectGateway(g, o) = {} THEN Error("GatewayNotFound")
                                ELSE Ok(SelectDevicesOfGateway(o, g)))

(***************************************************************************)
(* The handlers: all the answers that a caller may be given about o.  The    *)
(* caller is the user of a valid token, or None.  Every request is validated  *)
(* first, and every handler but that of ListOrganizations wants the token.    *)
(***************************************************************************)
ExtractUserContext(caller, answers) ==
  IF caller = None THEN {Error("InvalidToken")}
                   ELSE {Error("ValidationError")} \cup answers

\* There is no handler for update_organization.
OrganizationHandler(caller, o) ==
  ExtractUserContext(caller,
    {GetOrganization(caller, o), Write(caller, o, "deleteOrganization")})

UserOrganizationsHandler(caller, user) ==
  ExtractUserContext(caller,
    {IF caller = user THEN GetUserOrganizations(user) ELSE Error("PermissionDenied")})

GatewayHandler(caller, o) ==
  ExtractUserContext(caller,
    {GetGateway(caller, o, g) : g \in Gateways} \cup {ListGateways(caller, o)}
    \cup WriteGateway(caller, o))

DefinitionHandler(caller, o) ==
  ExtractUserContext(caller,
    {GetDefinition(caller, o, d) : d \in Definitions} \cup {ListDefinitions(caller, o)}
    \cup WriteDefinition(caller, o))

EndDeviceHandler(caller, o) ==
  ExtractUserContext(caller,
    {GetEndDevice(caller, o, e) : e \in Devices} \cup {ListEndDevices(caller, o)}
    \cup {ListEndDevicesByGateway(caller, o, g) : g \in Gateways}
    \cup {DeviceCreation(caller, o, d, g) : d \in Definitions, g \in Gateways})

-----------------------------------------------------------------------------
AnswersAbout(caller, o) ==
  OrganizationHandler(caller, o) \cup GatewayHandler(caller, o)
  \cup DefinitionHandler(caller, o) \cup EndDeviceHandler(caller, o)

Refusals == {"unauthenticated", "permission_denied", "invalid_argument"}

\* Roles and memberships are kept in two stores, and written one after the other:
\* whoever is not a member of an organization is refused by every handler that names
\* it, and is told the same whatever it holds.
AnswersToMembers ==
  \A caller \in Users \cup {None}, o \in Organizations :
    <<caller, o>> \notin memberships =>
      \A a \in AnswersAbout(caller, o) : a.status \in Refusals /\ a.rows = {}

\* A device that the API lists is found by the pipeline's join, which does not look
\* at the organization of the definition, with a definition that the organization
\* lists; and it is found under its gateway for as long as the gateway is listed.
DevicesResolve ==
  \A o \in Organizations :
    /\ \A e \in SelectDevices(o) :
         \E d \in SelectDefinitions(o) : SelectDeviceWithDefinition(e, o) = {<<e, d>>}
    /\ {e \in SelectDevices(o) : gateways[devices[e].gateway].state = "live"}
         = UNION {SelectDevicesOfGateway(o, g) : g \in SelectGateways(o)}
=============================================================================
