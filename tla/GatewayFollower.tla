---------------------------- MODULE GatewayFollower ----------------------------
(***************************************************************************)
(* The other end of the gateways table: what the gateway orchestrator reads   *)
(* out of a change event, and what it reads out of the table when it starts.  *)
(* It takes configurations and deletions from rows first and from events      *)
(* later, and compares the two.                                              *)
(***************************************************************************)
EXTENDS CdcConverters

VARIABLE rows  \* the rows of the gateways table at some time

GatewayTypeName(type) ==
  CASE type = 1 -> "emqx"
    [] type = 2 -> "mosquitto"
    [] OTHER    -> "UNSPECIFIED"

BrokerUrl(config) == IF config = {} THEN Empty ELSE CHOOSE url \in config : TRUE

\* The times of creation and of the last update, converted as the one of the
\* deletion is, are left out.
ProtoToDomainGateway(proto) ==
  [gateway_id |-> proto.gateway_id, organization_id |-> proto.organization_id,
   name |-> proto.name, deleted_at |-> proto.deleted_at,
   gateway_type |-> GatewayTypeName(proto.type),
   broker_url |-> BrokerUrl(proto.broker_url)]

ParseGatewayCdcEvent(operation, proto) ==
  CASE operation = "create" -> [event |-> "Created", gateway |-> ProtoToDomainGateway(proto)]
    [] operation = "update" -> [event |-> "Updated", gateway |-> ProtoToDomainGateway(proto)]
    [] operation = "delete" -> [event |-> "Deleted", gateway_id |-> proto.gateway_id]
    [] OTHER                -> Refusal

JsonToGatewayConfig(json) == Field(json, "broker_url", Empty)

GatewayFromRow(row) ==
  [gateway_id |-> row.gateway_id, organization_id |-> row.organization_id,
   name |-> row.name, deleted_at |-> row.deleted_at,
   gateway_type |-> row.gateway_type,
   broker_url |-> JsonToGatewayConfig(row.gateway_config)]

\* A cell of a gateway's row as the replication carries it; the optional
\* deleted_at of the row is a set of one or none.
GatewayCell(row, c) ==
  IF c # "deleted_at"         THEN [type |-> "json", value |-> row[c]]
  ELSE IF row.deleted_at = {} THEN [type |-> "null", value |-> Empty]
  ELSE [type |-> "timestamp", value |-> CHOOSE at \in row.deleted_at : TRUE]

Replicated(row) ==
  TableRowToJson(Columns.gateways,
    [i \in DOMAIN Columns.gateways |-> GatewayCell(row, Columns.gateways[i])])

\* What a gateway is called by its type in an event when its row says so.
TypeHeard(type) == IF type \in EmqxNames THEN "emqx" ELSE "UNSPECIFIED"

\* A follower of the change events knows of a gateway what it would read in the
\* table: no configuration that is the same is taken for another, and no deletion
\* is missed.  Only the type may read differently: a row created without one says
\* "unspecified" (proto_gateway_type_to_string), an event of it "UNSPECIFIED", and
\* so does the event of a row of any other type than emqx.
FollowersAgree ==
  \A row \in rows, op \in {"create", "update"} :
    LET message == ConvertGateway(Replicated(row))
        heard   == ParseGatewayCdcEvent(op, message).gateway
        read    == GatewayFromRow(row)
    IN /\ message # Refusal
       /\ heard = [read EXCEPT !.gateway_type = TypeHeard(row.gateway_type)]
=============================================================================
