----------------------------- MODULE CdcConverters -----------------------------
(***************************************************************************)
(* What the cdc_worker makes of a row: the sink turns its cells into a JSON   *)
(* object under the column names of the table's schema, and the converter of  *)
(* the table picks what its message carries.  A row or object is a function   *)
(* from names to values, without those that are null, which nothing here tells *)
(* from absent ones; an optional field of a message is a set of one or none.   *)
(* Timestamps and addresses are opaque values.                                *)
(***************************************************************************)
EXTENDS Naturals, Sequences

Empty == ""
Refusal == [error |-> TRUE]

(***************************************************************************)
(* The sink.                                                                *)
(***************************************************************************)

\* The columns of the published tables, as the Relation events announce them.
Columns ==
  [gateways |-> <<"gateway_id", "organization_id", "name", "gateway_type",
                  "gateway_config", "deleted_at">>,
   end_devices |-> <<"end_device_id", "organization_id", "definition_id",
                     "gateway_id", "name">>,
   end_device_definitions |-> <<"id", "organization_id", "name", "contracts">>,
   organizations |-> <<"id", "name", "deleted_at">>,
   users |-> <<"id", "email", "name", "password_hash">>]

\* cell_to_json_value: dates, numbers of arbitrary size and bytes become text.
CellToJson(cell) ==
  CASE cell.type \in {"bool", "string", "integer", "float", "json"} -> cell.value
    [] cell.type = "timestamp" -> cell.value
    [] OTHER                   -> <<"text", cell.value>>

\* table_row_to_json: cells beyond the schema's columns are dropped.
TableRowToJson(columns, cells) ==
  LET known == {i \in DOMAIN cells \cap DOMAIN columns : cells[i].type # "null"} IN
  [c \in {columns[i] : i \in known} |->
     CellToJson(cells[CHOOSE i \in known : columns[i] = c])]

(***************************************************************************)
(* What every converter does with a field.                                   *)
(***************************************************************************)
Has(data, field) == field \in DOMAIN data
Field(data, field, default) == IF Has(data, field) THEN data[field] ELSE default
Text(data, field) == Field(data, field, Empty)
Optional(data, field) == {data[f] : f \in {field} \cap DOMAIN data}

\* A message is refused when a field that it must have is missing.
Message(data, required, message) ==
  IF \A field \in required : Has(data, field) THEN message ELSE Refusal

(***************************************************************************)
(* The five converters.                                                     *)
(***************************************************************************)
EmqxNames == {"emqx", "EMQX", "Emqx"}
GatewayType(name) == IF name \in EmqxNames THEN 1 ELSE 0

\* Mutant: a deleted gateway is announced without the time of its deletion.
ConvertGatewayAlive(data) ==
  LET settings == Field(data, "gateway_config", <<>>) IN
  Message(data, {"gateway_id", "organization_id"},
    [gateway_id |-> Text(data, "gateway_id"),
     organization_id |-> Text(data, "organization_id"),
     name |-> Text(data, "name"),
     type |-> GatewayType(Field(data, "gateway_type", "UNSPECIFIED")),
     broker_url |-> Optional(settings, "broker_url"),
     status |-> "ACTIVE", deleted_at |-> {}])
ConvertGateway(data) ==
  LET settings == Field(data, "gateway_config", <<>>) IN
  Message(data, {"gateway_id", "organization_id"},
    [gateway_id |-> Text(data, "gateway_id"),
     organization_id |-> Text(data, "organization_id"),
     name |-> Text(data, "name"),
     type |-> GatewayType(Field(data, "gateway_type", "UNSPECIFIED")),
     broker_url |-> Optional(settings, "broker_url"),
     status |-> "ACTIVE", deleted_at |-> Optional(data, "deleted_at")])

ConvertEndDevice(data) ==
  Message(data, {"end_device_id", "organization_id", "gateway_id", "name"},
    [end_device_id |-> Text(data, "end_device_id"),
     organization_id |-> Text(data, "organization_id"),
     definition_id |-> Text(data, "definition_id"),
     gateway_id |-> Text(data, "gateway_id"),
     name |-> Text(data, "name")])

ConvertContract(contract) ==
  [match_expression |-> Field(contract, "match_expression", "true"),
   transform_expression |-> Text(contract, "transform_expression"),
   json_schema |-> Field(contract, "json_schema", "{}")]

\* A column of contracts that is not there gives a definition without any.
ConvertEndDeviceDefinition(data) ==
  LET contracts == Field(data, "contracts", <<>>) IN
  Message(data, {"id", "organization_id", "name"},
    [id |-> Text(data, "id"),
     organization_id |-> Text(data, "organization_id"),
     name |-> Text(data, "name"),
     contracts |-> [i \in DOMAIN contracts |-> ConvertContract(contracts[i])]])

ConvertOrganization(data) ==
  Message(data, {"id", "name"},
    [id |-> Text(data, "id"), name |-> Text(data, "name"),
     status |-> IF Has(data, "deleted_at") THEN "INACTIVE" ELSE "ACTIVE",
     deleted_at |-> Optional(data, "deleted_at")])

\* The password hash stays behind.
ConvertUser(data) ==
  Message(data, {"id", "email", "name"},
    [id |-> Text(data, "id"), email |-> Text(data, "email"),
     name |-> Text(data, "name")])

Convert(table, data) ==
  CASE table = "gateways"               -> ConvertGateway(data)
    [] table = "end_devices"            -> ConvertEndDevice(data)
    [] table = "end_device_definitions" -> ConvertEndDeviceDefinition(data)
    [] table = "organizations"          -> ConvertOrganization(data)
    [] table = "users"                  -> ConvertUser(data)
=============================================================================
