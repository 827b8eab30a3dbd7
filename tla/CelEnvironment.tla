---------------------------- MODULE CelEnvironment ----------------------------
(***************************************************************************)
(* CelEnvironment: how a compiled expression is run on a payload, what its   *)
(* decoder function gives it and what its result becomes as JSON.            *)
(*                                                                         *)
(* A JSON or CEL value is a pair of its kind and its content, a number's     *)
(* content being the integers sent and what they are divided by.  Of CEL,    *)
(* which is a library, there are literals, the variable, the decoder, the    *)
(* selection of a field and a map of one entry.                             *)
(***************************************************************************)
EXTENDS CayenneLpp, PayloadContracts

\* json! of each type in decode_sensor_value: integers as they are, quotients as
\* floats, and the others by their structs.
IntegerTypes ==
  {"digital_input", "digital_output", "illuminance", "presence", "generic_sensor",
   "frequency", "percentage", "altitude", "concentration", "power", "direction"}

Member(v, n) ==
  <<"float", [per |-> <<IF Len(v.per) = 1 THEN v.per[1] ELSE v.per[n]>>,
              raw |-> <<v.raw[n]>>]>>

Axes3(v)  == <<"object", [x |-> Member(v, 1), y |-> Member(v, 2), z |-> Member(v, 3)]>>
Point(v)  == <<"object", [latitude |-> Member(v, 1), longitude |-> Member(v, 2)]>>
Place(v)  == <<"object", [latitude |-> Member(v, 1), longitude |-> Member(v, 2),
                          altitude |-> Member(v, 3)]>>
Points2(v) ==
  <<"object", [points |->
     <<"array", [k \in 1..Len(v.raw) |-> Point([per |-> v.per, raw |-> v.raw[k]])]>>]>>

SensorJson(type, v) ==
  CASE type \in IntegerTypes -> <<"integer", v>>
    [] type = "switch" -> <<"bool", v.raw = <<1>> >>
    [] type \in {"unix_time", "colour"} -> <<"string", <<type, v.raw>> >>
    [] type \in {"accelerometer", "gyrometer"} -> Axes3(v)
    [] type = "gps" -> Place(v)
    [] type = "polyline" -> Points2(v)
    [] OTHER -> <<"float", v>>

Failure(kind) == <<"error", kind>>
Failed(value) == value[1] = "error"

ObjectOrFailure(decoded) ==
  IF IsError(decoded) THEN Failure(decoded.error)
  ELSE <<"object", [name \in DOMAIN decoded.object |->
                      SensorJson(name[1], decoded.object[name])]>>

DecodeJson(bytes) == ObjectOrFailure(Decode(bytes))

\* json_to_cel_value.  No integer of the decoder is beyond an i64.
RECURSIVE JsonToCel(_)

JsonToCel(json) ==
  CASE json[1] = "integer" -> <<"Int", json[2]>>
    [] json[1] = "float"   -> <<"Double", json[2]>>
    [] json[1] = "bool"    -> <<"Bool", json[2]>>
    [] json[1] = "string"  -> <<"String", json[2]>>
    [] json[1] = "array"   -> <<"List", [i \in DOMAIN json[2] |-> JsonToCel(json[2][i])]>>
    [] json[1] = "object"  -> <<"Map", [key \in DOMAIN json[2] |-> JsonToCel(json[2][key])]>>

\* The members of a list or a map, or the error of one of them.
OrFailure(kind, members) ==
  IF \E x \in DOMAIN members : Failed(members[x])
  THEN members[CHOOSE x \in DOMAIN members : Failed(members[x])]
  ELSE <<kind, members>>

\* cel_value_to_json.  A string that is the text of a JSON value becomes that value;
\* its content is then <<"json", value>>.  A double that is not finite, a quotient
\* by zero, has no JSON.
RECURSIVE CelToJson(_)

CelToJson(value) ==
  CASE value[1] = "Int"    -> <<"integer", value[2]>>
    [] value[1] = "Double" ->
         IF value[2].per = <<0>> THEN Failure("output") ELSE <<"float", value[2]>>
    [] value[1] = "Bool"   -> <<"bool", value[2]>>
    [] value[1] = "String" -> IF value[2][1] = "json" THEN value[2][2] ELSE <<"string", value[2]>>
    [] value[1] = "Bytes"  -> <<"string", <<"base64", value[2]>> >>
    [] value[1] = "List"   ->
         OrFailure("array", [i \in DOMAIN value[2] |-> CelToJson(value[2][i])])
    [] value[1] = "Map"    ->
         OrFailure("object", [key \in DOMAIN value[2] |-> CelToJson(value[2][key])])
    [] value[1] = "Error"  -> Failure("execution")

\* cayenne_lpp_decode, the function of create_cel_env.
CelOrError(json) == IF Failed(json) THEN <<"Error", json[2]>> ELSE JsonToCel(json)

DecoderFunction(arg) ==
  IF arg[1] # "Bytes" THEN <<"Error", "argument">> ELSE CelOrError(DecodeJson(arg[2]))

\* An expression over the value of the expression in it.
Apply(e, of) ==
  CASE of[1] = "Error" -> of
    [] of[1] # "Error" /\ e[1] = "decode" -> DecoderFunction(of)
    [] of[1] # "Error" /\ e[1] = "select" ->
         IF of[1] = "Map" /\ e[3] \in DOMAIN of[2] THEN of[2][e[3]]
         ELSE <<"Error", "no such key">>
    [] of[1] # "Error" /\ e[1] = "map" -> <<"Map", [key \in {e[3]} |-> of]>>

RECURSIVE Eval(_, _)

Eval(e, input) ==
  CASE e[1] = "literal" -> e[2]
    [] e[1] = "input"   -> input
    [] OTHER            -> Apply(e, Eval(e[2], input))

\* A contract that was never compiled.
Uncompiled == <<"uncompiled">>

ExecuteRaw(compiled, payload) ==
  IF compiled = Uncompiled THEN <<"Error", "compilation">>
  ELSE Eval(compiled, <<"Bytes", payload>>)

Execute(compiled, payload) == CelToJson(ExecuteRaw(compiled, payload))

Verdict(value) ==
  IF value[1] # "Bool" THEN "error" ELSE IF value[2] THEN "yes" ELSE "no"

EvaluateBool(compiled, payload) == Verdict(ExecuteRaw(compiled, payload))

\* What a contract's expressions come to, for process_contracts; valid is what the
\* schema makes of the result.
KindOf(json) ==
  IF Failed(json) THEN "error" ELSE IF json[1] = "object" THEN "object" ELSE "other"

Judged(contract, payload) ==
  [match     |-> EvaluateBool(contract.match, payload),
   transform |-> KindOf(Execute(contract.transform, payload)),
   valid     |-> contract.valid]
=============================================================================
