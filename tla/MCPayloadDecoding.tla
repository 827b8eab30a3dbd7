-------------------------- MODULE MCPayloadDecoding --------------------------
(***************************************************************************)
(* Pure functions over bounded inputs, each a state, against what they should *)
(* come to: every list of up to MaxContracts contracts, every payload of up   *)
(* to two sample readings, and rows of the gateways table.                   *)
(***************************************************************************)
EXTENDS CelEnvironment, GatewayFollower, FiniteSets, SequencesExt

CONSTANTS
  MaxContracts,  \* bound on the contracts of a definition
  Channels       \* the channels that readings come from

VARIABLES
  contracts,     \* the contracts of a device
  readings       \* what a device measured, and encoded as one payload

vars == <<contracts, readings, rows>>

(***************************************************************************)
(* The wire format as the module's documentation and tests have it: for each *)
(* type its name, the widths of its integers in bytes, the least and the     *)
(* greatest of them, and what they are divided by.                           *)
(***************************************************************************)
Format(type, name, widths, lo, hi, per) ==
  [type |-> type, name |-> name, widths |-> widths, lo |-> lo, hi |-> hi, per |-> per]

Unsigned8 ==
  {<<0, "digital_input", 1>>, <<1, "digital_output", 1>>, <<102, "presence", 1>>,
   <<104, "humidity", 2>>, <<120, "percentage", 1>>}
Signed16 ==
  {<<2, "analog_input", 100>>, <<3, "analog_output", 100>>,
   <<103, "temperature", 10>>, <<121, "altitude", 1>>}
Unsigned16 ==
  {<<101, "illuminance", 1>>, <<115, "barometer", 10>>, <<116, "voltage", 100>>,
   <<117, "current", 1000>>, <<125, "concentration", 1>>, <<128, "power", 1>>,
   <<132, "direction", 1>>}
Unsigned32 ==
  {<<100, "generic_sensor", 1>>, <<118, "frequency", 1>>, <<130, "distance", 1000>>,
   <<131, "energy", 1000>>, <<133, "unix_time", 1>>}
Axes ==
  {<<113, "accelerometer", 1000>>, <<134, "gyrometer", 100>>}

Formats ==
  {Format(x[1], x[2], <<1>>, 0, 255, <<x[3]>>) : x \in Unsigned8}
  \cup {Format(x[1], x[2], <<2>>, -32768, 32767, <<x[3]>>) : x \in Signed16}
  \cup {Format(x[1], x[2], <<2>>, 0, 65535, <<x[3]>>) : x \in Unsigned16}
  \cup {Format(x[1], x[2], <<2, 2>>, 0, 65535, <<x[3]>>) : x \in Unsigned32}
  \cup {Format(x[1], x[2], <<2, 2, 2>>, -32768, 32767, <<x[3]>>) : x \in Axes}
  \cup {Format(135, "colour", <<1, 1, 1>>, 0, 255, <<1>>),
        Format(136, "gps", <<3, 3, 3>>, -8388608, 8388607, <<10000, 10000, 100>>),
        Format(142, "switch", <<1>>, 0, 1, <<1>>)}

\* The least and the greatest integers, and one of each sign.
Samples(f) ==
  {[n \in 1..Len(f.widths) |-> f.lo], [n \in 1..Len(f.widths) |-> f.hi],
   [n \in 1..Len(f.widths) |-> IF n % 2 = 1 THEN f.hi \div 2 + 1 ELSE f.lo + 1]}

\* An integer of so many bytes, the highest first, in two's complement.
IntegerBytes(v, width) == [k \in 1..width |-> (v \div 256 ^ (width - k)) % 256]

Measured(name, type, c, per, raw, data) ==
  [name |-> <<name, c>>, value |-> [per |-> per, raw |-> raw], bytes |-> <<c, type>> \o data]

Plain ==
  UNION {{Measured(f.name, f.type, c, f.per, raw,
            FlattenSeq([n \in 1..Len(f.widths) |-> IntegerBytes(raw[n], f.widths[n])])) :
          raw \in Samples(f)} : f \in Formats, c \in Channels}

\* A path: its size, a code for its precision, the first point, and the steps to
\* the others, half a byte for each coordinate.
Precisions == {<<227, 1>>, <<233, 100>>, <<239, 10000>>}
Paths == {<< <<-8388608, 8388607>> >>,
          << <<420216, -875760>>, <<420217, -875768>>, <<420224, -875769>> >>}

Steps(path) ==
  [k \in 1..(Len(path) - 1) |->
     16 * ((path[k + 1][1] - path[k][1]) % 16) + ((path[k + 1][2] - path[k][2]) % 16)]

Polylines ==
  {Measured("polyline", 240, c, <<p[2]>>, path,
     <<7 + Len(path), p[1]>> \o IntegerBytes(path[1][1], 3) \o IntegerBytes(path[1][2], 3)
     \o Steps(path)) : c \in Channels, p \in Precisions, path \in Paths}

-----------------------------------------------------------------------------
\* A row as a select reads it: the optional deleted_at is a set of one or none.
GatewayRows ==
  [gateway_id : {"g"}, organization_id : {"o"}, name : {"n", Empty},
   gateway_type : {"emqx", "unspecified"},
   gateway_config : {[broker_url |-> "url"], [broker_url |-> Empty], <<>>},
   deleted_at : {{}, {"now"}}]

\* Expressions a user may write, as CelCompiler compiles them.
Input      == <<"input">>
Decoded    == <<"decode", Input>>
Literal(v) == <<"literal", v>>

\* One reading, a temperature, to judge contracts by.
Sample == <<1, 103, 1, 16>>

Matches ==
  {Literal(<<"Bool", TRUE>>),
   Literal(<<"Bool", FALSE>>),
   Literal(<<"Int", 1>>),                            \* no boolean
   <<"select", Decoded, <<"humidity", 1>> >>}        \* no such reading

Transforms ==
  {Decoded,
   Input,
   Literal(<<"String", <<"json", <<"object", <<>> >> >> >>),
   Literal(<<"Double", [per |-> <<0>>, raw |-> <<1>>]>>),
   Uncompiled}

WrittenContracts == [match : Matches, transform : Transforms, valid : BOOLEAN]

Init ==
  /\ contracts = <<>>
  /\ readings = <<>>
  /\ \/ rows = {}
     \/ rows \in {{row} : row \in GatewayRows}

AddContract ==
  /\ readings = <<>> /\ rows = {}
  /\ Len(contracts) < MaxContracts
  /\ \E c \in WrittenContracts : contracts' = Append(contracts, c)
  /\ UNCHANGED <<readings, rows>>

AddReading ==
  /\ contracts = <<>> /\ rows = {}
  /\ Len(readings) < 2
  /\ \E r \in Plain \cup Polylines : readings' = Append(readings, r)
  /\ UNCHANGED <<contracts, rows>>

Spec == Init /\ [][AddContract \/ AddReading]_vars

\* What the expressions of a contract mean for the sample.
SaysYes(c) == c.match = Literal(<<"Bool", TRUE>>)
SaysNo(c)  == c.match = Literal(<<"Bool", FALSE>>)
Fails(c) ==
  c.transform \in {Uncompiled, Literal(<<"Double", [per |-> <<0>>, raw |-> <<1>>]>>)}
GivesObject(c) ==
  c.transform \in {Decoded, Literal(<<"String", <<"json", <<"object", <<>> >> >> >>)}

\* The contracts that decide: the first one that does not plainly say no.
Decisive ==
  {i \in 1..Len(contracts) :
     ~SaysNo(contracts[i]) /\ \A j \in 1..(i - 1) : SaysNo(contracts[j])}

\* "Contracts are evaluated in definition order; the first match wins and claims
\* ownership": the verdict is that of the first contract that matches, and a
\* contract that cannot be evaluated, for want of a reading, of a boolean or of a
\* compiled expression, stops the search.
FirstMatchWins ==
  ProcessContracts([i \in DOMAIN contracts |-> Judged(contracts[i], Sample)]) =
    IF Decisive = {} THEN "drop"
    ELSE LET c == contracts[CHOOSE i \in Decisive : TRUE] IN
         IF ~SaysYes(c) \/ Fails(c) THEN "error"
         ELSE IF ~c.valid THEN "drop"
         ELSE IF GivesObject(c) THEN "publish" ELSE "error"

Payload(rs) == FlattenSeq([i \in 1..Len(rs) |-> rs[i].bytes])

\* A name is that of the type and the channel; of two readings with one name the
\* later one counts.
Reported(rs) ==
  {<<rs[i].name, rs[i].value>> : i \in
     {i \in 1..Len(rs) : \A j \in (i + 1)..Len(rs) : rs[j].name # rs[i].name}}

\* The numbers a reader of the published JSON takes from a value, by the names the
\* documentation of the types gives.
Together(values) ==
  [per |-> LET pers == FlattenSeq([i \in DOMAIN values |-> values[i][2].per]) IN
           IF Cardinality({pers[i] : i \in DOMAIN pers}) = 1 THEN <<pers[1]>> ELSE pers,
   raw |-> FlattenSeq([i \in DOMAIN values |-> values[i][2].raw])]

ReadBack(type, json) ==
  LET is == json[2] IN
  CASE type \in {"accelerometer", "gyrometer"} -> Together(<<is.x, is.y, is.z>>)
    [] type = "gps" -> Together(<<is.latitude, is.longitude, is.altitude>>)
    [] type = "polyline" ->
         LET points == is.points[2]
             point(k) == Together(<<points[k][2].latitude, points[k][2].longitude>>)
         IN [per |-> point(1).per, raw |-> [k \in DOMAIN points |-> point(k).raw]]
    [] type = "switch" -> [per |-> <<1>>, raw |-> <<IF is THEN 1 ELSE 0>>]
    [] type \in {"unix_time", "colour"} -> [per |-> <<1>>, raw |-> is[2]]
    [] OTHER -> is

IsObject(json, pairs) ==
  /\ json[1] = "object"
  /\ {<<name, ReadBack(name[1], json[2][name])>> : name \in DOMAIN json[2]} = pairs

\* What the first n bytes of the payload should come to, alone and wrapped.
IsFaithful(n, json, wrapped) ==
  LET kept == {k \in 0..Len(readings) : Len(Payload(SubSeq(readings, 1, k))) = n} IN
  IF kept = {} THEN json = Failure("execution") /\ wrapped = json
  ELSE /\ \A k \in kept : IsObject(json, Reported(SubSeq(readings, 1, k)))
       /\ wrapped = <<"object", [readings |-> json]>>

\* What the transform cayenne_lpp_decode(input) makes of an encoded payload is what
\* was measured: the right integers at the right places for every type, at the ends
\* of their ranges, on whatever reading follows and whatever went before, through
\* both conversions between JSON and CEL, and wrapped into another object as well.
\* A payload that was cut off is refused, and never read as something else, unless
\* it was cut between two readings, which nothing can tell from a shorter payload.
DecodesWhatWasEncoded ==
  \A n \in 0..Len(Payload(readings)) :
    \A sent \in {SubSeq(Payload(readings), 1, n)} :
      IsFaithful(n, Execute(Decoded, sent), Execute(<<"map", Decoded, "readings">>, sent))
=============================================================================
