------------------------------ MODULE CayenneLpp ------------------------------
(***************************************************************************)
(* CayenneLppDecoder: a payload of readings, each a channel, a type and as    *)
(* many bytes as the type takes.  A value is the integers that were sent and  *)
(* what they are divided by; the division and the formatting as JSON are left *)
(* out.  A 32-bit integer is a pair of 16-bit ones.                          *)
(***************************************************************************)
EXTENDS Integers, Sequences

\* The Rust decoder works on a slice: d[i] below is data[i - 1] there.
U8(d, i)  == d[i]
U16(d, i) == 256 * d[i] + d[i + 1]
U32(d, i) == <<U16(d, i), U16(d, i + 2)>>
I16(d, i) == IF d[i] < 128 THEN U16(d, i) ELSE U16(d, i) - 65536

\* Mutant: the sign is not extended.
U24(d, i) == 65536 * d[i] + U16(d, i + 1)

I24(d, i) == (IF d[i] < 128 THEN 0 ELSE -16777216) + 65536 * d[i] + U16(d, i + 1)

Polyline == 240

\* get_type_name.
TypeName(t) ==
    CASE t = 0 -> "digital_input"     [] t = 1 -> "digital_output"
      [] t = 2 -> "analog_input"      [] t = 3 -> "analog_output"
      [] t = 100 -> "generic_sensor"  [] t = 101 -> "illuminance"
      [] t = 102 -> "presence"        [] t = 103 -> "temperature"
      [] t = 104 -> "humidity"        [] t = 113 -> "accelerometer"
      [] t = 115 -> "barometer"       [] t = 116 -> "voltage"
      [] t = 117 -> "current"         [] t = 118 -> "frequency"
      [] t = 120 -> "percentage"      [] t = 121 -> "altitude"
      [] t = 125 -> "concentration"   [] t = 128 -> "power"
      [] t = 130 -> "distance"        [] t = 131 -> "energy"
      [] t = 132 -> "direction"       [] t = 133 -> "unix_time"
      [] t = 134 -> "gyrometer"       [] t = 135 -> "colour"
      [] t = 136 -> "gps"             [] t = 142 -> "switch"
      [] t = Polyline -> "polyline"   [] OTHER -> "unknown"

Supported == {t \in 0..255 : TypeName(t) # "unknown"}

\* get_data_size, of the supported types but the polyline.
DataSize(t) ==
  CASE t \in {0, 1, 102, 104, 120, 142} -> 1
    [] t \in {2, 3, 101, 103, 115, 116, 117, 121, 125, 128, 132} -> 2
    [] t = 135 -> 3
    [] t \in {100, 118, 130, 131, 133} -> 4
    [] t \in {113, 134} -> 6
    [] t = 136 -> 9

\* What the integers are divided by, each by its own number or all by the same.
Scale(t) ==
  CASE t = 104 -> <<2>>
    [] t \in {103, 115} -> <<10>>
    [] t \in {2, 3, 116, 134} -> <<100>>
    [] t \in {113, 117, 130, 131} -> <<1000>>
    [] t = 136 -> <<10000, 10000, 100>>
    [] OTHER -> <<1>>

\* decode_sensor_value, of the types but the polyline.  DateTime::from_timestamp
\* takes any unsigned 32-bit integer, so a unix_time is always valid.
Value(t, d) ==
  [per |-> Scale(t),
   raw |->
     CASE t \in {0, 1, 102, 104, 120} -> <<U8(d, 1)>>
       [] t \in {2, 3, 103, 121} -> <<I16(d, 1)>>
       [] t \in {101, 115, 116, 117, 125, 128, 132} -> <<U16(d, 1)>>
       [] t \in {100, 118, 130, 131, 133} -> U32(d, 1)
       [] t \in {113, 134} -> <<I16(d, 1), I16(d, 3), I16(d, 5)>>
       [] t = 135 -> <<U8(d, 1), U8(d, 2), U8(d, 3)>>
       [] t = 136 -> <<I24(d, 1), I24(d, 4), I24(d, 7)>>
       [] t = 142 -> <<IF U8(d, 1) # 0 THEN 1 ELSE 0>>]

\* get_precision_factor.
PrecisionCodes == 227..239
Factors == <<1, 2, 5, 10, 20, 50, 100, 200, 500, 1000, 2000, 5000, 10000>>
Factor(code) == Factors[code - 226]

MinPolylineSize == 8

\* A half byte read as a signed number.
Nibble(n) == IF n > 7 THEN n - 16 ELSE n

\* The first point is absolute, the others are steps from the one before.
Points(d) ==
  LET point[i \in 8..Len(d)] ==
        IF i = 8 THEN <<I24(d, 3), I24(d, 6)>>
        ELSE << point[i - 1][1] + Nibble(d[i] \div 16),
                point[i - 1][2] + Nibble(d[i] % 16) >>
  IN [k \in 1..(Len(d) - 7) |-> point[k + 7]]

PolylineValue(d) == [per |-> <<Factor(d[2])>>, raw |-> Points(d)]

Error(kind) == [error |-> kind]
IsError(x)  == "error" \in DOMAIN x

\* How many bytes the reading of type t takes that begins after the first o bytes,
\* or why that cannot be told.  The size of a polyline is its first byte.
SizeAt(bytes, o, t) ==
  IF t = Polyline
    THEN IF o = Len(bytes) THEN Error("insufficient")
         ELSE IF bytes[o + 1] < MinPolylineSize THEN Error("invalid")
         ELSE [size |-> bytes[o + 1]]
    ELSE IF t \in Supported THEN [size |-> DataSize(t)] ELSE Error("unsupported")

\* One turn of the loop in decode, with the first o bytes behind it.
Reading(bytes, o) ==
  LET t    == bytes[o + 2]
      size == SizeAt(bytes, o + 2, t)
      end  == o + 2 + size.size
      data == SubSeq(bytes, o + 3, end)
  IN IF o + 2 > Len(bytes) THEN Error("insufficient")
     ELSE IF IsError(size) THEN size
     ELSE IF end > Len(bytes) THEN Error("insufficient")
     ELSE IF t = Polyline /\ data[2] \notin PrecisionCodes THEN Error("invalid")
     ELSE [name  |-> <<TypeName(t), bytes[o + 1]>>,
           value |-> IF t = Polyline THEN PolylineValue(data) ELSE Value(t, data),
           end   |-> end]

\* The names and values as a JSON object, where a later value replaces an earlier.
Object(readings) ==
  LET last(name) == CHOOSE i \in 1..Len(readings) :
        /\ readings[i].name = name
        /\ \A j \in (i + 1)..Len(readings) : readings[j].name # name
  IN [name \in {readings[i].name : i \in 1..Len(readings)} |-> readings[last(name)].value]

Decode(bytes) ==
  LET from[o \in 0..Len(bytes)] ==
        IF o = Len(bytes) THEN [readings |-> <<>>]
        ELSE LET reading == Reading(bytes, o) IN
             IF IsError(reading) THEN reading
             ELSE IF IsError(from[reading.end]) THEN from[reading.end]
             ELSE [readings |-> <<reading>> \o from[reading.end].readings]
  IN IF IsError(from[0]) THEN from[0] ELSE [object |-> Object(from[0].readings)]
=============================================================================
