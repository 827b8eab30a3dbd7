--------------------------- MODULE PayloadContracts ---------------------------
(***************************************************************************)
(* RawEnvelopeService::process_contracts and what follows it: which of the  *)
(* contracts of a device takes a payload, and what becomes of the payload.  *)
(*                                                                         *)
(* CEL and JSON Schema are abstracted: for one payload, a contract matches, *)
(* does not, or cannot be evaluated; its transform gives an object, another *)
(* JSON value, or fails; and the schema accepts the result or not.          *)
(***************************************************************************)
EXTENDS Naturals, Sequences

Contract == [match     : {"yes", "no", "error"},
             transform : {"object", "other", "error"},
             valid     : BOOLEAN]

Verdicts == {"publish", "drop", "error"}

\* Mutant: a payload that fails the schema is tried with the next contract.
TakeIfValid(c, rest) ==
  CASE c.transform = "error" -> "error"
    [] c.transform # "error" /\ ~c.valid -> rest
    [] c.transform = "other" /\ c.valid -> "error"
    [] OTHER -> "publish"

\* What a matching contract makes of the payload.  It claims the payload: the
\* next contracts are not tried even if the schema refuses the result.  A value
\* that is not an object is an error, found only after the schema accepted it.
Take(c, rest) ==
  CASE c.transform = "error" -> "error"
    [] c.transform # "error" /\ ~c.valid -> "drop"
    [] c.transform = "other" /\ c.valid -> "error"
    [] OTHER -> "publish"

\* The loop over the contracts from the i-th; the first error ends it.
ProcessContracts(contracts) ==
  LET from[i \in 1..(Len(contracts) + 1)] ==
        IF i > Len(contracts) THEN "drop"
        ELSE CASE contracts[i].match = "error" -> "error"
               [] contracts[i].match = "no"    -> from[i + 1]
               [] OTHER -> Take(contracts[i], from[i + 1])
  IN from[1]
=============================================================================
