-------------------------- MODULE MCEnvelopePipeline --------------------------
(* Small instances of EnvelopePipeline for TLC. *)
EXTENDS EnvelopePipeline, TLC

CONSTANTS reading, heartbeat

TwoPayloads == {reading, heartbeat}

Stores  == [match |-> "yes", transform |-> "object", valid |-> TRUE]
Refuses == [match |-> "yes", transform |-> "object", valid |-> FALSE]
Passes  == [match |-> "no", transform |-> "object", valid |-> TRUE]
Breaks  == [match |-> "yes", transform |-> "error", valid |-> TRUE]

\* One payload is stored and one dropped; then the contracts are swapped.
Sorted  == (reading :> <<Passes, Stores>>) @@ (heartbeat :> <<Passes, Passes>>)
Swapped == (reading :> <<Refuses, Stores>>) @@ (heartbeat :> <<Stores, Passes>>)

\* One payload is stored and the other makes the transform fail.
HeartbeatFails == (reading :> <<Stores>>) @@ (heartbeat :> <<Breaks>>)

ChangingDefinitions == {Sorted, Swapped}
OneDefinition       == {HeartbeatFails}

\* FairSpec as far as EventuallyStored speaks of it: the organization stays, and not
\* enough is poisoned to fill a fetch.
SupposedSpec ==
  /\ Init
  /\ [][Next /\ (org = "active" /\ Cardinality(Poisoned) < RawBatch)']_vars
  /\ Fairness
=============================================================================
