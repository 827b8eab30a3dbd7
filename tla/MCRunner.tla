------------------------------- MODULE MCRunner -------------------------------
(* A small instance of AllInOne, and with it of Runner, for TLC. *)
EXTENDS AllInOne, TLC

CONSTANTS c1, c2

\* Three of the six processes: what ends the program depends on their number only
\* in telling one from several.
ThreeProcesses == {"gateway_orchestrator", "cdc_worker", "analytics_worker_1"}
OneProcess     == {"gateway_orchestrator"}
TwoClosers     == {c1, c2}

\* base_policies has eighteen; two tell one policy from the rest.
TwoPolicies == <<"admin", "member">>
=============================================================================
