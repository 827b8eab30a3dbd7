------------------------ MODULE MCGatewayOrchestrator ------------------------
(* Small instances of GatewayOrchestrator for TLC. *)
EXTENDS GatewayOrchestrator, TLC

CONSTANTS g1, g2, c1, c2, t1, t2, t3

TwoGateways == {g1, g2}
OneGateway  == {g1}
TwoConfigs  == {c1, c2}
ThreeTasks  == {t1, t2, t3}
TwoTasks    == {t1, t2}

\* Tasks are interchangeable identities, and so are configurations.
TaskSymmetry == Permutations(Tasks) \cup Permutations(Configs)
=============================================================================
