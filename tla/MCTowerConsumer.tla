--------------------------- MODULE MCTowerConsumer ---------------------------
(* Small instances of TowerConsumer for TLC. *)
EXTENDS TowerConsumer

CONSTANT m1

OneMessage == {m1}
=============================================================================
