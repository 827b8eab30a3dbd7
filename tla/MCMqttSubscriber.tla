--------------------------- MODULE MCMqttSubscriber ---------------------------
(* Small instances of MqttSubscriber for TLC. *)
EXTENDS MqttSubscriber

CONSTANTS t1, t2

TwoTasks == {t1, t2}
=============================================================================
