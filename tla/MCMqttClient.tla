---------------------------- MODULE MCMqttClient ----------------------------
(* Two descriptors, so that a socket of another task can take the number   *)
(* of one the client has closed.                                           *)
EXTENDS MqttClient

MCIds == {1}
=============================================================================
