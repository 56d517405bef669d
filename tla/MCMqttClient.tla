---------------------------- MODULE MCMqttClient ----------------------------
(* Instance of MqttClient for TLC. *)
EXTENDS MqttClient
=============================================================================
