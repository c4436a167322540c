----------------------------- MODULE MCMqttApp -----------------------------
(* MqttApp with few ids, packets, failures and messages.                   *)
EXTENDS MqttApp

MCIds == 1..2
=============================================================================
