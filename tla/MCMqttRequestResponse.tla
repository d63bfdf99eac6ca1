------------------------- MODULE MCMqttRequestResponse -------------------------
(* Instances of MqttRequestResponse for TLC.                                   *)
EXTENDS MqttRequestResponse

AllCommands == {"SayHello", "other"}
===============================================================================
