-------------------------------- MODULE MCMqtt --------------------------------
(* The MQTT client of the firmware, the library, the connection and the      *)
(* broker.                                                                   *)
EXTENDS MqttClient
=============================================================================
