------------------------------- MODULE Tratador -------------------------------
(***************************************************************************)
(* mqtt_event_handler of src/mqttclient.cpp.  The library runs it at once, *)
(* in the task that dispatches the event and under the library's own lock, *)
(* so its cases are effects of the library's steps.  The subscription that *)
(* the case CONNECTED asks for is a step of its own in EspMqtt.            *)
(***************************************************************************)
VARIABLES
  s_connected,  \* what mqttclient_is_connected() returns
  aplicados,    \* commands given to processar_comando_modo, see Modos
  publicadas    \* packet identifiers' bodies reported by MQTT_EVENT_PUBLISHED

tratadorVars == <<s_connected, aplicados, publicadas>>

TratadorInit == s_connected = FALSE /\ aplicados = {} /\ publicadas = {}

\* case MQTT_EVENT_CONNECTED, up to the call of esp_mqtt_client_subscribe
EventoConnected == s_connected' = TRUE /\ UNCHANGED <<aplicados, publicadas>>

\* case MQTT_EVENT_DISCONNECTED
EventoDisconnected == s_connected' = FALSE /\ UNCHANGED <<aplicados, publicadas>>

\* case MQTT_EVENT_ERROR: the error codes are only logged.
EventoError == s_connected' = FALSE /\ UNCHANGED <<aplicados, publicadas>>

\* case MQTT_EVENT_DATA
EventoData(comando) ==
  /\ aplicados' = aplicados \cup {comando}
  /\ UNCHANGED <<s_connected, publicadas>>

\* case MQTT_EVENT_PUBLISHED
EventoPublished(corpo) ==
  /\ publicadas' = publicadas \cup {corpo}
  /\ UNCHANGED <<s_connected, aplicados>>

\* case MQTT_EVENT_SUBSCRIBED, which does not look at the error type the library
\* reports, and the default: both only log.
EventoSubscribed == UNCHANGED tratadorVars
=============================================================================
