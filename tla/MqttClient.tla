------------------------------ MODULE MqttClient ------------------------------
(***************************************************************************)
(* src/mqttclient.cpp over the esp-mqtt library: the periodic publication  *)
(* of the telemetry by the control task, mqttclient_publish_telemetry,     *)
(* against the library's task, the broker and the connection.  What the    *)
(* payload says of the time is in TimeKeeper, what a command does to the   *)
(* mode in Modos, and how the client is created in Inicio.                 *)
(***************************************************************************)
EXTENDS EspMqtt

CONSTANT MaxPub   \* bound: publications in a behaviour

ASSUME MaxPubAssumption == MaxPub \in Nat

VARIABLES
  cpc,   \* where mqttclient_publish_telemetry is
  n      \* publications begun so far; the n-th carries n

todas == <<vars, cpc, n>>

Init == BrokerInit /\ TratadorInit /\ LibInit /\ cpc = "fora" /\ n = 0

\* if (s_client == nullptr || !s_connected) return;
PodePublicar == s_connected

Ignora ==
  /\ cpc = "fora" /\ ~PodePublicar
  /\ UNCHANGED todas

\* The stamps and the payload, and a topic that is always the same.
Monta ==
  /\ cpc = "fora" /\ PodePublicar /\ n < MaxPub
  /\ cpc' = "montada" /\ n' = n + 1
  /\ UNCHANGED vars

\* The call, whatever the client became meanwhile; its result is only logged.
Publica ==
  /\ cpc = "montada"
  /\ esp_mqtt_client_publish(n)
  /\ cpc' = "fora"
  /\ UNCHANGED n

mqttclient_publish_telemetry == Ignora \/ Monta \/ Publica

Next ==
  \/ esp_mqtt_task /\ UNCHANGED <<cpc, n>>
  \/ BrokerNext /\ UNCHANGED <<tratadorVars, libVars, cpc, n>>
  \/ mqttclient_publish_telemetry

\* Every task is scheduled and the broker reads what arrives.  A timer elapses:
\* what is looked at again and again is one time seen elapsed.  The mutex is
\* given to the task that waits for it.
Lib(A) == A /\ UNCHANGED <<cpc, n>>
Fairness ==
  /\ WF_todas(Lib(esp_mqtt_task))
  /\ SF_todas(Lib(Ping)) /\ SF_todas(Lib(SemPingresp)) /\ SF_todas(Lib(Reconecta))
  /\ SF_todas(Lib(Retransmite))
  /\ WF_todas(BrokerRecebe /\ UNCHANGED <<tratadorVars, libVars, cpc, n>>)
  /\ WF_todas(conexao = "truncada" /\ Cai /\ UNCHANGED <<tratadorVars, libVars, cpc, n>>)
  /\ SF_todas(Publica)

Spec == Init /\ [][Next]_todas /\ Fairness

-----------------------------------------------------------------------------
ComLock == {"vence", "conecta", "connack", "assina", "recebe", "puback", "reenvia", "keepalive", "espera", "solta"}
Pacotes == [tipo : {"CONNECT", "CONNACK", "CONNACK_RECUSADO", "SUBSCRIBE", "SUBACK",
                    "SUBACK_RECUSADO", "PUBLISH", "PUBACK", "PINGREQ", "PINGRESP"},
            id : Ids \cup Comandos \cup {SEM_ID}, corpo : Nat \cup Comandos]
Item == [id : Ids, tipo : {"SUBSCRIBE", "PUBLISH"}, corpo : Nat, pendente : {"QUEUED", "TRANSMITTED"}]

\* Types; the lock is held exactly between the statements that take and release
\* it, on every path (mqtt_client.c:1660-1828), and a command waits for its
\* PUBACK only there.
MqttTypeOK ==
  /\ conexao \in {"fechada", "viva", "truncada", "morta"}
  /\ ida \in Seq(Pacotes) /\ volta \in Seq(Pacotes) /\ outbox \in Seq(Item)
  /\ assinado \in BOOLEAN /\ s_connected \in BOOLEAN /\ espera_ping \in BOOLEAN /\ perdida \in BOOLEAN
  /\ recebidas \subseteq Nat /\ publicadas \subseteq Nat
  /\ enviados \subseteq Comandos /\ confirmados \subseteq Comandos /\ aplicados \subseteq Comandos
  /\ falhas \in 0 .. MaxFalhas
  /\ estado \in {"INIT", "CONNECTED", "WAIT_RECONNECT", "DISCONNECTED"}
  /\ lpc \in ComLock \cup {"topo", "olha", "poll", "fim"}
  /\ trava = (lpc \in ComLock)
  /\ entrada \in Comandos \cup {SEM_ID} /\ (entrada # SEM_ID <=> lpc = "puback")
  /\ cpc \in {"fora", "montada"} /\ n \in 0 .. MaxPub

\* Whenever the library lets its lock go, a firmware that believes to be
\* connected has a client in the connected state: no order of errors, aborts by
\* either task and reconnections leaves the flag up (mqttclient.cpp:190-255).
ConectadoCoerente == s_connected /\ ~trava => estado = "CONNECTED"

\* The broker is told that a command arrived only after the firmware applied it
\* (mqtt_client.c:1426-1461): no loss of the connection, or failure to write,
\* loses a command that was acknowledged.
AckDepoisDeAplicar == confirmados \subseteq aplicados

Corpos(S) == {x.corpo : x \in {y \in S : y.tipo = "PUBLISH"}}
Abstrata == INSTANCE Telemetria WITH
  Mensagens <- 1 .. MaxPub, pendentes <- Corpos(Itens(outbox)), emvoo <- Corpos(Itens(ida)),
  entregues <- recebidas, reportadas <- publicadas

\* The client implements the telemetry it promises: at least once, given up only
\* when it is old, and reported as published only if the broker has it, through
\* resends, stale acknowledgements and publications that fail half way.
ImplementaTelemetria == Abstrata!Spec

\* Failures are finite in a behaviour: from some moment on the firmware is
\* connected and its command topic subscribed, unless the request was refused
\* or had no memory, which nothing retries, or the library's task ended.
ReconectaEAssina ==
  <>[](lpc = "fim" \/ (s_connected /\ (assinado \/ perdida)))

\* A publication that began comes back to the control task, whoever holds the
\* lock, and its message does not wait for ever: it is reported, given up for its
\* age, or refused for lack of memory (mqttclient.cpp:480, mqtt_client.c:1748-1790).
TelemetriaResolvida ==
  \A m \in 1 .. MaxPub :
    (n = m /\ cpc = "montada") ~>
      (cpc = "fora" /\ (m \notin Corpos(Itens(outbox)) \/ lpc = "fim"))
=============================================================================
