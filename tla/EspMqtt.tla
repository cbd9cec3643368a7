------------------------------- MODULE EspMqtt --------------------------------
(***************************************************************************)
(* The client of the esp-mqtt library, mqtt_client.c, as this firmware     *)
(* configures and uses it: MQTT 3.1.1, clean session, automatic            *)
(* reconnection, QoS 1, messages that always fit the buffers, and events   *)
(* that run at once in the task that dispatches them.                      *)
(*                                                                         *)
(* esp_mqtt_task holds the recursive API lock during an iteration, and     *)
(* lets it go to poll the transport.  esp_mqtt_client_publish, called by   *)
(* another task, runs under the same lock, and may close the connection    *)
(* while the library's task is polling it.  Time is a choice: a timer may  *)
(* have elapsed whenever it is looked at, unless that needs a peer which   *)
(* is late, and then it counts as a failure.                               *)
(***************************************************************************)
EXTENDS Broker, Tratador

CONSTANT Ids     \* message identifiers in use, 1 .. 65534 in the code

ASSUME IdsAssumption == Ids \subseteq Nat \ {SEM_ID} /\ Comandos \cap (Ids \cup {SEM_ID}) = {}

VARIABLES
  estado,       \* client->state
  lpc,          \* where esp_mqtt_task is
  trava,        \* is the API lock held by esp_mqtt_task between two steps?
  outbox,
  espera_ping,  \* client->wait_for_ping_resp
  entrada,      \* the command in in_buffer, between its event and its PUBACK
  perdida       \* history: the subscription of this connection was refused, or never asked for

libVars == <<estado, lpc, trava, outbox, espera_ping, entrada, perdida>>
vars == <<brokerVars, tratadorVars, libVars>>

LibInit ==
  /\ estado = "INIT"
  /\ lpc = "topo"
  /\ trava = FALSE
  /\ outbox = <<>>
  /\ espera_ping = FALSE
  /\ entrada = SEM_ID
  /\ perdida = FALSE

Vai(de, para) == lpc = de /\ lpc' = para

\* An identifier that nothing on its way carries: which one is of no matter.
EmUso == {x.id : x \in Itens(outbox) \cup Itens(ida) \cup Itens(volta)}
IdNovo(id) == id \in Ids \ EmUso /\ \A j \in Ids \ EmUso : id <= j

(***************************************************************************)
(* Helpers shared by the two tasks.                                        *)
(***************************************************************************)
\* Mutant: the connection is closed, but nobody is told.
Aborta_calado ==
  /\ TransporteFecha
  /\ estado' = "WAIT_RECONNECT"
  /\ espera_ping' = FALSE
  /\ UNCHANGED tratadorVars

\* esp_mqtt_abort_connection, with its event; the ERROR that may precede it
\* lowers the same flag.
Aborta ==
  /\ TransporteFecha
  /\ estado' = "WAIT_RECONNECT"
  /\ espera_ping' = FALSE
  /\ EventoDisconnected

\* esp_mqtt_client_dispatch_transport_error
ErroDeTransporte == EventoError

\* esp_mqtt_handle_transport_read_error: what is left when all was read is an
\* error, and not the silence of a peer that has nothing to say.
FimDaLeitura == volta = <<>> /\ conexao = "morta"

mqtt_enqueue(id, tipo, corpo) == outbox_enqueue(outbox, id, tipo, corpo)

remove_initiator_message(id, tipo) == outbox' = outbox_delete(outbox, id, tipo)

\* A write that fails, for a caller that then aborts.
EscritaFalhaEAborta == TransporteFalha /\ Aborta

(***************************************************************************)
(* esp_mqtt_task, one iteration of its loop.                               *)
(***************************************************************************)
\* MQTT_API_LOCK
Topo ==
  /\ Vai("topo", "vence")
  /\ ~trava /\ trava' = TRUE
  /\ UNCHANGED <<brokerVars, tratadorVars, estado, outbox, espera_ping, entrada, perdida>>

\* An item may be 30 s old if the connection is down, or if it was sent and its
\* acknowledgement is late: what is not sent is sent again every second.
EmVoo(item) == \E p \in Itens(ida) \cup Itens(volta) : p.id = item.id
PodeVencer(item) ==
  IF estado = "CONNECTED" THEN EmVoo(item) /\ Falha ELSE UNCHANGED falhas

\* mqtt_delete_expired_messages, one removal
Vence ==
  /\ lpc = "vence"
  /\ \E i \in DOMAIN outbox :
        PodeVencer(outbox[i]) /\ outbox' = outbox_delete_expired(outbox, i)
  /\ UNCHANGED <<conexao, ida, volta, assinado, recebidas, enviados, confirmados>>
  /\ UNCHANGED <<tratadorVars, estado, lpc, trava, espera_ping, entrada, perdida>>

\* switch (client->state)
Ramo ==
  /\ Vai("vence", CASE estado = "INIT" -> "conecta"
                    [] estado = "CONNECTED" -> "recebe"
                    [] estado = "WAIT_RECONNECT" -> "espera")
  /\ UNCHANGED <<brokerVars, tratadorVars, estado, trava, outbox, espera_ping, entrada, perdida>>

(***************************************************************************)
(* MQTT_STATE_INIT                                                         *)
(***************************************************************************)
\* What follows the loop of the task.
DepoisDoLaco ==
  /\ TransporteFecha
  /\ outbox' = outbox_delete_all_items
  /\ estado' = "DISCONNECTED"

\* esp_mqtt_client_create_transport fails: the task leaves its loop for ever,
\* and nothing reports it.
Desiste ==
  /\ Vai("conecta", "fim")
  /\ Falha
  /\ trava' = FALSE
  /\ DepoisDoLaco
  /\ UNCHANGED <<recebidas, enviados, confirmados, tratadorVars, espera_ping, entrada, perdida>>

\* The transport connects and the CONNECT packet is written.
Conecta ==
  /\ Vai("conecta", "connack")
  /\ conexao' = "viva"
  /\ ida' = <<Curto("CONNECT", SEM_ID)>> /\ volta' = <<>>
  /\ espera_ping' = FALSE
  /\ perdida' = FALSE
  /\ UNCHANGED <<assinado, recebidas, enviados, confirmados, falhas>>
  /\ UNCHANGED <<tratadorVars, estado, trava, outbox, entrada>>

\* Either fails: no route, no name, a refused certificate, a full socket.
ConectaFalha ==
  /\ Vai("conecta", "solta")
  /\ Falha
  /\ Aborta
  /\ UNCHANGED <<recebidas, enviados, confirmados, trava, outbox, entrada, perdida>>

\* Mutant: the event is dispatched before the state changes, and the state
\* only changes at the next iteration.
EstadoAoConectar_atrasado == UNCHANGED estado

EstadoAoConectar == estado' = "CONNECTED"

\* esp_mqtt_connect returns with the connection accepted.
Connack ==
  /\ Vai("connack", "assina")
  /\ volta # <<>> /\ Head(volta).tipo = "CONNACK"
  /\ volta' = Tail(volta)
  /\ EstadoAoConectar
  /\ EventoConnected
  /\ UNCHANGED <<conexao, ida, assinado, recebidas, enviados, confirmados, falhas>>
  /\ UNCHANGED <<trava, outbox, espera_ping, entrada, perdida>>

\* It is refused, the connection is lost, or the answer takes over 10 s.
ConnackFalha ==
  /\ Vai("connack", "solta")
  /\ \/ volta # <<>> /\ Head(volta).tipo = "CONNACK_RECUSADO" /\ UNCHANGED falhas
     \/ conexao # "viva" /\ UNCHANGED falhas
     \/ conexao = "viva" /\ volta = <<>> /\ Falha
  /\ Aborta
  /\ UNCHANGED <<recebidas, enviados, confirmados, trava, outbox, entrada, perdida>>

(***************************************************************************)
(* esp_mqtt_client_subscribe, called by the handler of CONNECTED.  The     *)
(* caller only logs a failure.                                             *)
(***************************************************************************)
\* Mutant: the request is forgotten once it is written.
GuardaAssinatura_nao(id) == UNCHANGED outbox

GuardaAssinatura(id) ==
  outbox' = outbox_set_pending(mqtt_enqueue(id, "SUBSCRIBE", SEM_ID), id, "TRANSMITTED")

Assina ==
  /\ Vai("assina", "solta")
  /\ \E id \in Ids :
        /\ IdNovo(id)
        /\ GuardaAssinatura(id)
        /\ \/ TransporteAceita(Curto("SUBSCRIBE", id)) /\ UNCHANGED tratadorVars
           \/ TransporteTimeout /\ UNCHANGED tratadorVars
           \/ conexao = "morta" /\ ErroDeTransporte /\ UNCHANGED <<conexao, ida, falhas>>
  /\ UNCHANGED <<volta, assinado, recebidas, enviados, confirmados>>
  /\ UNCHANGED <<estado, trava, espera_ping, entrada, perdida>>

\* There is no memory for the item.
AssinaSemMemoria ==
  /\ Vai("assina", "solta")
  /\ Falha
  /\ perdida' = TRUE
  /\ UNCHANGED <<conexao, ida, volta, assinado, recebidas, enviados, confirmados>>
  /\ UNCHANGED <<tratadorVars, estado, trava, outbox, espera_ping, entrada>>

(***************************************************************************)
(* MQTT_STATE_CONNECTED: mqtt_process_receive, one packet at most.         *)
(***************************************************************************)
Le(tipo) ==
  /\ lpc = "recebe"
  /\ volta # <<>> /\ Head(volta).tipo = tipo
  /\ volta' = Tail(volta)
  /\ UNCHANGED <<conexao, ida, assinado, recebidas, enviados, confirmados, falhas>>

\* Nothing arrived, whether or not the peer is still there.
LeNada ==
  /\ Vai("recebe", "reenvia")
  /\ volta = <<>>
  /\ UNCHANGED <<brokerVars, tratadorVars, estado, trava, outbox, espera_ping, entrada, perdida>>

\* An error or the end of the stream.
LeErro ==
  /\ Vai("recebe", "solta")
  /\ FimDaLeitura
  /\ Aborta
  /\ UNCHANGED <<recebidas, enviados, confirmados, falhas, trava, outbox, entrada, perdida>>

\* The return code is only reported in the event, which the handler logs.
LeSuback ==
  /\ \E tipo \in {"SUBACK", "SUBACK_RECUSADO"} :
        /\ Le(tipo)
        /\ perdida' = (perdida \/ tipo = "SUBACK_RECUSADO")
  /\ remove_initiator_message(Head(volta).id, "SUBSCRIBE")
  /\ EventoSubscribed
  /\ lpc' = "reenvia"
  /\ UNCHANGED <<estado, trava, espera_ping, entrada>>

\* Mutant: the command is acknowledged, and delivered never.
Entrega_sem_evento(comando) == UNCHANGED tratadorVars

\* deliver_publish of a message that fits in_buffer: one event.
Entrega(comando) == EventoData(comando)

LePublish ==
  /\ Le("PUBLISH")
  /\ Entrega(Head(volta).corpo)
  /\ entrada' = Head(volta).id
  /\ lpc' = "puback"
  /\ UNCHANGED <<estado, trava, outbox, espera_ping, perdida>>

\* The acknowledgement of a command, and the failure to write it.
Puback ==
  /\ Vai("puback", "reenvia")
  /\ TransporteAceita(Curto("PUBACK", entrada))
  /\ entrada' = SEM_ID
  /\ UNCHANGED <<volta, assinado, recebidas, enviados, confirmados>>
  /\ UNCHANGED <<tratadorVars, estado, trava, outbox, espera_ping, perdida>>

PubackFalha ==
  /\ Vai("puback", "solta")
  /\ EscritaFalhaEAborta
  /\ entrada' = SEM_ID
  /\ UNCHANGED <<recebidas, enviados, confirmados, trava, outbox, perdida>>

\* remove_initiator_message, and the event if there was one to remove.
LePuback ==
  /\ Le("PUBACK")
  /\ LET id == Head(volta).id
         i  == Iniciador(outbox, id, "PUBLISH")
     IN  /\ remove_initiator_message(id, "PUBLISH")
         /\ IF i = 0 THEN UNCHANGED tratadorVars ELSE EventoPublished(outbox[i].corpo)
  /\ lpc' = "reenvia"
  /\ UNCHANGED <<estado, trava, espera_ping, entrada, perdida>>

LePingresp ==
  /\ Le("PINGRESP")
  /\ espera_ping' = FALSE
  /\ lpc' = "reenvia"
  /\ UNCHANGED <<tratadorVars, estado, trava, outbox, entrada, perdida>>

(***************************************************************************)
(* MQTT_STATE_CONNECTED: what is still to be sent, one item at most; first *)
(* what was never transmitted, then what was, a second ago or more.        *)
(***************************************************************************)
DoItem(item) == Pacote(item.tipo, item.id, item.corpo)

Reenvia ==
  /\ Vai("reenvia", "keepalive")
  /\ \E i \in DOMAIN outbox :
        /\ i = outbox_dequeue(outbox, "QUEUED")
        /\ TransporteAceita(DoItem(outbox[i]))
        /\ outbox' = outbox_set_pending(outbox, outbox[i].id, "TRANSMITTED")
  /\ UNCHANGED <<volta, assinado, recebidas, enviados, confirmados>>
  /\ UNCHANGED <<tratadorVars, estado, trava, espera_ping, entrada, perdida>>

\* The duplicate flag changes nothing for the broker, and the item stays.
Retransmite ==
  /\ Vai("reenvia", "keepalive")
  /\ outbox_dequeue(outbox, "QUEUED") = 0
  /\ Folga
  /\ \E i \in DOMAIN outbox :
        /\ i = outbox_dequeue(outbox, "TRANSMITTED")
        /\ TransporteAceita(DoItem(outbox[i]))
  /\ UNCHANGED <<volta, assinado, recebidas, enviados, confirmados>>
  /\ UNCHANGED <<tratadorVars, estado, trava, outbox, espera_ping, entrada, perdida>>

\* The loop goes on to the keepalive, on a connection now closed.
ReenviaFalha ==
  /\ Vai("reenvia", "keepalive")
  /\ outbox # <<>>
  /\ EscritaFalhaEAborta
  /\ UNCHANGED <<recebidas, enviados, confirmados, trava, outbox, entrada, perdida>>

NadaAReenviar ==
  /\ Vai("reenvia", "keepalive")
  /\ outbox_dequeue(outbox, "QUEUED") = 0
  /\ UNCHANGED <<brokerVars, tratadorVars, estado, trava, outbox, espera_ping, entrada, perdida>>

(***************************************************************************)
(* MQTT_STATE_CONNECTED: process_keepalive.                                *)
(***************************************************************************)
\* Half the keepalive time went by.
Ping ==
  /\ Vai("keepalive", "solta")
  /\ ~espera_ping /\ Folga
  /\ TransporteAceita(Curto("PINGREQ", SEM_ID))
  /\ espera_ping' = TRUE
  /\ UNCHANGED <<volta, assinado, recebidas, enviados, confirmados>>
  /\ UNCHANGED <<tratadorVars, estado, trava, outbox, entrada, perdida>>

PingFalha ==
  /\ Vai("keepalive", "solta")
  /\ ~espera_ping
  /\ EscritaFalhaEAborta
  /\ UNCHANGED <<recebidas, enviados, confirmados, trava, outbox, entrada, perdida>>

\* The whole of it went by, and the answer did not come.
SemPingresp ==
  /\ Vai("keepalive", "solta")
  /\ espera_ping
  /\ IF conexao = "viva" THEN Falha ELSE UNCHANGED falhas
  /\ Aborta
  /\ UNCHANGED <<recebidas, enviados, confirmados, trava, outbox, entrada, perdida>>

SemPressa ==
  /\ Vai("keepalive", "solta")
  /\ UNCHANGED <<brokerVars, tratadorVars, estado, trava, outbox, espera_ping, entrada, perdida>>

(***************************************************************************)
(* MQTT_STATE_WAIT_RECONNECT                                               *)
(***************************************************************************)
\* reconnect_timeout_ms went by since the connection was aborted.
Reconecta ==
  /\ Vai("espera", "solta")
  /\ estado' = "INIT"
  /\ UNCHANGED <<brokerVars, tratadorVars, trava, outbox, espera_ping, entrada, perdida>>

\* Mutant: the branch goes on to the next iteration without unlocking.
AindaEspera_presa ==
  /\ Vai("espera", "topo")
  /\ UNCHANGED <<brokerVars, tratadorVars, estado, trava, outbox, espera_ping, entrada, perdida>>

\* The wait, with the lock released.
AindaEspera ==
  /\ Vai("espera", "topo")
  /\ trava' = FALSE
  /\ UNCHANGED <<brokerVars, tratadorVars, estado, outbox, espera_ping, entrada, perdida>>

(***************************************************************************)
(* MQTT_API_UNLOCK, and what the task does without the lock.               *)
(***************************************************************************)
Solta ==
  /\ Vai("solta", "olha")
  /\ trava' = FALSE
  /\ UNCHANGED <<brokerVars, tratadorVars, estado, outbox, espera_ping, entrada, perdida>>

\* client->state is read without the lock.
Olha ==
  /\ Vai("olha", IF estado = "CONNECTED" THEN "poll" ELSE "topo")
  /\ UNCHANGED <<brokerVars, tratadorVars, estado, trava, outbox, espera_ping, entrada, perdida>>

Poll ==
  /\ Vai("poll", "topo")
  /\ conexao # "fechada"
  /\ UNCHANGED <<brokerVars, tratadorVars, estado, trava, outbox, espera_ping, entrada, perdida>>

\* The connection died, or was closed meanwhile by a publication that failed.
PollErro ==
  /\ Vai("poll", "topo")
  /\ conexao \in {"morta", "fechada"}
  /\ ~trava
  /\ Aborta
  /\ UNCHANGED <<recebidas, enviados, confirmados, falhas, trava, outbox, entrada, perdida>>

esp_mqtt_task ==
  \/ Topo \/ Vence \/ Ramo
  \/ Desiste \/ Conecta \/ ConectaFalha \/ Connack \/ ConnackFalha
  \/ Assina \/ AssinaSemMemoria
  \/ LeNada \/ LeErro \/ LeSuback \/ LePublish \/ Puback \/ PubackFalha \/ LePuback \/ LePingresp
  \/ Reenvia \/ Retransmite \/ ReenviaFalha \/ NadaAReenviar
  \/ Ping \/ PingFalha \/ SemPingresp \/ SemPressa
  \/ Reconecta \/ AindaEspera
  \/ Solta \/ Olha \/ Poll \/ PollErro

(***************************************************************************)
(* esp_mqtt_client_publish with QoS 1, called by another task, which takes *)
(* the lock for the whole of it.                                           *)
(***************************************************************************)
\* The client is not connected: the item waits, and the call succeeds.
PublicaNaFila(corpo) ==
  /\ estado # "CONNECTED"
  /\ \E id \in Ids : IdNovo(id) /\ outbox' = mqtt_enqueue(id, "PUBLISH", corpo)
  /\ UNCHANGED <<brokerVars, tratadorVars, estado, espera_ping>>

PublicaEscreve(corpo) ==
  /\ estado = "CONNECTED"
  /\ \E id \in Ids :
        /\ IdNovo(id)
        /\ outbox' = outbox_set_pending(mqtt_enqueue(id, "PUBLISH", corpo), id, "TRANSMITTED")
        /\ TransporteAceita(Pacote("PUBLISH", id, corpo))
  /\ UNCHANGED <<volta, assinado, recebidas, enviados, confirmados, tratadorVars, estado, espera_ping>>

\* The call returns -1, and the item waits to be sent by the library's task.
PublicaFalha(corpo) ==
  /\ estado = "CONNECTED"
  /\ \E id \in Ids : IdNovo(id) /\ outbox' = mqtt_enqueue(id, "PUBLISH", corpo)
  /\ EscritaFalhaEAborta
  /\ UNCHANGED <<recebidas, enviados, confirmados>>

\* No memory for the item: the call returns -1, and the message is lost.
PublicaSemMemoria ==
  /\ Falha
  /\ UNCHANGED <<conexao, ida, volta, assinado, recebidas, enviados, confirmados>>
  /\ UNCHANGED <<tratadorVars, estado, outbox, espera_ping>>

esp_mqtt_client_publish(corpo) ==
  /\ ~trava
  /\ PublicaNaFila(corpo) \/ PublicaEscreve(corpo) \/ PublicaFalha(corpo) \/ PublicaSemMemoria
  /\ UNCHANGED <<lpc, trava, entrada, perdida>>
=============================================================================
