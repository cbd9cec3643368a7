-------------------------------- MODULE Broker --------------------------------
(***************************************************************************)
(* What lies beyond the transport, all of it external: the TLS connection  *)
(* that esp_transport_* gives the client, and the MQTT 3.1.1 broker.       *)
(*                                                                         *)
(* The connection is reliable and ordered while it lives.  When it dies,   *)
(* what the client had written and the broker had not read is lost, and    *)
(* what the broker had sent may be lost or still be read.  The client sets *)
(* clean_session, so the broker forgets the subscription, and the commands *)
(* it had not delivered, at every new connection.                          *)
(*                                                                         *)
(* Everything that may go wrong takes one unit of the bound MaxFalhas.     *)
(***************************************************************************)
EXTENDS Outbox

CONSTANTS
  Comandos,    \* commands published by others on the topic of the mode
  MaxVoo,      \* bound: packets under way beyond which none is sent again
  MaxFalhas    \* bound: failures, of any kind, in a behaviour

ASSUME BrokerAssumption == MaxVoo \in Nat /\ MaxFalhas \in Nat

VARIABLES
  conexao,      \* fechada, viva, truncada (a packet was cut short) or morta
  ida, volta,   \* packets on their way to the broker, and back
  assinado,     \* the broker has the subscription of this connection
  recebidas,    \* publications the broker has received
  enviados,     \* commands the broker has sent to the client
  confirmados,  \* commands whose PUBACK the broker has received
  falhas        \* failures so far

brokerVars == <<conexao, ida, volta, assinado, recebidas, enviados, confirmados, falhas>>

\* id of a packet without identifier, body of a packet without body
SEM_ID == 0
Pacote(tipo, id, corpo) == [tipo |-> tipo, id |-> id, corpo |-> corpo]
Curto(tipo, id) == Pacote(tipo, id, SEM_ID)

BrokerInit ==
  /\ conexao = "fechada"
  /\ ida = <<>> /\ volta = <<>>
  /\ assinado = FALSE
  /\ recebidas = {} /\ enviados = {} /\ confirmados = {}
  /\ falhas = 0

Falha == falhas < MaxFalhas /\ falhas' = falhas + 1

(***************************************************************************)
(* The broker reads one packet, and answers it.                            *)
(***************************************************************************)
Responde(p) == volta' = Append(volta, p)

RecebeConnect(p) ==
  /\ p.tipo = "CONNECT"
  /\ assinado' = FALSE
  /\ \/ Responde(Curto("CONNACK", SEM_ID)) /\ UNCHANGED falhas
     \/ Responde(Curto("CONNACK_RECUSADO", SEM_ID)) /\ Falha
  /\ UNCHANGED <<recebidas, confirmados>>

\* A refused subscription is answered with a return code of 0x80.
RecebeSubscribe(p) ==
  /\ p.tipo = "SUBSCRIBE"
  /\ \/ assinado' = TRUE /\ Responde(Curto("SUBACK", p.id)) /\ UNCHANGED falhas
     \/ Responde(Curto("SUBACK_RECUSADO", p.id)) /\ Falha /\ UNCHANGED assinado
  /\ UNCHANGED <<recebidas, confirmados>>

RecebePublish(p) ==
  /\ p.tipo = "PUBLISH"
  /\ recebidas' = recebidas \cup {p.corpo}
  /\ Responde(Curto("PUBACK", p.id))
  /\ UNCHANGED <<assinado, confirmados, falhas>>

RecebePuback(p) ==
  /\ p.tipo = "PUBACK"
  /\ confirmados' = confirmados \cup {p.id}
  /\ UNCHANGED <<volta, assinado, recebidas, falhas>>

RecebePingreq(p) ==
  /\ p.tipo = "PINGREQ"
  /\ Responde(Curto("PINGRESP", SEM_ID))
  /\ UNCHANGED <<assinado, recebidas, confirmados, falhas>>

BrokerRecebe ==
  /\ conexao = "viva" /\ ida # <<>>
  /\ ida' = Tail(ida)
  /\ LET p == Head(ida) IN
     RecebeConnect(p) \/ RecebeSubscribe(p) \/ RecebePublish(p) \/ RecebePuback(p) \/ RecebePingreq(p)
  /\ UNCHANGED <<conexao, enviados>>

\* A command is published for a subscriber, with QoS 1; the command itself
\* stands for the identifier the broker gives the packet.
BrokerEnvia ==
  /\ conexao = "viva" /\ assinado
  /\ \E c \in Comandos \ enviados :
        /\ enviados' = enviados \cup {c}
        /\ volta' = Append(volta, Pacote("PUBLISH", c, c))
  /\ UNCHANGED <<conexao, ida, assinado, recebidas, confirmados, falhas>>

\* The connection dies, or the broker closes one whose packets make no sense.
Cai ==
  /\ \/ conexao = "viva" /\ Falha
     \/ conexao = "truncada" /\ UNCHANGED falhas
  /\ conexao' = "morta"
  /\ ida' = <<>>
  /\ volta' \in {volta, <<>>}
  /\ assinado' = FALSE
  /\ UNCHANGED <<recebidas, enviados, confirmados>>

BrokerNext == BrokerRecebe \/ BrokerEnvia \/ Cai

(***************************************************************************)
(* The transport, as esp_mqtt_write and esp_transport_close find it.       *)
(***************************************************************************)
\* The whole packet is taken: by a peer that will read it, or by nobody.
TransporteAceita(p) ==
  /\ conexao # "fechada"
  /\ ida' = IF conexao = "viva" THEN Append(ida, p) ELSE ida
  /\ UNCHANGED <<conexao, falhas>>

\* A negative count, only on a connection that is dead or closed; or a count of
\* zero after network.timeout_ms.  For the callers that abort the connection.
TransporteFalha ==
  \/ conexao \in {"morta", "fechada"} /\ UNCHANGED falhas
  \/ conexao # "fechada" /\ Falha

\* Nothing, or a part of the packet, is written within network.timeout_ms, and
\* the connection stays open.
TransporteTimeout ==
  /\ conexao # "fechada" /\ Falha
  /\ conexao' \in IF conexao = "viva" THEN {"viva", "truncada"} ELSE {conexao}
  /\ UNCHANGED ida

\* Is there room for a packet the client may as well send later?
Folga == Len(ida) + Len(volta) < MaxVoo

\* esp_transport_close()
TransporteFecha == conexao' = "fechada" /\ ida' = <<>> /\ volta' = <<>> /\ assinado' = FALSE
=============================================================================
