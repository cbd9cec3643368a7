------------------------------- MODULE Pacotes -------------------------------
(***************************************************************************)
(* How the esp-mqtt library finds the messages in the bytes that arrive:   *)
(* mqtt_message_receive, the part of mqtt_process_receive that reads, and  *)
(* deliver_publish.  A reading of the transport returns any number of the  *)
(* bytes it asked for, or none: the rest has not arrived.  A message may   *)
(* thus be left half read, to be resumed by the next iteration of          *)
(* esp_mqtt_task, and one that does not fit in_buffer is delivered in      *)
(* pieces.                                                                 *)
(***************************************************************************)
EXTENDS MqttMsg

CONSTANTS
  BUF_ENTRADA,  \* in_buffer_length
  CARGAS,       \* lengths of the payloads that arrive
  MaxPacotes    \* bound: messages sent

\* No message needs more digits than a length may have, and in_buffer holds the
\* fixed header, the topic and the identifier of the longest publication.
ASSUME PacAssumption ==
  /\ BASE > 3 /\ BUF_ENTRADA \in Nat /\ BUF_ENTRADA >= 5
  /\ CARGAS \subseteq Nat
  /\ \A k \in CARGAS : k + 7 < BASE * BASE * BASE * BASE /\ Len(Digitos(k + 7)) + 8 <= BUF_ENTRADA

VARIABLES
  pacotes,   \* what the broker has sent, as messages
  comeco,    \* where each begins
  fluxo,     \* and as bytes
  pos,       \* bytes of it that were read
  rpc,       \* where the reading is
  ent,       \* the bytes of in_buffer, of which there are in_buffer_read_len
  antes,     \* previous_in_buffer_read_len
  alvo,      \* total_len: how much of the message is to be in in_buffer
  lidos,     \* msg_read_len of deliver_publish
  evento,    \* the last MQTT_EVENT_DATA, without its data
  junto,     \* the data of the events of this message, one after another
  feitas,    \* messages done, as they were understood
  desvio     \* history: a length was resumed after its end, or a long message was left

pacVars == <<pacotes, comeco, fluxo, pos, rpc, ent, antes, alvo, lidos, evento, junto, feitas, desvio>>

(***************************************************************************)
(* What a broker sends (external): an identifier with high bits and one    *)
(* without, and data of every relation to the buffer.                      *)
(***************************************************************************)
IDS_ == {2 * BASE + 1, BASE * (2 * BASE) + BASE + 1}
Mensagens ==
  [tipo : {"PUBLISH"}, id : {ID}, dados : {Bytes("d", k) : k \in CARGAS}]
    \cup [tipo : {"PUBACK", "SUBACK"}, id : IDS_, dados : {<<>>}]
    \cup [tipo : {"PINGRESP"}, id : {0}, dados : {<<>>}]

Conteudo(p) ==
  CASE p.tipo = "PUBLISH"  -> Dois(3) \o TOPICO \o Dois(p.id) \o p.dados
    [] p.tipo = "PUBACK"   -> Dois(p.id)
    [] p.tipo = "SUBACK"   -> Dois(p.id) \o <<N(1)>>
    [] p.tipo = "PINGRESP" -> <<>>

Codifica(p) ==
  <<<<p.tipo, IF p.tipo = "PUBLISH" THEN 1 ELSE 0>>>> \o Digitos(Len(Conteudo(p))) \o Conteudo(p)

SEM_EVENTO == [topico |-> NULO, len |-> 0, offset |-> 0, total |-> 0]

PacInit ==
  /\ pacotes = <<>> /\ comeco = <<>> /\ fluxo = <<>>
  /\ pos = 0 /\ rpc = "recebe" /\ ent = <<>> /\ antes = 0 /\ alvo = 0 /\ lidos = 0
  /\ evento = SEM_EVENTO /\ junto = <<>> /\ feitas = <<>> /\ desvio = FALSE

\* The broker sends a message, at any time.
Envia ==
  /\ Len(pacotes) < MaxPacotes
  /\ \E p \in Mensagens : pacotes' = Append(pacotes, p) /\ fluxo' = fluxo \o Codifica(p)
  /\ comeco' = Append(comeco, Len(fluxo))
  /\ UNCHANGED <<pos, rpc, ent, antes, alvo, lidos, evento, junto, feitas, desvio>>

\* esp_transport_read of up to k bytes returned r of them.
Chega(r, k) == r \in 1 .. Min2(k, Len(fluxo) - pos)
Trecho(r) == SubSeq(fluxo, pos + 1, pos + r)
Guarda(r) == pos' = pos + r /\ ent' = ent \o Trecho(r)

\* mqtt_message_receive returns -1: the connection is aborted if this call read
\* nothing at all.
Interrompida ==
  /\ rpc' = IF antes = Len(ent) THEN "abortada" ELSE "recebe"
  /\ UNCHANGED <<pacotes, comeco, fluxo, pos, ent, antes, alvo, lidos, evento, junto, feitas, desvio>>

Erro == rpc' = "erro" /\ UNCHANGED <<pacotes, comeco, fluxo, pos, ent, antes, alvo, lidos, evento, junto, feitas, desvio>>

\* Mutant: only a reading that has just begun goes on to the length.
FaltaTamanho_inicio(b) == Len(b) = 1

\* Is the next byte taken for one of the remaining length?
FaltaTamanho(b) == Len(b) = 1 \/ (Len(b) < 6 /\ Alto(b[Len(b)]))

\* The length had ended, but the last byte read looks as if it had not.
Enganado(b) == FaltaTamanho(b) /\ \E i \in 2 .. Len(b) : ~Alto(b[i])

\* The beginning of mqtt_message_receive.
Recebe ==
  /\ rpc = "recebe"
  /\ antes' = Len(ent)
  /\ rpc' = CASE ent = <<>> -> "primeiro"
              [] ent # <<>> /\ FaltaTamanho(ent) -> "tamanho"
              [] OTHER -> "total"
  /\ desvio' = (desvio \/ (ent # <<>> /\ Enganado(ent)))
  /\ UNCHANGED <<pacotes, comeco, fluxo, pos, ent, alvo, lidos, evento, junto, feitas>>

LePrimeiro ==
  /\ rpc = "primeiro"
  /\ \/ rpc' = "recebe" /\ UNCHANGED <<pacotes, comeco, fluxo, pos, ent, antes, alvo, lidos, evento, junto, feitas, desvio>>
     \/ Chega(1, 1) /\ ~mqtt_has_valid_msg_hdr(Trecho(1)) /\ Erro
     \/ /\ Chega(1, 1) /\ mqtt_has_valid_msg_hdr(Trecho(1))
        /\ Guarda(1) /\ rpc' = "tamanho"
        /\ UNCHANGED <<pacotes, comeco, fluxo, antes, alvo, lidos, evento, junto, feitas, desvio>>

LeTamanho ==
  /\ rpc = "tamanho"
  /\ \/ Interrompida
     \/ /\ Chega(1, 1) /\ Guarda(1)
        /\ rpc' = IF Len(ent') < 6 /\ Alto(ent'[Len(ent')]) THEN "tamanho" ELSE "total"
        /\ UNCHANGED <<pacotes, comeco, fluxo, antes, alvo, lidos, evento, junto, feitas, desvio>>

\* A message that does not fit has its topic read first, if it is a publication.
\* cabe leaves out the two bytes of the topic's length, as the code does: a header
\* up to two bytes longer than in_buffer passes, and mqtt_get_id then reads past
\* its end.  PacAssumption excludes such a topic, and what that reading finds is
\* not modelled.
Total ==
  /\ rpc = "total"
  /\ LET t == mqtt_get_total_length(ent)
         h == TamanhoFixo(ent)
         cabe == h + TamanhoTopico(ent) + ent[1][2] * 2 <= BUF_ENTRADA
     IN  IF t <= BUF_ENTRADA THEN alvo' = t /\ rpc' = "resto"
         ELSE IF ent[1][1] # "PUBLISH" THEN rpc' = "erro" /\ UNCHANGED alvo
         ELSE IF Len(ent) < h + 2 THEN rpc' = "topico" /\ UNCHANGED alvo
         ELSE IF cabe THEN alvo' = BUF_ENTRADA /\ rpc' = "resto"
         ELSE rpc' = "erro" /\ UNCHANGED alvo
  /\ UNCHANGED <<pacotes, comeco, fluxo, pos, ent, antes, lidos, evento, junto, feitas, desvio>>

\* The difference is added where it should be taken, so that a topic length
\* resumed at its second byte is read with two bytes too many.
LeTopico ==
  /\ rpc = "topico"
  /\ \/ Interrompida
     \/ /\ \E r \in 1 .. 3 : Chega(r, Len(ent) - TamanhoFixo(ent) + 2) /\ Guarda(r)
        /\ rpc' = IF Len(ent') < TamanhoFixo(ent) + 2 THEN "recebe" ELSE "total"
        /\ UNCHANGED <<pacotes, comeco, fluxo, antes, alvo, lidos, evento, junto, feitas, desvio>>

LeResto ==
  /\ rpc = "resto"
  /\ \/ Len(ent) < alvo /\ Interrompida
     \/ /\ \E r \in 1 .. BUF_ENTRADA : Chega(r, alvo - Len(ent)) /\ Guarda(r)
        /\ rpc' = IF Len(ent') < alvo THEN "recebe" ELSE "processa"
        /\ UNCHANGED <<pacotes, comeco, fluxo, antes, alvo, lidos, evento, junto, feitas, desvio>>
     \/ /\ Len(ent) >= alvo /\ rpc' = "processa"
        /\ UNCHANGED <<pacotes, comeco, fluxo, pos, ent, antes, alvo, lidos, evento, junto, feitas, desvio>>

Sem(s) == IF s = NULO THEN <<>> ELSE s

\* switch (msg_type), with the event of SUBACK and of what has no data.
Processa ==
  /\ rpc = "processa" /\ ent[1][1] # "PUBLISH"
  /\ feitas' = Append(feitas, [tipo |-> ent[1][1], id |-> mqtt_get_id(ent), dados |-> <<>>])
  /\ ent' = <<>> /\ rpc' = "recebe"
  /\ UNCHANGED <<pacotes, comeco, fluxo, pos, antes, alvo, lidos, evento, junto, desvio>>

\* deliver_publish, to its first event.
Entrega ==
  /\ rpc = "processa" /\ ent[1][1] = "PUBLISH"
  /\ IF mqtt_get_publish_topic(ent) = NULO
       THEN rpc' = "erro" /\ UNCHANGED <<evento, junto, lidos>>
       ELSE LET dados == Sem(mqtt_get_publish_data(ent)) IN
            /\ evento' = [topico |-> mqtt_get_publish_topic(ent), len |-> Len(dados), offset |-> 0,
                          total |-> Len(dados) + mqtt_get_total_length(ent) - Len(ent)]
            /\ junto' = dados
            /\ lidos' = Len(ent)
            /\ rpc' = IF Len(ent) < mqtt_get_total_length(ent) THEN "mais" ELSE "puback"
  /\ UNCHANGED <<pacotes, comeco, fluxo, pos, ent, antes, alvo, feitas, desvio>>

\* Mutant: the offset of a piece is the length of the one before it.
Desloca_anterior(ev) == ev.len

\* msg_data_offset += msg_data_len
Desloca(ev) == ev.offset + ev.len

\* The pieces that follow have no topic; a peer that stops for
\* network.timeout_ms is no error, and ends the delivery.
EntregaMais ==
  /\ rpc = "mais"
  /\ LET t == mqtt_get_total_length(ent) IN
     \/ /\ \E r \in 1 .. BUF_ENTRADA :
              /\ Chega(r, Min2(t - lidos, BUF_ENTRADA))
              /\ pos' = pos + r /\ lidos' = lidos + r
              /\ evento' = [evento EXCEPT !.topico = NULO, !.len = r, !.offset = Desloca(evento)]
              /\ junto' = junto \o Trecho(r)
              /\ rpc' = IF lidos + r < t THEN "mais" ELSE "puback"
        /\ UNCHANGED desvio
     \/ rpc' = "puback" /\ desvio' = TRUE /\ UNCHANGED <<pos, lidos, evento, junto>>
  /\ UNCHANGED <<pacotes, comeco, fluxo, ent, antes, alvo, feitas>>

\* The identifier was read before the pieces overwrote the buffer.
Confirma ==
  /\ rpc = "puback"
  /\ feitas' = Append(feitas, [tipo |-> "PUBLISH", id |-> mqtt_get_id(ent), dados |-> junto])
  /\ ent' = <<>> /\ junto' = <<>> /\ evento' = SEM_EVENTO /\ lidos' = 0 /\ rpc' = "recebe"
  /\ UNCHANGED <<pacotes, comeco, fluxo, pos, antes, alvo, desvio>>

PacFim == rpc \in {"erro", "abortada"} /\ UNCHANGED pacVars

PacNext ==
  \/ Envia \/ Recebe \/ LePrimeiro \/ LeTamanho \/ Total \/ LeTopico \/ LeResto
  \/ Processa \/ Entrega \/ EntregaMais \/ Confirma \/ PacFim

-----------------------------------------------------------------------------
\* However the bytes are cut by the readings, the messages done are the ones
\* sent, in order and whole, each begins where the last one ended, none is
\* refused, and a publication is acknowledged with its identifier after its
\* pieces were delivered, each at its offset; except after a length resumed past
\* its end, or a long publication whose sender stopped (mqtt_client.c:1104-1168,
\* 1255-1362, 1283, 1161).
QuadroCerto ==
  ~desvio =>
    /\ Len(feitas) <= Len(pacotes) /\ \A i \in DOMAIN feitas : feitas[i] = pacotes[i]
    /\ rpc \in {"recebe", "primeiro"} /\ ent = <<>> =>
         pos = IF Len(feitas) < Len(pacotes) THEN comeco[Len(feitas) + 1] ELSE Len(fluxo)
    /\ rpc # "erro"
    /\ evento # SEM_EVENTO =>
         /\ evento.offset + evento.len = Len(junto)
         /\ evento.total = Len(pacotes[Len(feitas) + 1].dados)
         /\ junto = SubSeq(pacotes[Len(feitas) + 1].dados, 1, Len(junto))
         /\ (evento.topico = TOPICO) = (evento.offset = 0 /\ evento.len = Len(junto) /\ lidos = Len(ent))
=============================================================================
