------------------------------- MODULE MqttMsg --------------------------------
(***************************************************************************)
(* The messages of the esp-mqtt library, lib/mqtt_msg.c, and how           *)
(* esp_mqtt_client_publish hands them to the outbox and to the transport.  *)
(*                                                                         *)
(* A byte is a pair: <<"n", v>> for a number, <<"d", i>>, <<"t", i>> and   *)
(* <<"h", i>> for the i-th byte of the data, of a text and of the variable *)
(* header of CONNECT, and <<type, qos>> for the first byte of a message.   *)
(* Numbers are written in the base 2 * BASE, lengths in digits of the base *)
(* BASE with BASE added to all but the last; BASE is 128 in the code.      *)
(* A message that could not be made has the length 0.                      *)
(***************************************************************************)
EXTENDS Integers, Sequences

CONSTANTS
  BASE,        \* 128 in the code
  BUF,         \* connection->buffer_length
  TAMANHOS,    \* lengths of the payloads published
  MaxDeriva    \* bound: how far fragmented_msg_data_offset goes below zero

\* No payload is empty or needs more digits than a length may have, and the buffer
\* holds the longest message of the library's own, CONNECT.
ASSUME MsgAssumption ==
  /\ BASE \in Nat /\ BASE > 2 /\ BUF \in Nat /\ BUF >= 26
  /\ TAMANHOS \subseteq Nat
  /\ \A k \in TAMANHOS : k > 0 /\ k + 7 < BASE * BASE * BASE * BASE

VARIABLES
  m,        \* connection->outbound_message and buffer
  mpc,      \* pronto, or escreve inside the loop of esp_mqtt_client_publish
  pedido,   \* the message last asked for, or NADA if it was not written whole
  fio,      \* what the transport was given of it
  item,     \* what the outbox was given of it
  resta,    \* remaining_len
  atual,    \* current_data
  torta     \* history: a publication that had no room in the outbox left its total length

msgVars == <<m, mpc, pedido, fio, item, resta, atual, torta>>

MAX_FIXED_HEADER == 5
N(v) == <<"n", v>>
Alto(b) == b[1] = "n" /\ b[2] >= BASE
Dois(v) == <<N(v \div (2 * BASE)), N(v % (2 * BASE))>>
Valor(alto, baixo) == alto[2] * 2 * BASE + baixo[2]
Bytes(marca, k) == [i \in 1 .. k |-> <<marca, i>>]
NULO == <<<<"nulo", 0>>>>

(***************************************************************************)
(* Making a message.                                                       *)
(***************************************************************************)
\* What the buffer held before is of no matter, but it must not be sent.
VELHO == [i \in 1 .. BUF |-> <<"velho", 0>>]

set_message_header_size(msg) == [msg EXCEPT !.length = MAX_FIXED_HEADER, !.buffer = VELHO]

fail_message(msg) == [msg EXCEPT !.inicio = 0, !.length = 0]

\* Bytes copied at the end of what there is, which they may cut.
Copia(msg, s) ==
  [msg EXCEPT !.buffer = [i \in 1 .. BUF |->
                 IF i > msg.length /\ i <= msg.length + Len(s) THEN s[i - msg.length] ELSE @[i]],
              !.length = @ + Len(s)]

\* The callers give up at the first thing that does not fit.
Poe(msg, s) ==
  IF msg.length = 0 THEN msg
  ELSE IF msg.length + Len(s) > BUF THEN fail_message(msg)
  ELSE Copia(msg, s)

append_string(msg, texto) == Poe(msg, Dois(Len(texto)) \o texto)
append_message_id(msg, id) == Poe(msg, Dois(id))

\* What a digit is worth: the powers of the base.
Peso == <<1, BASE, BASE * BASE, BASE * BASE * BASE, BASE * BASE * BASE * BASE, BASE * BASE * BASE * BASE * BASE>>

\* The digits of the remaining length, the least significant first.
Digitos(n) ==
  LET k == CHOOSE j \in 1 .. 5 : n < Peso[j + 1] /\ (j = 1 \/ n >= Peso[j])
  IN  [j \in 1 .. k |-> N(((n \div Peso[j]) % BASE) + IF j < k THEN BASE ELSE 0)]

\* Mutant: the offset of the data is left where it was before the header moved.
fini_message_parado(msg, tipo) ==
  IF msg.length = 0 THEN msg ELSE
  LET corpo == msg.length - MAX_FIXED_HEADER
      lens  == Digitos(IF msg.total # 0 THEN msg.total - MAX_FIXED_HEADER ELSE corpo)
      offs  == MAX_FIXED_HEADER - 1 - Len(lens)
  IN  IF offs < 0 THEN fail_message(msg)
      ELSE [msg EXCEPT !.length = corpo + Len(lens) + 1, !.inicio = offs,
                       !.buffer = [i \in 1 .. BUF |->
                          IF i > offs /\ i <= MAX_FIXED_HEADER THEN (<<tipo>> \o lens)[i - offs] ELSE @[i]]]

\* The header is written right before the body; off moves by as much, in every
\* message, whether or not it has an offset to move.
fini_message(msg, tipo) ==
  IF msg.length = 0 THEN msg ELSE
  LET corpo == msg.length - MAX_FIXED_HEADER
      lens  == Digitos(IF msg.total # 0 THEN msg.total - MAX_FIXED_HEADER ELSE corpo)
      offs  == MAX_FIXED_HEADER - 1 - Len(lens)
  IN  IF offs < 0 THEN fail_message(msg)
      ELSE [msg EXCEPT !.length = corpo + Len(lens) + 1, !.inicio = offs, !.off = @ - offs,
                       !.buffer = [i \in 1 .. BUF |->
                          IF i > offs /\ i <= MAX_FIXED_HEADER THEN (<<tipo>> \o lens)[i - offs] ELSE @[i]]]

\* Protocol 3.1.1, no will, and the three texts that the firmware always sets.
mqtt_msg_connect(msg, client_id, username, password) ==
  fini_message(append_string(append_string(append_string(
      Poe(set_message_header_size(msg), Bytes("h", 10)), client_id), username), password), <<"CONNECT", 0>>)

mqtt_msg_publish(msg, topico, dados, id) ==
  LET c == append_message_id(append_string(set_message_header_size(msg), topico), id)
  IN  IF c.length = 0 THEN c
      ELSE fini_message(
        IF c.length + Len(dados) > BUF
          THEN [Copia(c, SubSeq(dados, 1, BUF - c.length)) EXCEPT !.off = c.length, !.total = Len(dados) + c.length]
          ELSE [Copia(c, dados) EXCEPT !.total = 0],
        <<"PUBLISH", 1>>)

mqtt_msg_puback(msg, id) ==
  fini_message(append_message_id(set_message_header_size(msg), id), <<"PUBACK", 0>>)

mqtt_msg_subscribe(msg, filtro, id) ==
  fini_message(Poe(append_string(append_message_id(set_message_header_size(msg), id), filtro), <<N(1)>>),
               <<"SUBSCRIBE", 1>>)

mqtt_msg_pingreq(msg) == fini_message(set_message_header_size(msg), <<"PINGREQ", 0>>)

(***************************************************************************)
(* Reading a message, of which b holds the first bytes.                    *)
(***************************************************************************)
Min2(a, b) == IF a < b THEN a ELSE b

\* The length of the fixed header, or what was read of it.
TamanhoFixo(b) ==
  LET S == {i \in 2 .. Len(b) : ~Alto(b[i])}
  IN  IF S = {} THEN Len(b) ELSE CHOOSE i \in S : \A j \in S : i <= j

\* Mutant: the length of the header is not a part of the total.
mqtt_get_total_length_resto(b) ==
  LET soma[i \in 1 .. TamanhoFixo(b)] ==
        IF i = 1 THEN 0 ELSE soma[i - 1] + (b[i][2] % BASE) * Peso[i - 1]
  IN  soma[TamanhoFixo(b)]

mqtt_get_total_length(b) ==
  LET soma[i \in 1 .. TamanhoFixo(b)] ==
        IF i = 1 THEN 0 ELSE soma[i - 1] + (b[i][2] % BASE) * Peso[i - 1]
  IN  soma[TamanhoFixo(b)] + TamanhoFixo(b)

TamanhoTopico(b) == Valor(b[TamanhoFixo(b) + 1], b[TamanhoFixo(b) + 2])

mqtt_get_publish_topic(b) ==
  LET i == TamanhoFixo(b) + 2
  IN  IF i >= Len(b) THEN NULO
      ELSE IF i + TamanhoTopico(b) > Len(b) THEN NULO
      ELSE SubSeq(b, i + 1, i + TamanhoTopico(b))

mqtt_get_publish_data(b) ==
  LET i == TamanhoFixo(b) + 2
      f == i + TamanhoTopico(b) + IF b[1][2] > 0 THEN 2 ELSE 0
  IN  IF i >= Len(b) THEN NULO
      ELSE IF f >= Len(b) \/ mqtt_get_total_length(b) < f THEN NULO
      ELSE SubSeq(b, f + 1, Min2(mqtt_get_total_length(b), Len(b)))

\* 0 when there is none.
mqtt_get_id(b) ==
  IF b[1][1] = "PUBLISH"
    THEN LET i == TamanhoFixo(b) + 2
         IN  IF i >= Len(b) THEN 0
             ELSE IF b[1][2] = 0 \/ i + TamanhoTopico(b) + 2 > Len(b) THEN 0
             ELSE Valor(b[i + TamanhoTopico(b) + 1], b[i + TamanhoTopico(b) + 2])
  ELSE IF b[1][1] \in {"PUBACK", "SUBACK"} /\ Len(b) >= 4
    THEN IF Alto(b[2]) THEN 0 ELSE Valor(b[3], b[4])
  ELSE 0

\* A byte that begins no message is one whose flags are not those of its type.
Tipos == {<<"CONNACK", 0>>, <<"PUBLISH", 0>>, <<"PUBLISH", 1>>, <<"PUBACK", 0>>, <<"SUBACK", 0>>, <<"PINGRESP", 0>>}
mqtt_has_valid_msg_hdr(b) == b[1] \in Tipos

(***************************************************************************)
(* The messages of the library, one after another, in one buffer.          *)
(***************************************************************************)
TOPICO == Bytes("t", 3)
ID     == 2 * BASE + 1
NADA   == [tipo |-> "NADA", k |-> 0]

MsgInit ==
  /\ m = [buffer |-> VELHO, length |-> 0, inicio |-> 0, off |-> 0, total |-> 0]
  /\ mpc = "pronto" /\ pedido = NADA
  /\ fio = <<>> /\ item = <<>> /\ resta = 0 /\ atual = 0
  /\ torta = FALSE

\* esp_mqtt_write: however many calls of the transport it takes.
Fio(msg) == SubSeq(msg.buffer, msg.inicio + 1, msg.inicio + msg.length)

Curta(tipo) ==
  CASE tipo = "CONNECT"   -> mqtt_msg_connect(m, Bytes("t", 3), Bytes("t", 1), Bytes("t", 1))
    [] tipo = "SUBSCRIBE" -> mqtt_msg_subscribe(m, TOPICO, ID)
    [] tipo = "PUBACK"    -> mqtt_msg_puback(m, ID)
    [] tipo = "PINGREQ"   -> mqtt_msg_pingreq(m)

\* A message of the library's own, made and written under one lock.
EscreveCurta ==
  /\ mpc = "pronto" /\ m.off > -MaxDeriva
  /\ \E tipo \in {"CONNECT", "SUBSCRIBE", "PUBACK", "PINGREQ"} :
        /\ m' = Curta(tipo)
        /\ pedido' = [tipo |-> tipo, k |-> 0]
  /\ fio' = Fio(m') /\ item' = fio'
  /\ torta' = (m.total # 0)
  /\ resta' = 0 /\ atual' = 0
  /\ UNCHANGED mpc

\* make_publish, and mqtt_enqueue: the item gets the whole message, the part of
\* the data that is not in the buffer included.
enqueue_publish ==
  /\ mpc = "pronto"
  /\ \E k \in TAMANHOS :
        LET p == mqtt_msg_publish(m, TOPICO, Bytes("d", k), ID)
        IN  \/ /\ m' = [p EXCEPT !.total = 0]
               /\ item' = Fio(p) \o IF p.total = 0 THEN <<>> ELSE SubSeq(Bytes("d", k), p.length - p.off + 1, k)
               /\ pedido' = [tipo |-> "PUBLISH", k |-> k]
               /\ mpc' = "escreve" /\ resta' = k
            \/ /\ m.off > -MaxDeriva /\ m' = p
               /\ pedido' = NADA
               /\ item' = <<>> /\ resta' = 0
               /\ UNCHANGED mpc
  /\ fio' = <<>> /\ atual' = 0 /\ torta' = FALSE

\* Mutant: what was sent is taken for the length of the message.
EscreveParte_tudo ==
  /\ mpc = "escreve"
  /\ fio' = fio \o Fio(m)
  /\ resta' = resta - m.length
  /\ atual' = atual + m.length
  /\ mpc' = IF resta' > 0 THEN "escreve" ELSE "pronto"
  /\ LET w == Min2(resta', BUF) IN
     m' = IF resta' > 0
            THEN Copia([m EXCEPT !.off = 0, !.inicio = 0, !.length = 0, !.buffer = VELHO], SubSeq(Bytes("d", pedido.k), atual' + 1, atual' + w))
            ELSE [m EXCEPT !.off = 0]
  /\ UNCHANGED <<pedido, item, torta>>

\* One turn of the loop: the buffer is written, and filled with the data that
\* follows.
EscreveParte ==
  /\ mpc = "escreve"
  /\ fio' = fio \o Fio(m)
  /\ resta' = resta - (m.length - m.off)
  /\ atual' = atual + (m.length - m.off)
  /\ mpc' = IF resta' > 0 THEN "escreve" ELSE "pronto"
  /\ LET w == Min2(resta', BUF) IN
     m' = IF resta' > 0
            THEN Copia([m EXCEPT !.off = 0, !.inicio = 0, !.length = 0, !.buffer = VELHO], SubSeq(Bytes("d", pedido.k), atual' + 1, atual' + w))
            ELSE [m EXCEPT !.off = 0]
  /\ UNCHANGED <<pedido, item, torta>>

\* cannot_publish: the client is not connected, or a write fails.
cannot_publish ==
  /\ mpc = "escreve" /\ m.off > -MaxDeriva
  /\ m' = [m EXCEPT !.total = 0]
  /\ mpc' = "pronto" /\ pedido' = NADA
  /\ fio' = <<>> /\ item' = <<>> /\ resta' = 0 /\ atual' = 0
  /\ UNCHANGED torta

MsgNext == EscreveCurta \/ enqueue_publish \/ EscreveParte \/ cannot_publish

-----------------------------------------------------------------------------
\* Whatever messages, finished or cut short, went through the buffer before, a
\* message written whole is one that the functions of the receiver give back as
\* it was asked for, and the outbox has the same bytes to send again; the only
\* exception is a message of the library's own after a publication that did not
\* fit the buffer and found no memory for its item (mqtt_msg.c:98-139, 439-477,
\* mqtt_client.c:2142-2155, 2219-2250).
MensagemInteira ==
  mpc = "pronto" /\ pedido # NADA /\ ~torta =>
    /\ item = fio
    /\ mqtt_get_total_length(fio) = Len(fio)
    /\ fio[1][1] = pedido.tipo
    /\ pedido.tipo \in {"PUBACK", "PUBLISH"} => mqtt_get_id(fio) = ID
    /\ pedido.tipo = "PUBLISH" =>
         /\ mqtt_get_publish_topic(fio) = TOPICO
         /\ mqtt_get_publish_data(fio) = Bytes("d", pedido.k)
=============================================================================
