-------------------------------- MODULE Outbox --------------------------------
(***************************************************************************)
(* The outbox of the esp-mqtt library, lib/mqtt_outbox.c: a tail queue of  *)
(* the messages that wait to be sent, or to be acknowledged.  An outbox is *)
(* a sequence of items with the fields                                     *)
(*   id        msg_id, 16 bits drawn at random                             *)
(*   tipo      msg_type, "SUBSCRIBE" or "PUBLISH"                          *)
(*   corpo     the bytes of buffer                                         *)
(*   pendente  "QUEUED" or "TRANSMITTED"                                   *)
(* An item's tick is abstracted to whether it expired; its length only     *)
(* feeds a limit that the firmware leaves at zero, that is, unlimited.     *)
(***************************************************************************)
EXTENDS Naturals, Sequences

Itens(outbox) == {outbox[i] : i \in DOMAIN outbox}

\* The first index of a set of indices; 0 when the traversal finds none.
PrimeiroDe(S) == IF S = {} THEN 0 ELSE CHOOSE i \in S : \A j \in S : i <= j

\* STAILQ_REMOVE of the item at index i.
Remove(outbox, i) ==
  [j \in 1 .. Len(outbox) - 1 |-> outbox[IF j < i THEN j ELSE j + 1]]

outbox_enqueue(outbox, id, tipo, corpo) ==
  Append(outbox, [id |-> id, tipo |-> tipo, corpo |-> corpo, pendente |-> "QUEUED"])

\* outbox_get: the index of the first item with that id.
outbox_get(outbox, id) == PrimeiroDe({i \in DOMAIN outbox : outbox[i].id = id})

\* Mutant: what was transmitted once is not taken again.
outbox_dequeue_nunca(outbox, pendente) ==
  IF pendente = "QUEUED" THEN PrimeiroDe({i \in DOMAIN outbox : outbox[i].pendente = pendente}) ELSE 0

\* outbox_dequeue: the index of the first item in that state, left in place.
outbox_dequeue(outbox, pendente) ==
  PrimeiroDe({i \in DOMAIN outbox : outbox[i].pendente = pendente})

\* The item that an acknowledgement of the initiator tipo with that id names.
Iniciador(outbox, id, tipo) ==
  PrimeiroDe({i \in DOMAIN outbox : outbox[i].id = id /\ outbox[i].tipo = tipo})

\* Mutant: the type of the item is not compared, nor its id.
outbox_delete_primeiro(outbox, id, tipo) ==
  IF outbox = <<>> THEN outbox ELSE Remove(outbox, 1)

\* outbox_delete: ESP_FAIL, and no change, when there is no such item.
outbox_delete(outbox, id, tipo) ==
  LET i == Iniciador(outbox, id, tipo)
  IN  IF i = 0 THEN outbox ELSE Remove(outbox, i)

outbox_set_pending(outbox, id, pendente) ==
  LET i == outbox_get(outbox, id)
  IN  IF i = 0 THEN outbox ELSE [outbox EXCEPT ![i].pendente = pendente]

\* One removal of outbox_delete_expired, for the item at index i whose tick is
\* older than OUTBOX_EXPIRED_TIMEOUT_MS.
outbox_delete_expired(outbox, i) == Remove(outbox, i)

outbox_delete_all_items == <<>>
=============================================================================
