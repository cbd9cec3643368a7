------------------------------ MODULE MqttProofs ------------------------------
(***************************************************************************)
(* Proofs about the MQTT client, for any number of publications, commands, *)
(* failures and identifiers; and about how it is created, whatever fails.  *)
(***************************************************************************)
EXTENDS MqttClient, Inicio, SequenceTheorems, WellFoundedInduction, TLAPS

-----------------------------------------------------------------------------
(***************************************************************************)
(* The lock, the state of the client and the flag of the firmware.         *)
(***************************************************************************)
Estados == {"INIT", "CONNECTED", "WAIT_RECONNECT", "DISCONNECTED"}

\* While the task works under the lock in a branch of its switch, the state is
\* the one that chose the branch.
LockInv ==
  /\ estado \in Estados
  /\ lpc \in ComLock \cup {"topo", "olha", "poll", "fim"}
  /\ trava <=> lpc \in ComLock
  /\ trava \in BOOLEAN
  /\ s_connected \in BOOLEAN
  /\ s_connected => estado = "CONNECTED"
  /\ estado = "DISCONNECTED" => lpc = "fim"
  /\ lpc = "conecta" => estado = "INIT"
  /\ lpc = "espera" => estado = "WAIT_RECONNECT"

\* What a step of the library's task may do to these variables.
LEMMA LockTarefa == LockInv /\ esp_mqtt_task => LockInv'
<1> SUFFICES ASSUME LockInv, esp_mqtt_task PROVE LockInv'
  OBVIOUS
<1> USE DEF LockInv, Estados, ComLock, Vai, tratadorVars, brokerVars
<1>1. CASE Topo \/ Solta \/ AindaEspera
  <2>1. \/ lpc = "topo" /\ lpc' = "vence" /\ trava' = TRUE
        \/ lpc = "solta" /\ lpc' = "olha" /\ trava' = FALSE
        \/ lpc = "espera" /\ lpc' = "topo" /\ trava' = FALSE
    BY <1>1 DEF Topo, Solta, AindaEspera
  <2>2. UNCHANGED <<estado, s_connected>>
    BY <1>1 DEF Topo, Solta, AindaEspera
  <2> QED
    BY <2>1, <2>2
<1>2. CASE Vence
  BY <1>2 DEF Vence
<1>3. CASE Ramo \/ Olha
  BY <1>3 DEF Ramo, Olha
<1>4. CASE Desiste
  <2>1. ~s_connected
    BY <1>4 DEF Desiste
  <2> QED
    BY <1>4, <2>1 DEF Desiste, DepoisDoLaco
<1>5. CASE Conecta \/ AssinaSemMemoria \/ LeNada
  BY <1>5 DEF Conecta, AssinaSemMemoria, LeNada
<1>6. CASE Connack
  BY <1>6 DEF Connack, EstadoAoConectar, EventoConnected
<1>7. CASE ConectaFalha \/ ConnackFalha \/ LeErro \/ PubackFalha \/ ReenviaFalha \/ PingFalha \/ SemPingresp \/ PollErro
  <2>1. Aborta
    BY <1>7 DEF ConectaFalha, ConnackFalha, LeErro, PubackFalha, ReenviaFalha, PingFalha, SemPingresp, PollErro, EscritaFalhaEAborta
  <2>2. estado' = "WAIT_RECONNECT" /\ s_connected' = FALSE
    BY <2>1 DEF Aborta, EventoDisconnected
  <2>3. /\ trava' = trava
        /\ \/ lpc' \in {"solta", "keepalive"} /\ lpc \in ComLock
           \/ lpc' = "topo" /\ lpc \notin ComLock
    BY <1>7 DEF ConectaFalha, ConnackFalha, LeErro, PubackFalha, ReenviaFalha, PingFalha, SemPingresp, PollErro
  <2> QED
    BY <2>2, <2>3
<1>8. CASE Assina
  <2>1. UNCHANGED tratadorVars \/ ErroDeTransporte
    BY <1>8, Zenon DEF Assina
  <2>2. s_connected' = s_connected \/ s_connected' = FALSE
    BY <2>1 DEF ErroDeTransporte, EventoError
  <2> QED
    <3>1. Vai("assina", "solta") /\ UNCHANGED <<estado, trava, espera_ping, entrada, perdida>>
      BY <1>8, Zenon DEF Assina
    <3>2. s_connected' \in BOOLEAN /\ (s_connected' => estado = "CONNECTED")
      <4>1. CASE s_connected' = FALSE
        BY <4>1
      <4>2. CASE s_connected' = s_connected
        BY <4>2
      <4> QED
        BY <2>2, <4>1, <4>2
    <3>3. lpc = "assina" /\ lpc' = "solta" /\ estado' = estado /\ trava' = trava
      BY <3>1
    <3> QED
      BY <3>2, <3>3
<1>9. CASE LeSuback \/ LePublish \/ LePuback \/ LePingresp
  <2>1. s_connected' = s_connected
    <3>1. CASE LeSuback \/ LePublish \/ LePingresp
      BY <3>1 DEF LeSuback, LePublish, LePingresp, EventoSubscribed, Entrega, EventoData
    <3>2. CASE LePuback
      <4>1. UNCHANGED tratadorVars \/ \E corpo : EventoPublished(corpo)
        BY <3>2, Zenon DEF LePuback
      <4> QED
        BY <4>1 DEF EventoPublished
    <3> QED
      BY <1>9, <3>1, <3>2
  <2>2. lpc = "recebe" /\ lpc' \in {"reenvia", "puback"} /\ UNCHANGED <<estado, trava>>
    BY <1>9 DEF LeSuback, LePublish, LePuback, LePingresp, Le
  <2> QED
    BY <2>1, <2>2
<1>10. CASE Puback \/ Reenvia \/ Retransmite \/ NadaAReenviar
  BY <1>10 DEF Puback, Reenvia, Retransmite, NadaAReenviar
<1>11. CASE Ping \/ SemPressa \/ Reconecta \/ Poll
  BY <1>11 DEF Ping, SemPressa, Reconecta, Poll
<1> QED
  BY <1>1, <1>2, <1>3, <1>4, <1>5, <1>6, <1>7, <1>8, <1>9, <1>10, <1>11 DEF esp_mqtt_task

LEMMA LockPasso == LockInv /\ [Next]_todas => LockInv'
<1> SUFFICES ASSUME LockInv, [Next]_todas PROVE LockInv'
  OBVIOUS
<1>1. CASE esp_mqtt_task
  BY <1>1, LockTarefa
<1>2. CASE BrokerNext /\ UNCHANGED <<tratadorVars, libVars, cpc, n>>
  BY <1>2 DEF LockInv, tratadorVars, libVars
<1>3. CASE Publica
  <2>1. ~trava /\ UNCHANGED <<lpc, trava>>
    BY <1>3 DEF Publica, esp_mqtt_client_publish
  <2>2. \/ UNCHANGED <<estado, s_connected>>
        \/ estado = "CONNECTED" /\ estado' = "WAIT_RECONNECT" /\ s_connected' = FALSE
    <3>1. CASE PublicaNaFila(n) \/ PublicaEscreve(n) \/ PublicaSemMemoria
      BY <3>1 DEF PublicaNaFila, PublicaEscreve, PublicaSemMemoria, tratadorVars
    <3>2. CASE PublicaFalha(n)
      BY <3>2, Zenon DEF PublicaFalha, EscritaFalhaEAborta, Aborta, EventoDisconnected
    <3> QED
      BY <1>3, <3>1, <3>2 DEF Publica, esp_mqtt_client_publish
  <2> QED
    <3>1. lpc \notin {"conecta", "espera"}
      BY <2>1 DEF LockInv, ComLock
    <3>2. CASE UNCHANGED <<estado, s_connected>>
      BY <2>1, <3>1, <3>2 DEF LockInv
    <3>3. CASE estado = "CONNECTED" /\ estado' = "WAIT_RECONNECT" /\ s_connected' = FALSE
      BY <2>1, <3>1, <3>3 DEF LockInv, Estados
    <3> QED
      BY <2>2, <3>2, <3>3
<1>4. CASE Ignora \/ Monta \/ UNCHANGED todas
  BY <1>4 DEF LockInv, Ignora, Monta, todas, vars, tratadorVars, libVars
<1> QED
  BY <1>1, <1>2, <1>3, <1>4 DEF Next, mqttclient_publish_telemetry

\* No order of errors, aborts and reconnections leaves the flag of the firmware
\* up over a client that is not connected, once the lock is free.
THEOREM MqttConectado == Spec => []ConectadoCoerente
<1>1. Init => LockInv
  BY DEF Init, LibInit, TratadorInit, LockInv, Estados, ComLock
<1>2. LockInv => ConectadoCoerente
  BY DEF LockInv, ConectadoCoerente
<1> QED
  BY <1>1, <1>2, LockPasso, PTL DEF Spec

-----------------------------------------------------------------------------
(***************************************************************************)
(* Sequences and what they hold.                                           *)
(***************************************************************************)
LEMMA ItensVazio == Itens(<<>>) = {} /\ \A S : <<>> \in Seq(S)
BY EmptySeq DEF Itens

LEMMA ItensAnexo ==
  ASSUME NEW S, NEW s \in Seq(S), NEW e \in S
  PROVE  Append(s, e) \in Seq(S) /\ Itens(Append(s, e)) = Itens(s) \cup {e}
<1>1. /\ Append(s, e) \in Seq(S) /\ Len(Append(s, e)) = Len(s) + 1
      /\ \A i \in 1 .. Len(s) : Append(s, e)[i] = s[i]
      /\ Append(s, e)[Len(s) + 1] = e
  BY AppendProperties
<1>2. Len(s) \in Nat /\ DOMAIN s = 1 .. Len(s) /\ DOMAIN Append(s, e) = 1 .. Len(s) + 1
  BY <1>1, LenProperties
<1>3. 1 .. Len(s) + 1 = (1 .. Len(s)) \cup {Len(s) + 1}
  BY <1>2
<1> QED
  BY <1>1, <1>2, <1>3 DEF Itens

LEMMA ItensCauda ==
  ASSUME NEW S, NEW s \in Seq(S), s # <<>>
  PROVE  /\ Tail(s) \in Seq(S) /\ Head(s) \in S
         /\ Itens(s) = Itens(Tail(s)) \cup {Head(s)}
<1>1. /\ Tail(s) \in Seq(S) /\ Head(s) \in S /\ Len(s) \in Nat \ {0} /\ DOMAIN s = 1 .. Len(s)
      /\ Head(s) = s[1] /\ Len(Tail(s)) = Len(s) - 1
      /\ \A i \in 1 .. Len(Tail(s)) : Tail(s)[i] = s[i + 1]
  BY HeadTailProperties, EmptySeq, LenProperties
<1>2. DOMAIN Tail(s) = 1 .. Len(s) - 1
  BY <1>1, LenProperties
<1>3. ASSUME NEW x \in Itens(s) PROVE x \in Itens(Tail(s)) \cup {Head(s)}
  <2>1. PICK i \in 1 .. Len(s) : x = s[i]
    BY <1>1 DEF Itens
  <2>2. CASE i = 1
    BY <1>1, <2>1, <2>2
  <2>3. CASE i # 1
    <3>1. i - 1 \in 1 .. Len(s) - 1 /\ (i - 1) + 1 = i
      BY <1>1, <2>3
    <3> QED
      BY <1>1, <1>2, <2>1, <3>1 DEF Itens
  <2> QED
    BY <2>2, <2>3
<1>4. ASSUME NEW x \in Itens(Tail(s)) PROVE x \in Itens(s)
  <2>1. PICK i \in 1 .. Len(s) - 1 : x = Tail(s)[i]
    BY <1>2 DEF Itens
  <2>2. i + 1 \in 1 .. Len(s) /\ i \in 1 .. Len(Tail(s))
    BY <1>1
  <2> QED
    BY <1>1, <2>1, <2>2 DEF Itens
<1>5. Head(s) \in Itens(s)
  BY <1>1 DEF Itens
<1> QED
  BY <1>1, <1>3, <1>4, <1>5

\* What a traversal finds is the first of what it looks for.
LEMMA Primeiro ==
  ASSUME NEW S \in SUBSET (Nat \ {0})
  PROVE  /\ PrimeiroDe(S) \in S \cup {0}
         /\ PrimeiroDe(S) = 0 <=> S = {}
<1>1. CASE S = {}
  BY <1>1 DEF PrimeiroDe
<1>2. CASE S # {}
  <2>1. \E i \in S : \A j \in S : i <= j
    <3> DEFINE Menor == {ss \in Nat \X Nat : ss[1] < ss[2]}
    <3>1. IsWellFoundedOn(Menor, Nat)
      BY NatLessThanWellFounded DEF OpToRel
    <3>2. \E i \in S : \A j \in S : ~(<<j, i>> \in Menor)
      <4> HIDE DEF Menor
      <4> QED
        BY <1>2, <3>1, WFMin
    <3>3. PICK i \in S : \A j \in S : ~(<<j, i>> \in Menor)
      BY <3>2
    <3>4. ASSUME NEW j \in S PROVE i <= j
      <4>1. <<j, i>> \in Nat \X Nat /\ ~(<<j, i>> \in Menor)
        BY <3>3
      <4>2. ~(j < i)
        BY <4>1
      <4> QED
        BY <4>2
    <3> QED
      BY <3>4
  <2>2. PrimeiroDe(S) \in S
    BY <1>2, <2>1 DEF PrimeiroDe
  <2> QED
    BY <1>2, <2>2
<1> QED
  BY <1>1, <1>2

-----------------------------------------------------------------------------
(***************************************************************************)
(* The outbox.  What matters of an item is its key: its state does not     *)
(* change what it will be sent as, nor what acknowledges it.               *)
(***************************************************************************)
Chaves(o) == {<<x.id, x.tipo, x.corpo>> : x \in Itens(o)}

\* No two publications that wait have the same body.
Distintas(o) ==
  \A i, j \in DOMAIN o :
    o[i].tipo = "PUBLISH" /\ o[j].tipo = "PUBLISH" /\ o[i].corpo = o[j].corpo => i = j

LEMMA CorposDaUniao ==
  ASSUME NEW A, NEW x
  PROVE  Corpos(A \cup {x}) = Corpos(A) \cup IF x.tipo = "PUBLISH" THEN {x.corpo} ELSE {}
BY DEF Corpos

LEMMA AnexaItem ==
  ASSUME NEW o \in Seq(Item), NEW id \in Ids, NEW tipo \in {"SUBSCRIBE", "PUBLISH"}, NEW corpo \in Nat
  PROVE  LET r == outbox_enqueue(o, id, tipo, corpo) IN
         /\ r \in Seq(Item)
         /\ Chaves(r) = Chaves(o) \cup {<<id, tipo, corpo>>}
         /\ tipo = "PUBLISH" => Corpos(Itens(r)) = Corpos(Itens(o)) \cup {corpo}
         /\ tipo # "PUBLISH" => Corpos(Itens(r)) = Corpos(Itens(o))
         /\ Distintas(o) /\ (tipo = "PUBLISH" => corpo \notin Corpos(Itens(o))) => Distintas(r)
<1> DEFINE e == [id |-> id, tipo |-> tipo, corpo |-> corpo, pendente |-> "QUEUED"]
           r == Append(o, e)
<1>1. e \in Item
  BY DEF Item
<1>2. r \in Seq(Item) /\ Itens(r) = Itens(o) \cup {e}
  BY <1>1, ItensAnexo
<1>3. Chaves(r) = Chaves(o) \cup {<<id, tipo, corpo>>}
  BY <1>2 DEF Chaves
<1>4. /\ tipo = "PUBLISH" => Corpos(Itens(r)) = Corpos(Itens(o)) \cup {corpo}
      /\ tipo # "PUBLISH" => Corpos(Itens(r)) = Corpos(Itens(o))
  BY <1>2, CorposDaUniao
<1>5. ASSUME Distintas(o), tipo = "PUBLISH" => corpo \notin Corpos(Itens(o))
      PROVE  Distintas(r)
  <2>1. /\ Len(o) \in Nat /\ DOMAIN o = 1 .. Len(o) /\ DOMAIN r = 1 .. Len(o) + 1
        /\ \A i \in 1 .. Len(o) : r[i] = o[i]
        /\ r[Len(o) + 1] = e
    BY <1>1, <1>2, AppendProperties, LenProperties
  <2> SUFFICES ASSUME NEW i \in 1 .. Len(o) + 1, NEW j \in 1 .. Len(o) + 1,
                      r[i].tipo = "PUBLISH", r[j].tipo = "PUBLISH", r[i].corpo = r[j].corpo
               PROVE  i = j
    BY <2>1 DEF Distintas
  <2>2. ASSUME NEW k \in 1 .. Len(o), o[k].tipo = "PUBLISH" PROVE o[k].corpo \in Corpos(Itens(o))
    BY <2>1, <2>2 DEF Corpos, Itens
  <2>3. (i \in 1 .. Len(o) \/ i = Len(o) + 1) /\ (j \in 1 .. Len(o) \/ j = Len(o) + 1)
    BY <2>1
  <2>4. CASE i \in 1 .. Len(o) /\ j \in 1 .. Len(o)
    BY <1>5, <2>1, <2>4 DEF Distintas
  <2>5. CASE i = Len(o) + 1 /\ j \in 1 .. Len(o)
    BY <1>5, <2>1, <2>2, <2>5
  <2>6. CASE i \in 1 .. Len(o) /\ j = Len(o) + 1
    BY <1>5, <2>1, <2>2, <2>6
  <2> QED
    BY <2>3, <2>4, <2>5, <2>6
<1> HIDE DEF r
<1>6. r = outbox_enqueue(o, id, tipo, corpo)
  BY DEF outbox_enqueue, r
<1> QED
  BY <1>2, <1>3, <1>4, <1>5, <1>6

\* An item marked as transmitted is the same item.
LEMMA MarcaItem ==
  ASSUME NEW o \in Seq(Item), NEW id
  PROVE  LET r == outbox_set_pending(o, id, "TRANSMITTED") IN
         /\ r \in Seq(Item)
         /\ Chaves(r) = Chaves(o)
         /\ Corpos(Itens(r)) = Corpos(Itens(o))
         /\ Distintas(o) => Distintas(r)
<1> DEFINE i == outbox_get(o, id)
           r == outbox_set_pending(o, id, "TRANSMITTED")
<1>0. Len(o) \in Nat /\ DOMAIN o = 1 .. Len(o) /\ o \in [1 .. Len(o) -> Item]
  BY LenProperties, ElementOfSeq
<1>1. i \in (1 .. Len(o)) \cup {0}
  BY <1>0, Primeiro DEF outbox_get
<1>2. CASE i = 0
  BY <1>2 DEF outbox_set_pending
<1>3. CASE i # 0
  <2>1. r = [o EXCEPT ![i].pendente = "TRANSMITTED"]
    BY <1>3 DEF outbox_set_pending
  <2>2. r = [o EXCEPT ![i] = [o[i] EXCEPT !.pendente = "TRANSMITTED"]]
    BY <2>1
  <2>3. i \in 1 .. Len(o) /\ o[i] \in Item
    BY <1>0, <1>1, <1>3
  <2> DEFINE e == [o[i] EXCEPT !.pendente = "TRANSMITTED"]
  <2>4. e \in Item /\ e.id = o[i].id /\ e.tipo = o[i].tipo /\ e.corpo = o[i].corpo
    BY <2>3 DEF Item
  <2> HIDE DEF e, i
  <2>5. /\ DOMAIN r = 1 .. Len(o)
        /\ \A j \in 1 .. Len(o) : r[j] = IF j = i THEN e ELSE o[j]
    BY <1>0, <2>2, <2>3 DEF e
  <2>6. r \in [1 .. Len(o) -> Item]
    BY <1>0, <2>2, <2>3, <2>4 DEF e
  <2> HIDE DEF r
  <2>7. r \in Seq(Item)
    BY <1>0, <2>6, SeqDef
  <2>8. \A j \in 1 .. Len(o) : r[j].id = o[j].id /\ r[j].tipo = o[j].tipo /\ r[j].corpo = o[j].corpo
    BY <2>4, <2>5
  <2>9. Chaves(r) = Chaves(o)
    BY <1>0, <2>5, <2>8 DEF Chaves, Itens
  <2>10. Corpos(Itens(r)) = Corpos(Itens(o))
    BY <1>0, <2>5, <2>8 DEF Corpos, Itens
  <2>11. Distintas(o) => Distintas(r)
    BY <1>0, <2>5, <2>8 DEF Distintas
  <2> QED
    BY <2>7, <2>9, <2>10, <2>11 DEF r
<1> QED
  BY <1>2, <1>3

\* An item removed from a list of different publications takes its body away.
LEMMA RetiraItem ==
  ASSUME NEW o \in Seq(Item), NEW i \in DOMAIN o
  PROVE  LET r == Remove(o, i) IN
         /\ o[i] \in Itens(o) /\ o[i] \in Item
         /\ r \in Seq(Item)
         /\ Itens(r) \subseteq Itens(o)
         /\ Distintas(o) => Distintas(r)
         /\ o[i].tipo # "PUBLISH" => Corpos(Itens(r)) = Corpos(Itens(o))
         /\ o[i].tipo = "PUBLISH" /\ Distintas(o) => Corpos(Itens(r)) = Corpos(Itens(o)) \ {o[i].corpo}
<1> DEFINE r == Remove(o, i)
           De(j) == IF j < i THEN j ELSE j + 1
<1>1. Len(o) \in Nat /\ DOMAIN o = 1 .. Len(o) /\ o \in [1 .. Len(o) -> Item] /\ i \in 1 .. Len(o)
  BY LenProperties, ElementOfSeq
<1>2. Len(o) - 1 \in Nat /\ \A j \in 1 .. Len(o) - 1 : De(j) \in 1 .. Len(o) /\ De(j) # i
  BY <1>1
<1>3. r = [j \in 1 .. Len(o) - 1 |-> o[De(j)]]
  BY DEF Remove
<1>4. \A j \in 1 .. Len(o) : j # i => \E k \in 1 .. Len(o) - 1 : De(k) = j
  <2> SUFFICES ASSUME NEW j \in 1 .. Len(o), j # i PROVE \E k \in 1 .. Len(o) - 1 : De(k) = j
    OBVIOUS
  <2>1. CASE j < i
    BY <1>1, <2>1
  <2>2. CASE j > i
    <3>1. j - 1 \in 1 .. Len(o) - 1 /\ De(j - 1) = j
      BY <1>1, <2>2
    <3> QED
      BY <3>1
  <2> QED
    BY <1>1, <2>1, <2>2
<1>5. \A j, k \in 1 .. Len(o) - 1 : De(j) = De(k) => j = k
  BY <1>1
<1> HIDE DEF r, De
<1>6. r \in [1 .. Len(o) - 1 -> Item] /\ DOMAIN r = 1 .. Len(o) - 1 /\ \A j \in 1 .. Len(o) - 1 : r[j] = o[De(j)]
  BY <1>1, <1>2, <1>3
<1>7. r \in Seq(Item)
  BY <1>2, <1>6, SeqDef
<1>8. \A x : x \in Itens(r) <=> \E j \in 1 .. Len(o) : j # i /\ x = o[j]
  <2> TAKE x
  <2>1. x \in Itens(r) <=> \E k \in 1 .. Len(o) - 1 : x = o[De(k)]
    BY <1>6 DEF Itens
  <2>2. ASSUME NEW k \in 1 .. Len(o) - 1, x = o[De(k)] PROVE \E j \in 1 .. Len(o) : j # i /\ x = o[j]
    BY <1>2, <2>2
  <2>3. ASSUME NEW j \in 1 .. Len(o), j # i, x = o[j] PROVE \E k \in 1 .. Len(o) - 1 : x = o[De(k)]
    BY <1>4, <2>3
  <2> QED
    BY <2>1, <2>2, <2>3
<1>9. \A x : x \in Itens(o) <=> \E j \in 1 .. Len(o) : x = o[j]
  BY <1>1 DEF Itens
<1>10. Itens(r) \subseteq Itens(o) /\ o[i] \in Itens(o) /\ o[i] \in Item
  BY <1>1, <1>8, <1>9
<1>11. Distintas(o) => Distintas(r)
  BY <1>1, <1>2, <1>5, <1>6 DEF Distintas
<1>12. o[i].tipo # "PUBLISH" => Corpos(Itens(r)) = Corpos(Itens(o))
  BY <1>8, <1>9 DEF Corpos
<1>13. ASSUME o[i].tipo = "PUBLISH", Distintas(o)
       PROVE  Corpos(Itens(r)) = Corpos(Itens(o)) \ {o[i].corpo}
  <2>1. ASSUME NEW c \in Corpos(Itens(r)) PROVE c \in Corpos(Itens(o)) /\ c # o[i].corpo
    <3>1. PICK j \in 1 .. Len(o) : j # i /\ o[j].tipo = "PUBLISH" /\ c = o[j].corpo
      BY <1>8 DEF Corpos
    <3> QED
      BY <1>1, <1>9, <1>13, <3>1 DEF Corpos, Distintas
  <2>2. ASSUME NEW c \in Corpos(Itens(o)), c # o[i].corpo PROVE c \in Corpos(Itens(r))
    BY <1>8, <1>9, <2>2 DEF Corpos
  <2> QED
    BY <2>1, <2>2
<1> QED
  BY <1>7, <1>10, <1>11, <1>12, <1>13 DEF r

-----------------------------------------------------------------------------
(***************************************************************************)
(* What a step does to the packets, the outbox and the histories.          *)
(***************************************************************************)
Mudo == UNCHANGED <<recebidas, enviados, confirmados, aplicados, publicadas>>

Parado == UNCHANGED <<ida, volta, outbox>> /\ Mudo
Corta == ida' = <<>> /\ volta' \in {volta, <<>>} /\ UNCHANGED outbox /\ Mudo
Acaba == ida' = <<>> /\ volta' = <<>> /\ outbox' = <<>> /\ Mudo
Recomeca == ida' = <<Curto("CONNECT", SEM_ID)>> /\ volta' = <<>> /\ UNCHANGED outbox /\ Mudo
Retira == \E i \in DOMAIN outbox : outbox' = Remove(outbox, i) /\ UNCHANGED <<ida, volta>> /\ Mudo
Escreve(p) == ida' \in {ida, Append(ida, p)} /\ UNCHANGED <<volta, outbox>> /\ Mudo
EscreveItem ==
  \E i \in DOMAIN outbox :
    /\ ida' \in {ida, Append(ida, DoItem(outbox[i]))}
    /\ outbox' \in {outbox, outbox_set_pending(outbox, outbox[i].id, "TRANSMITTED")}
    /\ UNCHANGED volta /\ Mudo
Pede ==
  \E id \in Ids :
    /\ IdNovo(id)
    /\ outbox' = outbox_set_pending(outbox_enqueue(outbox, id, "SUBSCRIBE", SEM_ID), id, "TRANSMITTED")
    /\ ida' \in {ida, Append(ida, Curto("SUBSCRIBE", id))}
    /\ UNCHANGED volta /\ Mudo
Descarta == volta # <<>> /\ volta' = Tail(volta) /\ UNCHANGED <<ida, outbox>> /\ Mudo

LEMMA EfeitoAborta ==
  /\ Aborta /\ UNCHANGED <<recebidas, enviados, confirmados, outbox>> => Corta
  /\ EscritaFalhaEAborta /\ UNCHANGED <<recebidas, enviados, confirmados, outbox>> => Corta
BY DEF Aborta, EscritaFalhaEAborta, TransporteFecha, EventoDisconnected, Corta, Mudo

LEMMA EfeitoTarefa ==
  esp_mqtt_task =>
    \/ Parado \/ Corta \/ Acaba \/ Recomeca \/ Retira \/ EscreveItem \/ Pede \/ Descarta
    \/ Escreve(Curto("PINGREQ", SEM_ID))
    \/ Escreve(Curto("PUBACK", entrada)) /\ lpc = "puback"
    \/ LeSuback \/ LePublish \/ LePuback
<1> SUFFICES ASSUME esp_mqtt_task, ~LeSuback, ~LePublish, ~LePuback
             PROVE  \/ Parado \/ Corta \/ Acaba \/ Recomeca \/ Retira \/ EscreveItem \/ Pede \/ Descarta
                    \/ Escreve(Curto("PINGREQ", SEM_ID))
                    \/ Escreve(Curto("PUBACK", entrada)) /\ lpc = "puback"
  OBVIOUS
<1> USE DEF Mudo, brokerVars, tratadorVars
<1>1. CASE Topo \/ Ramo \/ LeNada \/ NadaAReenviar \/ SemPressa \/ Reconecta \/ AindaEspera \/ Solta \/ Olha \/ Poll
  BY <1>1 DEF Topo, Ramo, LeNada, NadaAReenviar, SemPressa, Reconecta, AindaEspera, Solta, Olha, Poll, Parado
<1>2. CASE Vence
  <2>1. UNCHANGED <<ida, volta>> /\ Mudo
    BY <1>2 DEF Vence
  <2>2. \E i \in DOMAIN outbox : outbox' = Remove(outbox, i)
    BY <1>2 DEF Vence, outbox_delete_expired
  <2> QED
    BY <2>1, <2>2 DEF Retira
<1>3. CASE Desiste
  BY <1>3 DEF Desiste, DepoisDoLaco, TransporteFecha, outbox_delete_all_items, Acaba
<1>4. CASE Conecta
  BY <1>4 DEF Conecta, Recomeca
<1>5. CASE ConectaFalha \/ ConnackFalha \/ LeErro \/ PubackFalha \/ ReenviaFalha \/ PingFalha \/ SemPingresp \/ PollErro
  <2>1. (Aborta \/ EscritaFalhaEAborta) /\ UNCHANGED <<recebidas, enviados, confirmados, outbox>>
    BY <1>5 DEF ConectaFalha, ConnackFalha, LeErro, PubackFalha, ReenviaFalha, PingFalha, SemPingresp, PollErro
  <2> QED
    BY <2>1, EfeitoAborta
<1>6. CASE Connack \/ LePingresp
  BY <1>6 DEF Connack, EventoConnected, LePingresp, Le, Descarta
<1>7. CASE AssinaSemMemoria
  BY <1>7 DEF AssinaSemMemoria, Parado
<1>8. CASE Assina
  <2>1. PICK id \in Ids :
          /\ IdNovo(id)
          /\ GuardaAssinatura(id)
          /\ \/ TransporteAceita(Curto("SUBSCRIBE", id)) /\ UNCHANGED tratadorVars
             \/ TransporteTimeout /\ UNCHANGED tratadorVars
             \/ conexao = "morta" /\ ErroDeTransporte /\ UNCHANGED <<conexao, ida, falhas>>
    BY <1>8, Zenon DEF Assina
  <2>2. ida' \in {ida, Append(ida, Curto("SUBSCRIBE", id))} /\ UNCHANGED <<aplicados, publicadas>>
    BY <2>1 DEF TransporteAceita, TransporteTimeout, ErroDeTransporte, EventoError
  <2>3. UNCHANGED <<volta, recebidas, enviados, confirmados>>
    BY <1>8, Zenon DEF Assina
  <2>4. outbox' = outbox_set_pending(outbox_enqueue(outbox, id, "SUBSCRIBE", SEM_ID), id, "TRANSMITTED")
    BY <2>1 DEF GuardaAssinatura, mqtt_enqueue
  <2> QED
    BY <2>1, <2>2, <2>3, <2>4 DEF Pede
<1>9. CASE Puback
  BY <1>9 DEF Puback, Vai, TransporteAceita, Escreve
<1>10. CASE Ping
  BY <1>10 DEF Ping, TransporteAceita, Escreve
<1>11. CASE Reenvia \/ Retransmite
  <2>1. UNCHANGED volta /\ Mudo
    BY <1>11 DEF Reenvia, Retransmite
  <2>2. \E i \in DOMAIN outbox :
          /\ TransporteAceita(DoItem(outbox[i]))
          /\ outbox' \in {outbox, outbox_set_pending(outbox, outbox[i].id, "TRANSMITTED")}
    <3>1. CASE Reenvia
      BY <3>1 DEF Reenvia
    <3>2. CASE Retransmite
      BY <3>2 DEF Retransmite
    <3> QED
      BY <1>11, <3>1, <3>2
  <2>3. PICK i \in DOMAIN outbox :
          /\ TransporteAceita(DoItem(outbox[i]))
          /\ outbox' \in {outbox, outbox_set_pending(outbox, outbox[i].id, "TRANSMITTED")}
    BY <2>2
  <2>4. ida' \in {ida, Append(ida, DoItem(outbox[i]))}
    BY <2>3 DEF TransporteAceita
  <2> QED
    BY <2>1, <2>3, <2>4 DEF EscreveItem
<1> QED
  BY <1>1, <1>2, <1>3, <1>4, <1>5, <1>6, <1>7, <1>8, <1>9, <1>10, <1>11 DEF esp_mqtt_task

\* The calls of the control task.
EmFila(corpo) ==
  \E id \in Ids :
    /\ IdNovo(id)
    /\ \/ /\ outbox' = outbox_enqueue(outbox, id, "PUBLISH", corpo)
          /\ UNCHANGED <<ida, volta>> \/ (ida' = <<>> /\ volta' = <<>>)
       \/ /\ outbox' = outbox_set_pending(outbox_enqueue(outbox, id, "PUBLISH", corpo), id, "TRANSMITTED")
          /\ ida' \in {ida, Append(ida, Pacote("PUBLISH", id, corpo))}
          /\ UNCHANGED volta
    /\ Mudo

LEMMA EfeitoPublica ==
  Publica => /\ cpc = "montada" /\ cpc' = "fora" /\ n' = n
             /\ Parado \/ EmFila(n)
<1> SUFFICES ASSUME Publica PROVE Parado \/ EmFila(n)
  BY Zenon DEF Publica
<1>1. PublicaNaFila(n) \/ PublicaEscreve(n) \/ PublicaFalha(n) \/ PublicaSemMemoria
  BY Zenon DEF Publica, esp_mqtt_client_publish
<1>2. CASE PublicaSemMemoria
  BY <1>2 DEF PublicaSemMemoria, tratadorVars, Parado, Mudo
<1>3. CASE PublicaNaFila(n)
  <2>1. UNCHANGED <<ida, volta>> /\ Mudo
    BY <1>3 DEF PublicaNaFila, brokerVars, tratadorVars, Mudo
  <2>2. \E id \in Ids : IdNovo(id) /\ outbox' = outbox_enqueue(outbox, id, "PUBLISH", n)
    BY <1>3, Zenon DEF PublicaNaFila, mqtt_enqueue
  <2> QED
    BY <2>1, <2>2, Zenon DEF EmFila
<1>4. CASE PublicaEscreve(n)
  <2>1. UNCHANGED volta /\ Mudo
    BY <1>4 DEF PublicaEscreve, tratadorVars, Mudo
  <2>2. PICK id \in Ids :
          /\ IdNovo(id)
          /\ outbox' = outbox_set_pending(outbox_enqueue(outbox, id, "PUBLISH", n), id, "TRANSMITTED")
          /\ TransporteAceita(Pacote("PUBLISH", id, n))
    BY <1>4, Zenon DEF PublicaEscreve, mqtt_enqueue
  <2>3. ida' \in {ida, Append(ida, Pacote("PUBLISH", id, n))}
    BY <2>2 DEF TransporteAceita
  <2> QED
    BY <2>1, <2>2, <2>3, Zenon DEF EmFila
<1>5. CASE PublicaFalha(n)
  <2>1. UNCHANGED <<recebidas, enviados, confirmados>> /\ Aborta
    BY <1>5, Zenon DEF PublicaFalha, EscritaFalhaEAborta
  <2>2. ida' = <<>> /\ volta' = <<>> /\ Mudo
    BY <2>1 DEF Aborta, TransporteFecha, EventoDisconnected, Mudo
  <2>3. \E id \in Ids : IdNovo(id) /\ outbox' = outbox_enqueue(outbox, id, "PUBLISH", n)
    BY <1>5, Zenon DEF PublicaFalha, mqtt_enqueue
  <2> QED
    BY <2>2, <2>3, Zenon DEF EmFila
<1> QED
  BY <1>1, <1>2, <1>3, <1>4, <1>5

-----------------------------------------------------------------------------
(***************************************************************************)
(* What is on its way: only what was sent, and only acknowledgements of    *)
(* what was applied.                                                       *)
(***************************************************************************)
PacIda(A) ==
  {p \in Pacotes :
     /\ p.tipo \in {"CONNECT", "SUBSCRIBE", "PUBLISH", "PUBACK", "PINGREQ"}
     /\ p.tipo = "SUBSCRIBE" => p.id \in Ids
     /\ p.tipo = "PUBLISH" => p.id \in Ids /\ p.corpo \in Nat
     /\ p.tipo = "PUBACK" => p.id \in A}

PacVolta ==
  {p \in Pacotes :
     /\ p.tipo \in {"CONNACK", "CONNACK_RECUSADO", "SUBACK", "SUBACK_RECUSADO", "PUBLISH", "PUBACK", "PINGRESP"}
     /\ p.tipo = "PUBLISH" => p.id \in Comandos /\ p.corpo = p.id
     /\ p.tipo = "PUBACK" => p.id \in Ids}

DadosInv ==
  /\ ida \in Seq(PacIda(aplicados))
  /\ volta \in Seq(PacVolta)
  /\ outbox \in Seq(Item)
  /\ confirmados \subseteq aplicados /\ aplicados \subseteq Comandos /\ enviados \subseteq Comandos
  /\ recebidas \subseteq Nat /\ publicadas \subseteq Nat
  /\ n \in 0 .. MaxPub /\ cpc \in {"fora", "montada"} /\ (cpc = "montada" => n # 0)

\* The command in in_buffer is one that was applied, and is there from the event
\* to the PUBACK.
EntradaInv ==
  /\ entrada \in aplicados \cup {SEM_ID}
  /\ entrada # SEM_ID <=> lpc = "puback"

LEMMA SeqMaior ==
  ASSUME NEW S, NEW T, S \subseteq T, NEW s \in Seq(S)
  PROVE  s \in Seq(T) /\ Itens(s) \subseteq S
<1>1. Len(s) \in Nat /\ DOMAIN s = 1 .. Len(s) /\ s \in [1 .. Len(s) -> S]
  BY LenProperties, ElementOfSeq
<1>2. s \in [1 .. Len(s) -> T]
  BY <1>1
<1> QED
  BY <1>1, <1>2, SeqDef DEF Itens

LEMMA PacotesIda ==
  ASSUME NEW A \in SUBSET Comandos
  PROVE  /\ Curto("CONNECT", SEM_ID) \in PacIda(A) /\ Curto("PINGREQ", SEM_ID) \in PacIda(A)
         /\ \A id \in Ids : Curto("SUBSCRIBE", id) \in PacIda(A)
         /\ \A id \in A : Curto("PUBACK", id) \in PacIda(A)
         /\ \A id \in Ids, c \in Nat : Pacote("PUBLISH", id, c) \in PacIda(A)
         /\ \A x \in Item : DoItem(x) \in PacIda(A)
BY DEF PacIda, Pacotes, Curto, Pacote, DoItem, Item, SEM_ID

LEMMA PacotesVolta ==
  /\ \A tipo \in {"CONNACK", "CONNACK_RECUSADO", "PINGRESP"} : Curto(tipo, SEM_ID) \in PacVolta
  /\ \A id \in Ids, tipo \in {"SUBACK", "SUBACK_RECUSADO", "PUBACK"} : Curto(tipo, id) \in PacVolta
  /\ \A c \in Comandos : Pacote("PUBLISH", c, c) \in PacVolta
BY DEF PacVolta, Pacotes, Curto, Pacote, SEM_ID

\* outbox_delete leaves a list of items.
LEMMA ApagaItem ==
  ASSUME NEW o \in Seq(Item), NEW id, NEW tipo
  PROVE  /\ outbox_delete(o, id, tipo) \in Seq(Item)
         /\ Iniciador(o, id, tipo) # 0 =>
               /\ Iniciador(o, id, tipo) \in DOMAIN o
               /\ o[Iniciador(o, id, tipo)].id = id
               /\ o[Iniciador(o, id, tipo)].tipo = tipo
<1> DEFINE S == {i \in DOMAIN o : o[i].id = id /\ o[i].tipo = tipo}
<1>1. Len(o) \in Nat /\ DOMAIN o = 1 .. Len(o)
  BY LenProperties
<1>2. S \in SUBSET (Nat \ {0})
  BY <1>1
<1>3. Iniciador(o, id, tipo) \in S \cup {0}
  <2>1. Iniciador(o, id, tipo) = PrimeiroDe(S)
    BY DEF Iniciador
  <2> HIDE DEF S
  <2> QED
    BY <1>2, <2>1, Primeiro
<1>4. CASE Iniciador(o, id, tipo) = 0
  BY <1>4 DEF outbox_delete
<1>5. CASE Iniciador(o, id, tipo) # 0
  <2>1. Iniciador(o, id, tipo) \in S
    BY <1>3, <1>5
  <2>2. outbox_delete(o, id, tipo) = Remove(o, Iniciador(o, id, tipo))
    BY <1>5 DEF outbox_delete
  <2> QED
    BY <2>1, <2>2, RetiraItem
<1> QED
  BY <1>4, <1>5

LEMMA DadosTarefa == DadosInv /\ EntradaInv /\ esp_mqtt_task /\ UNCHANGED <<cpc, n>> => DadosInv'
<1> SUFFICES ASSUME DadosInv, EntradaInv, esp_mqtt_task, UNCHANGED <<cpc, n>> PROVE DadosInv'
  OBVIOUS
<1> USE DEF DadosInv, Mudo
<1>0. Nat \subseteq Nat /\ SEM_ID \in Nat /\ \A S : <<>> \in Seq(S)
  BY ItensVazio DEF SEM_ID
<1>1. CASE Parado \/ Corta \/ Acaba
  BY <1>0, <1>1 DEF Parado, Corta, Acaba
<1>2. CASE Recomeca
  <2>1. <<Curto("CONNECT", SEM_ID)>> \in Seq(PacIda(aplicados))
    BY PacotesIda
  <2> QED
    BY <1>0, <1>2, <2>1 DEF Recomeca
<1>3. CASE Retira
  BY <1>3, RetiraItem DEF Retira
<1>4. CASE EscreveItem
  <2>1. PICK i \in DOMAIN outbox :
          /\ ida' \in {ida, Append(ida, DoItem(outbox[i]))}
          /\ outbox' \in {outbox, outbox_set_pending(outbox, outbox[i].id, "TRANSMITTED")}
          /\ UNCHANGED volta /\ Mudo
    BY <1>4 DEF EscreveItem
  <2>2. outbox[i] \in Item
    BY LenProperties, ElementOfSeq
  <2>3. outbox' \in Seq(Item)
    BY <2>1, MarcaItem
  <2>4. ida' \in Seq(PacIda(aplicados))
    <3>1. DoItem(outbox[i]) \in PacIda(aplicados)
      BY <2>2, PacotesIda
    <3>2. Append(ida, DoItem(outbox[i])) \in Seq(PacIda(aplicados))
      BY <3>1, ItensAnexo
    <3> QED
      BY <2>1, <3>2
  <2> QED
    BY <2>1, <2>3, <2>4
<1>5. CASE Pede
  <2>1. PICK id \in Ids :
          /\ outbox' = outbox_set_pending(outbox_enqueue(outbox, id, "SUBSCRIBE", SEM_ID), id, "TRANSMITTED")
          /\ ida' \in {ida, Append(ida, Curto("SUBSCRIBE", id))}
          /\ UNCHANGED volta /\ Mudo
    BY <1>5 DEF Pede
  <2>2. outbox_enqueue(outbox, id, "SUBSCRIBE", SEM_ID) \in Seq(Item)
    BY <1>0, AnexaItem
  <2>3. outbox' \in Seq(Item)
    BY <2>1, <2>2, MarcaItem
  <2>4. ida' \in Seq(PacIda(aplicados))
    <3>1. Curto("SUBSCRIBE", id) \in PacIda(aplicados)
      BY PacotesIda
    <3>2. Append(ida, Curto("SUBSCRIBE", id)) \in Seq(PacIda(aplicados))
      BY <3>1, ItensAnexo
    <3> QED
      BY <2>1, <3>2
  <2> QED
    BY <2>1, <2>3, <2>4
<1>6. CASE Descarta
  BY <1>6, ItensCauda DEF Descarta
<1>7. CASE Escreve(Curto("PINGREQ", SEM_ID)) \/ (Escreve(Curto("PUBACK", entrada)) /\ lpc = "puback")
  <2>1. PICK p \in PacIda(aplicados) : Escreve(p)
    BY <1>7, PacotesIda DEF EntradaInv
  <2>2. ida' \in Seq(PacIda(aplicados))
    <3>1. Append(ida, p) \in Seq(PacIda(aplicados))
      BY ItensAnexo
    <3> QED
      BY <2>1, <3>1 DEF Escreve
  <2> QED
    BY <2>1, <2>2 DEF Escreve
<1>8. CASE LeSuback
  <2>1. volta # <<>> /\ volta' = Tail(volta)
    BY <1>8 DEF LeSuback, Le
  <2>2. UNCHANGED <<ida, recebidas, enviados, confirmados, aplicados, publicadas>>
    BY <1>8 DEF LeSuback, Le, EventoSubscribed, tratadorVars
  <2>3. outbox' \in Seq(Item)
    BY <1>8, ApagaItem DEF LeSuback, remove_initiator_message
  <2> QED
    BY <2>1, <2>2, <2>3, ItensCauda
<1>9. CASE LePublish
  <2>1. volta # <<>> /\ volta' = Tail(volta) /\ Head(volta).tipo = "PUBLISH"
    BY <1>9 DEF LePublish, Le
  <2>2. UNCHANGED <<ida, outbox, recebidas, enviados, confirmados, publicadas>>
    BY <1>9 DEF LePublish, Le, Entrega, EventoData
  <2>3. aplicados' = aplicados \cup {Head(volta).corpo}
    BY <1>9 DEF LePublish, Entrega, EventoData
  <2>4. Head(volta) \in PacVolta /\ Tail(volta) \in Seq(PacVolta)
    BY <2>1, ItensCauda
  <2>5. Head(volta).corpo \in Comandos
    BY <2>1, <2>4 DEF PacVolta
  <2>6. PacIda(aplicados) \subseteq PacIda(aplicados')
    BY <2>3 DEF PacIda
  <2>7. ida' \in Seq(PacIda(aplicados'))
    BY <2>2, <2>6, SeqMaior
  <2> QED
    BY <2>1, <2>2, <2>3, <2>4, <2>5, <2>7
<1>10. CASE LePuback
  <2> DEFINE i == Iniciador(outbox, Head(volta).id, "PUBLISH")
  <2>1. volta # <<>> /\ volta' = Tail(volta)
    BY <1>10 DEF LePuback, Le
  <2>2. UNCHANGED <<ida, recebidas, enviados, confirmados>>
    BY <1>10 DEF LePuback, Le
  <2>3. outbox' \in Seq(Item)
    BY <1>10, ApagaItem DEF LePuback, remove_initiator_message
  <2>4. IF i = 0 THEN UNCHANGED tratadorVars ELSE EventoPublished(outbox[i].corpo)
    BY <1>10, Zenon DEF LePuback
  <2>5. i # 0 => outbox[i].corpo \in Nat
    <3>1. i # 0 => i \in DOMAIN outbox
      BY ApagaItem
    <3>2. \A j \in DOMAIN outbox : outbox[j] \in Item
      BY LenProperties, ElementOfSeq
    <3> QED
      BY <3>1, <3>2 DEF Item
  <2> HIDE DEF i
  <2>6. publicadas' \subseteq Nat /\ aplicados' = aplicados
    BY <2>4, <2>5 DEF tratadorVars, EventoPublished
  <2> QED
    BY <2>1, <2>2, <2>3, <2>6, ItensCauda
<1> QED
  BY <1>1, <1>2, <1>3, <1>4, <1>5, <1>6, <1>7, <1>8, <1>9, <1>10, EfeitoTarefa

LEMMA DadosBroker ==
  DadosInv /\ BrokerNext /\ UNCHANGED <<aplicados, publicadas, outbox, cpc, n>> => DadosInv'
<1> SUFFICES ASSUME DadosInv, BrokerNext, UNCHANGED <<aplicados, publicadas, outbox, cpc, n>> PROVE DadosInv'
  OBVIOUS
<1> USE DEF DadosInv
<1>1. CASE BrokerRecebe
  <2> DEFINE p == Head(ida)
  <2>1. ida # <<>> /\ ida' = Tail(ida) /\ UNCHANGED enviados
    BY <1>1 DEF BrokerRecebe
  <2>2. p \in PacIda(aplicados) /\ ida' \in Seq(PacIda(aplicados))
    BY <2>1, ItensCauda
  <2> HIDE DEF p
  <2>3. RecebeConnect(p) \/ RecebeSubscribe(p) \/ RecebePublish(p) \/ RecebePuback(p) \/ RecebePingreq(p)
    BY <1>1 DEF BrokerRecebe, p
  <2>4. CASE RecebeConnect(p) \/ RecebePingreq(p)
    <3>1. \E tipo \in {"CONNACK", "CONNACK_RECUSADO", "PINGRESP"} : volta' = Append(volta, Curto(tipo, SEM_ID))
      BY <2>4 DEF RecebeConnect, RecebePingreq, Responde
    <3>2. volta' \in Seq(PacVolta)
      BY <3>1, PacotesVolta, ItensAnexo
    <3>3. UNCHANGED <<recebidas, confirmados>>
      BY <2>4 DEF RecebeConnect, RecebePingreq
    <3> QED
      BY <2>1, <2>2, <3>2, <3>3
  <2>5. CASE RecebeSubscribe(p)
    <3>1. p.id \in Ids
      BY <2>2, <2>5 DEF PacIda, RecebeSubscribe
    <3>2. \E tipo \in {"SUBACK", "SUBACK_RECUSADO"} : volta' = Append(volta, Curto(tipo, p.id))
      BY <2>5 DEF RecebeSubscribe, Responde
    <3>3. volta' \in Seq(PacVolta)
      BY <3>1, <3>2, PacotesVolta, ItensAnexo
    <3>4. UNCHANGED <<recebidas, confirmados>>
      BY <2>5 DEF RecebeSubscribe
    <3> QED
      BY <2>1, <2>2, <3>3, <3>4
  <2>6. CASE RecebePublish(p)
    <3>1. p.id \in Ids /\ p.corpo \in Nat
      BY <2>2, <2>6 DEF PacIda, RecebePublish
    <3>2. volta' \in Seq(PacVolta)
      BY <2>6, <3>1, PacotesVolta, ItensAnexo DEF RecebePublish, Responde
    <3>3. recebidas' = recebidas \cup {p.corpo} /\ UNCHANGED confirmados
      BY <2>6 DEF RecebePublish
    <3> QED
      BY <2>1, <2>2, <3>1, <3>2, <3>3
  <2>7. CASE RecebePuback(p)
    <3>1. p.id \in aplicados
      BY <2>2, <2>7 DEF PacIda, RecebePuback
    <3>2. confirmados' = confirmados \cup {p.id} /\ UNCHANGED <<volta, recebidas>>
      BY <2>7 DEF RecebePuback
    <3> QED
      BY <2>1, <2>2, <3>1, <3>2
  <2> QED
    BY <2>3, <2>4, <2>5, <2>6, <2>7
<1>2. CASE BrokerEnvia
  <2>1. PICK c \in Comandos : enviados' = enviados \cup {c} /\ volta' = Append(volta, Pacote("PUBLISH", c, c))
    BY <1>2 DEF BrokerEnvia
  <2>2. volta' \in Seq(PacVolta)
    BY <2>1, PacotesVolta, ItensAnexo
  <2>3. UNCHANGED <<ida, recebidas, confirmados>>
    BY <1>2 DEF BrokerEnvia
  <2> QED
    BY <2>1, <2>2, <2>3
<1>3. CASE Cai
  BY <1>3, ItensVazio DEF Cai
<1> QED
  BY <1>1, <1>2, <1>3 DEF BrokerNext

LEMMA DadosPublica == DadosInv /\ Publica => DadosInv'
<1> SUFFICES ASSUME DadosInv, Publica PROVE DadosInv'
  OBVIOUS
<1> USE DEF DadosInv, Mudo
<1>1. cpc' = "fora" /\ n' = n /\ (Parado \/ EmFila(n))
  BY EfeitoPublica
<1>2. CASE Parado
  BY <1>1, <1>2 DEF Parado
<1>3. CASE EmFila(n)
  <2>1. PICK id \in Ids :
          /\ \/ /\ outbox' = outbox_enqueue(outbox, id, "PUBLISH", n)
                /\ UNCHANGED <<ida, volta>> \/ (ida' = <<>> /\ volta' = <<>>)
             \/ /\ outbox' = outbox_set_pending(outbox_enqueue(outbox, id, "PUBLISH", n), id, "TRANSMITTED")
                /\ ida' \in {ida, Append(ida, Pacote("PUBLISH", id, n))}
                /\ UNCHANGED volta
          /\ Mudo
    BY <1>3 DEF EmFila
  <2>2. n \in Nat
    BY MaxPubAssumption
  <2>3. outbox_enqueue(outbox, id, "PUBLISH", n) \in Seq(Item)
    BY <2>2, AnexaItem
  <2>4. outbox' \in Seq(Item)
    BY <2>1, <2>3, MarcaItem
  <2>5. ida' \in Seq(PacIda(aplicados)) /\ volta' \in Seq(PacVolta)
    <3>1. Pacote("PUBLISH", id, n) \in PacIda(aplicados)
      BY <2>2, PacotesIda
    <3>2. Append(ida, Pacote("PUBLISH", id, n)) \in Seq(PacIda(aplicados))
      BY <3>1, ItensAnexo
    <3>3. <<>> \in Seq(PacIda(aplicados)) /\ <<>> \in Seq(PacVolta)
      BY ItensVazio
    <3> QED
      BY <2>1, <3>2, <3>3
  <2> QED
    BY <1>1, <2>1, <2>4, <2>5
<1> QED
  BY <1>1, <1>2, <1>3

LEMMA EntradaTarefa == LockInv /\ DadosInv /\ EntradaInv /\ esp_mqtt_task => EntradaInv'
<1> SUFFICES ASSUME LockInv, DadosInv, EntradaInv, esp_mqtt_task PROVE EntradaInv'
  OBVIOUS
<1> USE DEF EntradaInv, Vai
<1>1. aplicados \subseteq aplicados'
  <2>1. CASE LePublish
    BY <2>1 DEF LePublish, Entrega, EventoData
  <2>2. CASE LePuback
    <3>1. aplicados' = aplicados
      BY <2>2, Zenon DEF LePuback, EventoPublished, tratadorVars
    <3> QED
      BY <3>1
  <2>3. CASE LeSuback
    BY <2>3 DEF LeSuback, EventoSubscribed, tratadorVars
  <2> QED
    BY <2>1, <2>2, <2>3, EfeitoTarefa DEF Parado, Corta, Acaba, Recomeca, Retira, EscreveItem, Pede, Descarta, Escreve, Mudo
<1>2. CASE LePublish
  <2>1. volta # <<>> /\ Head(volta).tipo = "PUBLISH"
    BY <1>2 DEF LePublish, Le
  <2>2. Head(volta) \in PacVolta
    BY <2>1, ItensCauda DEF DadosInv
  <2>3. Head(volta).corpo = Head(volta).id /\ Head(volta).id \in Comandos
    BY <2>1, <2>2 DEF PacVolta
  <2>4. entrada' = Head(volta).id /\ lpc' = "puback" /\ aplicados' = aplicados \cup {Head(volta).corpo}
    BY <1>2 DEF LePublish, Entrega, EventoData
  <2> QED
    BY <2>3, <2>4, IdsAssumption
<1>3. CASE Puback \/ PubackFalha
  BY <1>3 DEF Puback, PubackFalha
<1>4. ASSUME ~LePublish, ~Puback, ~PubackFalha
      PROVE  entrada' = entrada /\ lpc # "puback" /\ lpc' # "puback"
  <2>1. CASE Topo \/ Vence \/ Ramo
    BY <2>1 DEF Topo, Vence, Ramo, LockInv, Estados
  <2>2. CASE Desiste \/ Conecta \/ ConectaFalha \/ Connack \/ ConnackFalha
    BY <2>2 DEF Desiste, Conecta, ConectaFalha, Connack, ConnackFalha
  <2>3. CASE Assina \/ AssinaSemMemoria
    BY <2>3, Zenon DEF Assina, AssinaSemMemoria
  <2>4. CASE LeNada \/ LeErro \/ LeSuback \/ LePuback \/ LePingresp
    BY <2>4, Zenon DEF LeNada, LeErro, LeSuback, LePuback, LePingresp, Le
  <2>5. CASE Reenvia \/ Retransmite \/ ReenviaFalha \/ NadaAReenviar
    BY <2>5, Zenon DEF Reenvia, Retransmite, ReenviaFalha, NadaAReenviar
  <2>6. CASE Ping \/ PingFalha \/ SemPingresp \/ SemPressa \/ Reconecta \/ AindaEspera
    BY <2>6 DEF Ping, PingFalha, SemPingresp, SemPressa, Reconecta, AindaEspera
  <2>7. CASE Solta \/ Olha \/ Poll \/ PollErro
    BY <2>7 DEF Solta, Olha, Poll, PollErro
  <2> QED
    BY <1>4, <2>1, <2>2, <2>3, <2>4, <2>5, <2>6, <2>7 DEF esp_mqtt_task
<1> QED
  BY <1>1, <1>2, <1>3, <1>4

\* The invariant of the packets, the outbox and the histories.
DadosEntrada == LockInv /\ DadosInv /\ EntradaInv

LEMMA DadosInicio == Init => DadosEntrada
<1> SUFFICES ASSUME Init PROVE DadosEntrada
  OBVIOUS
<1> USE DEF Init, BrokerInit, TratadorInit, LibInit
<1>0. LockInv
  BY DEF LockInv, Estados, ComLock
<1>1. DadosInv
  BY ItensVazio, MaxPubAssumption DEF DadosInv
<1>2. EntradaInv
  BY DEF EntradaInv
<1> QED
  BY <1>0, <1>1, <1>2 DEF DadosEntrada

LEMMA DadosPasso == DadosEntrada /\ [Next]_todas => DadosEntrada'
<1> SUFFICES ASSUME LockInv, DadosInv, EntradaInv, [Next]_todas PROVE DadosInv' /\ EntradaInv'
  BY LockPasso DEF DadosEntrada
<1>1. CASE esp_mqtt_task /\ UNCHANGED <<cpc, n>>
  BY <1>1, DadosTarefa, EntradaTarefa
<1>2. CASE BrokerNext /\ UNCHANGED <<tratadorVars, libVars, cpc, n>>
  <2>1. UNCHANGED <<aplicados, publicadas, outbox, entrada, lpc, cpc, n>>
    BY <1>2 DEF tratadorVars, libVars
  <2> QED
    BY <1>2, <2>1, DadosBroker DEF EntradaInv
<1>3. CASE Publica
  <2>1. UNCHANGED <<entrada, lpc>>
    BY <1>3, Zenon DEF Publica, esp_mqtt_client_publish
  <2>2. aplicados' = aplicados
    BY <1>3, EfeitoPublica DEF Parado, EmFila, Mudo
  <2> QED
    BY <1>3, <2>1, <2>2, DadosPublica DEF EntradaInv
<1>4. CASE Monta
  <2>1. UNCHANGED vars /\ cpc' = "montada" /\ n' = n + 1 /\ n < MaxPub
    BY <1>4 DEF Monta
  <2> QED
    BY <2>1, MaxPubAssumption DEF vars, brokerVars, tratadorVars, libVars, DadosInv, EntradaInv
<1>5. CASE Ignora \/ UNCHANGED todas
  BY <1>5 DEF Ignora, todas, vars, brokerVars, tratadorVars, libVars, DadosInv, EntradaInv
<1> QED
  BY <1>1, <1>2, <1>3, <1>4, <1>5 DEF Next, mqttclient_publish_telemetry

\* The rest of the types.
TiposInv ==
  /\ conexao \in {"fechada", "viva", "truncada", "morta"}
  /\ assinado \in BOOLEAN /\ espera_ping \in BOOLEAN /\ perdida \in BOOLEAN
  /\ falhas \in 0 .. MaxFalhas

LEMMA TiposFalha ==
  TiposInv => /\ Falha => falhas' \in 0 .. MaxFalhas
              /\ UNCHANGED falhas => falhas' \in 0 .. MaxFalhas
BY BrokerAssumption DEF TiposInv, Falha

LEMMA TiposAborta ==
  TiposInv => /\ Aborta => /\ conexao' = "fechada" /\ assinado' = FALSE /\ espera_ping' = FALSE
              /\ EscritaFalhaEAborta => Aborta /\ falhas' \in 0 .. MaxFalhas
<1> SUFFICES ASSUME TiposInv
             PROVE  /\ Aborta => /\ conexao' = "fechada" /\ assinado' = FALSE /\ espera_ping' = FALSE
                    /\ EscritaFalhaEAborta => Aborta /\ falhas' \in 0 .. MaxFalhas
  OBVIOUS
<1>1. Aborta => conexao' = "fechada" /\ assinado' = FALSE /\ espera_ping' = FALSE
  BY DEF Aborta, TransporteFecha
<1>2. EscritaFalhaEAborta => Aborta /\ (Falha \/ UNCHANGED falhas)
  BY DEF EscritaFalhaEAborta, TransporteFalha
<1> QED
  BY <1>1, <1>2, TiposFalha

LEMMA TiposTarefa == TiposInv /\ esp_mqtt_task => TiposInv'
<1> SUFFICES ASSUME TiposInv, esp_mqtt_task PROVE TiposInv'
  OBVIOUS
<1> USE DEF TiposInv, brokerVars
<1>1. CASE Topo \/ Ramo \/ LeNada \/ NadaAReenviar \/ SemPressa \/ Reconecta \/ AindaEspera \/ Solta \/ Olha \/ Poll
  <2>1. UNCHANGED <<conexao, assinado, espera_ping, perdida, falhas>>
    BY <1>1 DEF Topo, Ramo, LeNada, NadaAReenviar, SemPressa, Reconecta, AindaEspera, Solta, Olha, Poll
  <2> QED
    BY <2>1
<1>2. CASE Vence
  <2>1. UNCHANGED <<conexao, assinado, espera_ping, perdida>> /\ (Falha \/ UNCHANGED falhas)
    BY <1>2, Zenon DEF Vence, PodeVencer
  <2> QED
    BY <2>1, TiposFalha
<1>3. CASE Desiste
  <2>1. conexao' = "fechada" /\ assinado' = FALSE /\ UNCHANGED <<espera_ping, perdida>> /\ Falha
    BY <1>3 DEF Desiste, DepoisDoLaco, TransporteFecha
  <2> QED
    BY <2>1, TiposFalha
<1>4. CASE Conecta
  <2>1. conexao' = "viva" /\ perdida' = FALSE /\ espera_ping' = FALSE /\ UNCHANGED <<assinado, falhas>>
    BY <1>4 DEF Conecta
  <2> QED
    BY <2>1
<1>5. CASE ConectaFalha \/ ConnackFalha \/ LeErro \/ PubackFalha \/ ReenviaFalha \/ PingFalha \/ SemPingresp \/ PollErro
  <2>1. (Aborta /\ (Falha \/ UNCHANGED falhas)) \/ EscritaFalhaEAborta
    BY <1>5 DEF ConectaFalha, ConnackFalha, LeErro, PubackFalha, ReenviaFalha, PingFalha, SemPingresp, PollErro
  <2>2. UNCHANGED perdida
    BY <1>5 DEF ConectaFalha, ConnackFalha, LeErro, PubackFalha, ReenviaFalha, PingFalha, SemPingresp, PollErro
  <2>3. Aborta /\ falhas' \in 0 .. MaxFalhas
    BY <2>1, TiposAborta, TiposFalha
  <2> QED
    BY <2>2, <2>3, TiposAborta
<1>6. CASE Connack \/ LePingresp \/ LePublish \/ LePuback
  <2>1. UNCHANGED <<conexao, assinado, perdida, falhas>>
    BY <1>6, Zenon DEF Connack, LePingresp, LePublish, LePuback, Le
  <2>2. espera_ping' = FALSE \/ UNCHANGED espera_ping
    BY <1>6, Zenon DEF Connack, LePingresp, LePublish, LePuback
  <2> QED
    BY <2>1, <2>2
<1>7. CASE LeSuback
  <2>1. UNCHANGED <<conexao, assinado, espera_ping, falhas>>
    BY <1>7 DEF LeSuback, Le
  <2>2. perdida' \in BOOLEAN
    BY <1>7, Zenon DEF LeSuback
  <2> QED
    BY <2>1, <2>2
<1>8. CASE AssinaSemMemoria
  <2>1. perdida' = TRUE /\ UNCHANGED <<conexao, assinado, espera_ping>> /\ Falha
    BY <1>8 DEF AssinaSemMemoria
  <2> QED
    BY <2>1, TiposFalha
<1>9. CASE Assina
  <2>1. UNCHANGED <<assinado, espera_ping, perdida>>
    BY <1>9, Zenon DEF Assina
  <2>2. TransporteTimeout \/ UNCHANGED <<conexao, falhas>>
    BY <1>9, Zenon DEF Assina, TransporteAceita
  <2>3. conexao' \in {"fechada", "viva", "truncada", "morta"} /\ (Falha \/ UNCHANGED falhas)
    BY <2>2 DEF TransporteTimeout
  <2> QED
    BY <2>1, <2>3, TiposFalha
<1>10. CASE Puback \/ Ping \/ Reenvia \/ Retransmite
  <2>1. UNCHANGED <<conexao, assinado, perdida, falhas>>
    BY <1>10, Zenon DEF Puback, Ping, Reenvia, Retransmite, TransporteAceita
  <2>2. espera_ping' = TRUE \/ UNCHANGED espera_ping
    BY <1>10, Zenon DEF Puback, Ping, Reenvia, Retransmite
  <2> QED
    BY <2>1, <2>2
<1> QED
  BY <1>1, <1>2, <1>3, <1>4, <1>5, <1>6, <1>7, <1>8, <1>9, <1>10 DEF esp_mqtt_task

LEMMA TiposPasso == TiposInv /\ [Next]_todas => TiposInv'
<1> SUFFICES ASSUME TiposInv, [Next]_todas PROVE TiposInv'
  OBVIOUS
<1> USE DEF TiposInv
<1>1. CASE esp_mqtt_task
  BY <1>1, TiposTarefa
<1>2. CASE BrokerNext /\ UNCHANGED <<tratadorVars, libVars, cpc, n>>
  <2>1. UNCHANGED <<espera_ping, perdida>>
    BY <1>2 DEF libVars
  <2>2. CASE BrokerRecebe
    <3>1. assinado' \in BOOLEAN
      <4>1. assinado' = FALSE \/ assinado' = TRUE \/ UNCHANGED assinado
        BY <2>2, Zenon DEF BrokerRecebe, RecebeConnect, RecebeSubscribe, RecebePublish, RecebePuback, RecebePingreq
      <4> QED
        BY <4>1
    <3>2. conexao' = conexao /\ (Falha \/ UNCHANGED falhas)
      BY <2>2, Zenon DEF BrokerRecebe, RecebeConnect, RecebeSubscribe, RecebePublish, RecebePuback, RecebePingreq
    <3> QED
      BY <2>1, <3>1, <3>2, TiposFalha
  <2>3. CASE BrokerEnvia
    BY <2>1, <2>3 DEF BrokerEnvia
  <2>4. CASE Cai
    <3>1. conexao' = "morta" /\ assinado' = FALSE /\ (Falha \/ UNCHANGED falhas)
      BY <2>4 DEF Cai
    <3> QED
      BY <2>1, <3>1, TiposFalha
  <2> QED
    BY <1>2, <2>2, <2>3, <2>4 DEF BrokerNext
<1>3. CASE Publica
  <2>1. UNCHANGED perdida
    BY <1>3, Zenon DEF Publica, esp_mqtt_client_publish
  <2>2. \/ EscritaFalhaEAborta
        \/ UNCHANGED <<conexao, assinado, espera_ping>> /\ (Falha \/ UNCHANGED falhas)
    BY <1>3, Zenon DEF Publica, esp_mqtt_client_publish, PublicaNaFila, PublicaEscreve, PublicaFalha,
                       PublicaSemMemoria, TransporteAceita, brokerVars
  <2> QED
    BY <2>1, <2>2, TiposFalha, TiposAborta
<1>4. CASE Ignora \/ Monta \/ UNCHANGED todas
  <2>1. UNCHANGED <<conexao, assinado, espera_ping, perdida, falhas>>
    BY <1>4 DEF Ignora, Monta, todas, vars, brokerVars, libVars
  <2> QED
    BY <2>1
<1> QED
  BY <1>1, <1>2, <1>3, <1>4 DEF Next, mqttclient_publish_telemetry

\* Types, with the lock held exactly in its branches, and a command in in_buffer
\* exactly between its event and its PUBACK.
THEOREM MqttTipos == Spec => []MqttTypeOK
<1>1. Init => TiposInv
  <2> SUFFICES ASSUME Init PROVE TiposInv
    OBVIOUS
  <2>1. conexao = "fechada" /\ assinado = FALSE /\ espera_ping = FALSE /\ perdida = FALSE /\ falhas = 0
    BY DEF Init, BrokerInit, LibInit
  <2>2. falhas \in 0 .. MaxFalhas
    BY <2>1, BrokerAssumption
  <2>3. assinado \in BOOLEAN /\ espera_ping \in BOOLEAN /\ perdida \in BOOLEAN
    BY <2>1
  <2> QED
    BY <2>1, <2>2, <2>3 DEF TiposInv
<1>2. DadosEntrada /\ TiposInv => MqttTypeOK
  <2> SUFFICES ASSUME LockInv, DadosInv, EntradaInv, TiposInv PROVE MqttTypeOK
    BY DEF DadosEntrada
  <2>1. ida \in Seq(Pacotes) /\ volta \in Seq(Pacotes)
    <3>1. PacIda(aplicados) \subseteq Pacotes /\ PacVolta \subseteq Pacotes
      BY DEF PacIda, PacVolta
    <3> QED
      BY <3>1, SeqMaior DEF DadosInv
  <2>2. confirmados \subseteq Comandos /\ entrada \in Comandos \cup {SEM_ID}
    BY DEF DadosInv, EntradaInv
  <2>3. trava = (lpc \in ComLock)
    BY DEF LockInv
  <2> QED
    BY <2>1, <2>2, <2>3 DEF LockInv, DadosInv, EntradaInv, TiposInv, Estados, MqttTypeOK
<1> QED
  BY <1>1, <1>2, TiposPasso, DadosInicio, DadosPasso, PTL DEF Spec

\* A command the broker takes for delivered was applied, whatever failed between
\* its event and its PUBACK.
THEOREM MqttAck == Spec => []AckDepoisDeAplicar
<1>1. DadosEntrada => AckDepoisDeAplicar
  BY DEF DadosEntrada, DadosInv, AckDepoisDeAplicar
<1> QED
  BY <1>1, DadosInicio, DadosPasso, PTL DEF Spec

-----------------------------------------------------------------------------
(***************************************************************************)
(* The client implements Telemetria.  A publication carries its number; an *)
(* item, and every copy of it on its way, are known by the same identifier *)
(* until nothing uses it; an acknowledgement that still names an item is   *)
(* the one of its own body.                                                *)
(***************************************************************************)
Usados == {m \in 1 .. n : cpc = "montada" => m # n}

Unicas(K) == \A k, l \in K : k[2] = "PUBLISH" /\ l[2] = "PUBLISH" /\ k[1] = l[1] => k[3] = l[3]

Casadas(I, K) ==
  \A p \in I, k \in K : p.tipo = "PUBLISH" /\ k[2] = "PUBLISH" /\ k[1] = p.id => k[3] = p.corpo

Acusadas(V, K, R) ==
  \A p \in V, k \in K : p.tipo = "PUBACK" /\ k[2] = "PUBLISH" /\ k[1] = p.id => k[3] \in R

TelInv ==
  /\ Corpos(Itens(outbox)) \cup Corpos(Itens(ida)) \cup recebidas \cup publicadas \subseteq Usados
  /\ Distintas(outbox)
  /\ Unicas(Chaves(outbox))
  /\ Casadas(Itens(ida), Chaves(outbox))
  /\ Acusadas(Itens(volta), Chaves(outbox), recebidas)

TelPasso == TelInv' /\ [Abstrata!Next]_(Abstrata!vars)

LEMMA ConjuntosMenores ==
  ASSUME NEW I, NEW V, NEW K, NEW R, NEW I2 \in SUBSET I, NEW V2 \in SUBSET V, NEW K2 \in SUBSET K
  PROVE  /\ Unicas(K) => Unicas(K2)
         /\ Casadas(I, K) => Casadas(I2, K2)
         /\ Acusadas(V, K, R) => Acusadas(V2, K2, R)
BY DEF Unicas, Casadas, Acusadas

\* A packet that is not a publication changes neither the copies nor the keys.
LEMMA PacoteMudo ==
  ASSUME NEW S, NEW s \in Seq(S), NEW p \in S, NEW r \in {s, Append(s, p)}, p.tipo # "PUBLISH"
  PROVE  /\ Corpos(Itens(r)) = Corpos(Itens(s))
         /\ \A K : Casadas(Itens(s), K) => Casadas(Itens(r), K)
<1>1. Itens(r) = Itens(s) \/ Itens(r) = Itens(s) \cup {p}
  <2>1. Itens(Append(s, p)) = Itens(s) \cup {p}
    BY ItensAnexo
  <2> QED
    BY <2>1
<1>2. Corpos(Itens(s) \cup {p}) = Corpos(Itens(s))
  BY CorposDaUniao
<1> QED
  BY <1>1, <1>2 DEF Casadas

LEMMA CorposVazio == Corpos(Itens(<<>>)) = {} /\ Itens(<<>>) = {}
BY ItensVazio DEF Corpos

LEMMA RetiraChaves ==
  ASSUME NEW o \in Seq(Item), NEW i \in DOMAIN o
  PROVE  Chaves(Remove(o, i)) \subseteq Chaves(o) /\ <<o[i].id, o[i].tipo, o[i].corpo>> \in Chaves(o)
BY RetiraItem DEF Chaves

\* Nothing of the promise changes.
LEMMA TelParado ==
  ASSUME TelInv, UNCHANGED <<cpc, n, recebidas, publicadas>>,
         Corpos(Itens(outbox))' = Corpos(Itens(outbox)), Corpos(Itens(ida))' = Corpos(Itens(ida)),
         Distintas(outbox)', Unicas(Chaves(outbox))', Casadas(Itens(ida), Chaves(outbox))',
         Acusadas(Itens(volta), Chaves(outbox), recebidas)'
  PROVE  TelPasso
BY DEF TelPasso, TelInv, Usados, Abstrata!vars

LEMMA TelTarefa ==
  DadosEntrada /\ TelInv /\ esp_mqtt_task /\ UNCHANGED <<cpc, n>> => TelPasso
<1> SUFFICES ASSUME DadosInv, TelInv, esp_mqtt_task, UNCHANGED <<cpc, n>> PROVE TelPasso
  BY DEF DadosEntrada
<1> DEFINE K == Chaves(outbox)
           P == Corpos(Itens(outbox))
           E == Corpos(Itens(ida))
<1>0. /\ ida \in Seq(PacIda(aplicados)) /\ volta \in Seq(PacVolta) /\ outbox \in Seq(Item)
      /\ \A i \in DOMAIN outbox : outbox[i] \in Item /\ outbox[i] \in Itens(outbox)
  BY RetiraItem DEF DadosInv
<1>1. /\ P \cup E \cup recebidas \cup publicadas \subseteq Usados /\ Usados' = Usados
      /\ Distintas(outbox) /\ Unicas(K) /\ Casadas(Itens(ida), K) /\ Acusadas(Itens(volta), K, recebidas)
  BY DEF TelInv, Usados
<1>2. CASE Parado
  BY <1>2, TelParado DEF Parado, Mudo, TelInv
<1>3. CASE Corta \/ Acaba \/ Recomeca
  <2>1. UNCHANGED <<recebidas, publicadas>>
    BY <1>3 DEF Corta, Acaba, Recomeca, Mudo
  <2>2. Corpos(Itens(ida))' = {} /\ Casadas(Itens(ida'), K)
    <3>1. CASE ida' = <<>>
      BY <3>1, CorposVazio DEF Casadas
    <3>2. CASE Recomeca
      <4> DEFINE p == Curto("CONNECT", SEM_ID)
      <4>1. p.tipo # "PUBLISH"
        BY DEF Curto, Pacote
      <4> HIDE DEF p
      <4>2. Itens(<<p>>) = {p}
        BY DEF Itens
      <4>3. ida' = <<p>>
        BY <3>2 DEF Recomeca, p
      <4> QED
        BY <4>1, <4>2, <4>3 DEF Corpos, Casadas
    <3> QED
      BY <1>3, <3>1, <3>2 DEF Corta, Acaba
  <2>3. Itens(volta') \subseteq Itens(volta)
    BY <1>3, CorposVazio DEF Corta, Acaba, Recomeca
  <2>4. CASE outbox' = outbox
    <3>1. TelInv'
      BY <1>1, <2>1, <2>2, <2>3, <2>4, ConjuntosMenores DEF TelInv
    <3>2. Abstrata!Perde
      BY <2>1, <2>2, <2>4 DEF Abstrata!Perde
    <3> QED
      BY <3>1, <3>2 DEF TelPasso, Abstrata!Next
  <2>5. CASE outbox' = <<>>
    <3>1. Chaves(outbox') = {} /\ Corpos(Itens(outbox')) = {} /\ Distintas(outbox')
      BY <2>5, CorposVazio DEF Chaves, Distintas
    <3>2. TelInv'
      BY <1>1, <2>1, <2>2, <3>1 DEF TelInv, Unicas, Casadas, Acusadas
    <3>3. Abstrata!Encerra
      BY <2>1, <2>2, <3>1 DEF Abstrata!Encerra
    <3> QED
      BY <3>2, <3>3 DEF TelPasso, Abstrata!Next
  <2> QED
    BY <1>3, <2>4, <2>5 DEF Corta, Acaba, Recomeca
<1>4. CASE Retira
  <2>1. PICK i \in DOMAIN outbox : outbox' = Remove(outbox, i) /\ UNCHANGED <<ida, volta>> /\ Mudo
    BY <1>4 DEF Retira
  <2>2. Chaves(outbox') \subseteq K /\ Distintas(outbox')
    BY <1>0, <1>1, <2>1, RetiraChaves, RetiraItem
  <2>3. /\ outbox[i].tipo # "PUBLISH" => Corpos(Itens(outbox')) = P
        /\ outbox[i].tipo = "PUBLISH" => Corpos(Itens(outbox')) = P \ {outbox[i].corpo} /\ outbox[i].corpo \in P
    BY <1>0, <1>1, <2>1, RetiraItem DEF Corpos
  <2>4. UNCHANGED <<recebidas, publicadas>>
    BY <2>1 DEF Mudo
  <2>5. TelInv'
    BY <1>1, <2>1, <2>2, <2>3, <2>4, ConjuntosMenores DEF TelInv
  <2>6. CASE outbox[i].tipo # "PUBLISH"
    BY <2>1, <2>3, <2>4, <2>5, <2>6 DEF TelPasso, Abstrata!vars
  <2>7. CASE outbox[i].tipo = "PUBLISH"
    <3>1. Abstrata!Vence
      BY <2>1, <2>3, <2>4, <2>7 DEF Abstrata!Vence
    <3> QED
      BY <2>5, <3>1 DEF TelPasso, Abstrata!Next
  <2> QED
    BY <2>6, <2>7
<1>5. CASE EscreveItem
  <2>1. PICK i \in DOMAIN outbox :
          /\ ida' \in {ida, Append(ida, DoItem(outbox[i]))}
          /\ outbox' \in {outbox, outbox_set_pending(outbox, outbox[i].id, "TRANSMITTED")}
          /\ UNCHANGED volta /\ Mudo
    BY <1>5 DEF EscreveItem
  <2> DEFINE x == outbox[i]
             p == DoItem(x)
  <2>2. p \in PacIda(aplicados) /\ p.id = x.id /\ p.tipo = x.tipo /\ p.corpo = x.corpo
    BY <1>0, PacotesIda DEF DadosInv, DoItem, Pacote
  <2>3. <<x.id, x.tipo, x.corpo>> \in K /\ (x.tipo = "PUBLISH" => x.corpo \in P)
    BY <1>0 DEF Chaves, Corpos
  <2>4. Itens(Append(ida, p)) = Itens(ida) \cup {p}
    BY <1>0, <2>2, ItensAnexo
  <2> HIDE DEF p, x
  <2>5. ida' \in {ida, Append(ida, p)}
    BY <2>1 DEF p, x
  <2>6. Chaves(outbox') = K /\ Corpos(Itens(outbox')) = P /\ Distintas(outbox')
    BY <1>0, <1>1, <2>1, MarcaItem
  <2>7. UNCHANGED <<recebidas, publicadas, volta>>
    BY <2>1 DEF Mudo
  <2>8. Itens(ida') \subseteq Itens(ida) \cup {p}
    BY <2>4, <2>5
  <2>9. Casadas(Itens(ida) \cup {p}, K)
    BY <1>1, <2>2, <2>3 DEF Casadas, Unicas
  <2>10. Casadas(Itens(ida'), K)
    BY <2>8, <2>9 DEF Casadas
  <2>11. Corpos(Itens(ida')) = E \/ (x.tipo = "PUBLISH" /\ Corpos(Itens(ida')) = E \cup {x.corpo})
    <3>1. Corpos(Itens(ida) \cup {p}) = E \cup IF p.tipo = "PUBLISH" THEN {p.corpo} ELSE {}
      BY CorposDaUniao
    <3> QED
      BY <2>2, <2>4, <2>5, <3>1
  <2>12. TelInv'
    BY <1>1, <2>3, <2>6, <2>7, <2>10, <2>11 DEF TelInv
  <2>13. CASE Corpos(Itens(ida')) = E
    BY <2>6, <2>7, <2>12, <2>13 DEF TelPasso, Abstrata!vars
  <2>14. CASE x.tipo = "PUBLISH" /\ Corpos(Itens(ida')) = E \cup {x.corpo}
    <3>1. Abstrata!Envia
      BY <2>3, <2>6, <2>7, <2>14 DEF Abstrata!Envia
    <3> QED
      BY <2>12, <3>1 DEF TelPasso, Abstrata!Next
  <2> QED
    BY <2>11, <2>13, <2>14
<1>6. CASE Pede
  <2>1. PICK id \in Ids :
          /\ outbox' = outbox_set_pending(outbox_enqueue(outbox, id, "SUBSCRIBE", SEM_ID), id, "TRANSMITTED")
          /\ ida' \in {ida, Append(ida, Curto("SUBSCRIBE", id))}
          /\ UNCHANGED volta /\ Mudo
    BY <1>6 DEF Pede
  <2> DEFINE p == Curto("SUBSCRIBE", id)
             o == outbox_enqueue(outbox, id, "SUBSCRIBE", SEM_ID)
  <2>2. /\ o \in Seq(Item) /\ Chaves(o) = K \cup {<<id, "SUBSCRIBE", SEM_ID>>}
        /\ Corpos(Itens(o)) = P /\ Distintas(o)
    <3>1. SEM_ID \in Nat /\ "SUBSCRIBE" # "PUBLISH"
      BY DEF SEM_ID
    <3>2. SEM_ID \in Nat /\ outbox \in Seq(Item)
      BY <1>0, <3>1
    <3>3. o \in Seq(Item)
      BY <3>2, AnexaItem
    <3>4. Chaves(o) = K \cup {<<id, "SUBSCRIBE", SEM_ID>>}
      BY <3>2, AnexaItem
    <3>5. Corpos(Itens(o)) = P /\ Distintas(o)
      <4>1. Corpos(Itens(o)) = P
        BY <3>1, <3>2, AnexaItem
      <4>2. Distintas(outbox) => Distintas(o)
        BY <3>1, <3>2, AnexaItem
      <4> QED
        BY <1>1, <4>1, <4>2
    <3> QED
      BY <3>3, <3>4, <3>5
  <2>3. p \in PacIda(aplicados) /\ p.tipo # "PUBLISH"
    BY PacotesIda DEF DadosInv, Curto, Pacote
  <2> HIDE DEF o
  <2>4. Chaves(outbox') = Chaves(o) /\ Corpos(Itens(outbox')) = P /\ Distintas(outbox')
    BY <2>1, <2>2, MarcaItem DEF o
  <2> HIDE DEF p
  <2>5. ida' \in {ida, Append(ida, p)}
    BY <2>1 DEF p
  <2>6. Corpos(Itens(ida')) = E /\ Casadas(Itens(ida'), K)
    BY <1>0, <1>1, <2>3, <2>5, PacoteMudo
  <2>7. UNCHANGED <<recebidas, publicadas, volta>>
    BY <2>1 DEF Mudo
  <2>8. /\ Unicas(Chaves(outbox')) /\ Casadas(Itens(ida'), Chaves(outbox'))
        /\ Acusadas(Itens(volta), Chaves(outbox'), recebidas)
    BY <1>1, <2>2, <2>4, <2>6 DEF Unicas, Casadas, Acusadas
  <2> QED
    BY <2>4, <2>6, <2>7, <2>8, TelParado
<1>7. CASE Descarta \/ LePublish
  <2>1. volta # <<>> /\ volta' = Tail(volta) /\ UNCHANGED <<ida, outbox, recebidas, publicadas>>
    BY <1>7 DEF Descarta, Mudo, LePublish, Le, Entrega, EventoData
  <2>2. Itens(volta') \subseteq Itens(volta)
    BY <1>0, <2>1, ItensCauda
  <2>3. Acusadas(Itens(volta'), K, recebidas)
    BY <1>1, <2>2, ConjuntosMenores
  <2> QED
    BY <1>1, <2>1, <2>3, TelParado
<1>8. CASE Escreve(Curto("PINGREQ", SEM_ID)) \/ (Escreve(Curto("PUBACK", entrada)) /\ lpc = "puback")
  <2>1. PICK p \in {Curto("PINGREQ", SEM_ID), Curto("PUBACK", entrada)} : Escreve(p)
    BY <1>8
  <2>2. p.tipo # "PUBLISH"
    BY DEF Curto, Pacote
  <2>3. ida' \in {ida, Append(ida, p)} /\ UNCHANGED <<volta, outbox, recebidas, publicadas>>
    BY <2>1 DEF Escreve, Mudo
  <2> DEFINE S == PacIda(aplicados) \cup {p}
  <2>4. ida \in Seq(S) /\ p \in S
    BY <1>0, SeqMaior
  <2> HIDE DEF S
  <2>5. Corpos(Itens(ida')) = E /\ Casadas(Itens(ida'), K)
    BY <1>1, <2>2, <2>3, <2>4, PacoteMudo
  <2> QED
    BY <1>1, <2>3, <2>5, TelParado
<1>9. CASE LeSuback
  <2> DEFINE i == Iniciador(outbox, Head(volta).id, "SUBSCRIBE")
  <2>1. volta # <<>> /\ volta' = Tail(volta) /\ UNCHANGED <<ida, recebidas, publicadas>>
    BY <1>9 DEF LeSuback, Le, EventoSubscribed, tratadorVars
  <2>2. outbox' = IF i = 0 THEN outbox ELSE Remove(outbox, i)
    BY <1>9 DEF LeSuback, remove_initiator_message, outbox_delete
  <2>3. i # 0 => i \in DOMAIN outbox /\ outbox[i].tipo # "PUBLISH"
    BY <1>0, ApagaItem
  <2> HIDE DEF i
  <2>4. Chaves(outbox') \subseteq K /\ Distintas(outbox') /\ Corpos(Itens(outbox')) = P
    BY <1>0, <1>1, <2>2, <2>3, RetiraItem, RetiraChaves
  <2>5. Itens(volta') \subseteq Itens(volta)
    BY <1>0, <2>1, ItensCauda
  <2>6. /\ Unicas(Chaves(outbox')) /\ Casadas(Itens(ida), Chaves(outbox'))
        /\ Acusadas(Itens(volta'), Chaves(outbox'), recebidas)
    BY <1>1, <2>4, <2>5, ConjuntosMenores
  <2> QED
    BY <2>1, <2>4, <2>6, TelParado
<1>10. CASE LePuback
  <2> DEFINE p == Head(volta)
             i == Iniciador(outbox, p.id, "PUBLISH")
  <2>1. volta # <<>> /\ volta' = Tail(volta) /\ p.tipo = "PUBACK" /\ UNCHANGED <<ida, recebidas>>
    BY <1>10 DEF LePuback, Le
  <2>2. outbox' = IF i = 0 THEN outbox ELSE Remove(outbox, i)
    BY <1>10 DEF LePuback, remove_initiator_message, outbox_delete
  <2>3. IF i = 0 THEN UNCHANGED tratadorVars ELSE EventoPublished(outbox[i].corpo)
    BY <1>10, Zenon DEF LePuback
  <2>4. i # 0 => i \in DOMAIN outbox /\ outbox[i].id = p.id /\ outbox[i].tipo = "PUBLISH"
    BY <1>0, ApagaItem
  <2> HIDE DEF i, p
  <2>5. p \in Itens(volta) /\ Itens(volta') \subseteq Itens(volta)
    BY <1>0, <2>1, ItensCauda DEF p
  <2>6. CASE i = 0
    <3>1. UNCHANGED <<outbox, publicadas>>
      BY <2>2, <2>3, <2>6 DEF tratadorVars
    <3>2. Acusadas(Itens(volta'), K, recebidas)
      BY <1>1, <2>5, ConjuntosMenores
    <3> QED
      BY <1>1, <2>1, <3>1, <3>2, TelParado
  <2>7. CASE i # 0
    <3> DEFINE m == outbox[i].corpo
    <3>1. publicadas' = publicadas \cup {m}
      BY <2>3, <2>7 DEF EventoPublished
    <3>2. Chaves(outbox') \subseteq K /\ Distintas(outbox') /\ Corpos(Itens(outbox')) = P \ {m}
      BY <1>0, <1>1, <2>2, <2>4, <2>7, RetiraItem, RetiraChaves
    <3>3. <<outbox[i].id, outbox[i].tipo, m>> \in K /\ m \in P
      BY <1>0, <2>4, <2>7 DEF Chaves, Corpos
    <3>4. m \in recebidas
      BY <1>1, <2>1, <2>4, <2>5, <2>7, <3>3 DEF Acusadas
    <3> HIDE DEF m
    <3>5. TelInv'
      <4>1. /\ Unicas(Chaves(outbox')) /\ Casadas(Itens(ida), Chaves(outbox'))
            /\ Acusadas(Itens(volta'), Chaves(outbox'), recebidas)
        BY <1>1, <2>5, <3>2, ConjuntosMenores
      <4> QED
        BY <1>1, <2>1, <3>1, <3>2, <3>3, <4>1 DEF TelInv
    <3>6. Abstrata!Reporta
      BY <2>1, <3>1, <3>2, <3>3, <3>4 DEF Abstrata!Reporta
    <3> QED
      BY <3>5, <3>6 DEF TelPasso, Abstrata!Next
  <2> QED
    BY <2>6, <2>7
<1> QED
  BY <1>2, <1>3, <1>4, <1>5, <1>6, <1>7, <1>8, <1>9, <1>10, EfeitoTarefa

LEMMA TelBroker ==
  DadosEntrada /\ TelInv /\ BrokerNext /\ UNCHANGED <<publicadas, outbox, cpc, n>> => TelPasso
<1> SUFFICES ASSUME DadosInv, TelInv, BrokerNext, UNCHANGED <<publicadas, outbox, cpc, n>> PROVE TelPasso
  BY DEF DadosEntrada
<1> DEFINE K == Chaves(outbox)
           E == Corpos(Itens(ida))
<1>0. ida \in Seq(PacIda(aplicados)) /\ volta \in Seq(PacVolta)
  BY DEF DadosInv
<1>1. /\ Corpos(Itens(outbox)) \cup E \cup recebidas \cup publicadas \subseteq Usados /\ Usados' = Usados
      /\ Distintas(outbox) /\ Unicas(K) /\ Casadas(Itens(ida), K) /\ Acusadas(Itens(volta), K, recebidas)
  BY DEF TelInv, Usados
<1>2. CASE BrokerRecebe
  <2> DEFINE p == Head(ida)
  <2>1. ida # <<>> /\ ida' = Tail(ida)
    BY <1>2 DEF BrokerRecebe
  <2>2. p \in PacIda(aplicados) /\ Itens(ida) = Itens(ida') \cup {p}
    BY <1>0, <2>1, ItensCauda
  <2> HIDE DEF p
  <2>3. RecebeConnect(p) \/ RecebeSubscribe(p) \/ RecebePublish(p) \/ RecebePuback(p) \/ RecebePingreq(p)
    BY <1>2 DEF BrokerRecebe, p
  <2>4. Casadas(Itens(ida'), K)
    BY <1>1, <2>2, ConjuntosMenores
  <2>5. E = Corpos(Itens(ida')) \cup IF p.tipo = "PUBLISH" THEN {p.corpo} ELSE {}
    BY <2>2, CorposDaUniao
  <2>6. CASE RecebePublish(p)
    <3> DEFINE q == Curto("PUBACK", p.id)
    <3>1. p.tipo = "PUBLISH" /\ recebidas' = recebidas \cup {p.corpo} /\ volta' = Append(volta, q)
      BY <2>6 DEF RecebePublish, Responde
    <3>2. q \in PacVolta /\ q.id = p.id
      BY <2>2, <3>1, PacotesVolta DEF PacIda, Curto, Pacote
    <3> HIDE DEF q
    <3>3. Itens(volta') = Itens(volta) \cup {q}
      BY <1>0, <3>1, <3>2, ItensAnexo
    <3>4. \A k \in K : k[2] = "PUBLISH" /\ k[1] = q.id => k[3] \in recebidas'
      BY <1>1, <2>2, <3>1, <3>2 DEF Casadas
    <3>5. Acusadas(Itens(volta'), K, recebidas')
      BY <1>1, <3>1, <3>3, <3>4 DEF Acusadas
    <3>6. TelInv'
      BY <1>1, <2>4, <2>5, <3>1, <3>5 DEF TelInv
    <3>7. Abstrata!Entrega
      <4>1. p.corpo \in E /\ Corpos(Itens(ida')) \in {E, E \ {p.corpo}}
        BY <2>5, <3>1
      <4> QED
        BY <3>1, <4>1 DEF Abstrata!Entrega
    <3> QED
      BY <3>6, <3>7 DEF TelPasso, Abstrata!Next
  <2>7. CASE ~RecebePublish(p)
    <3>1. p.tipo # "PUBLISH" /\ recebidas' = recebidas
      BY <2>3, <2>7 DEF RecebeConnect, RecebeSubscribe, RecebePuback, RecebePingreq
    <3>2. \/ volta' = volta
          \/ \E q \in PacVolta : q.tipo # "PUBACK" /\ volta' = Append(volta, q)
      <4>1. CASE RecebeConnect(p) \/ RecebePingreq(p)
        <5>1. PICK tipo \in {"CONNACK", "CONNACK_RECUSADO", "PINGRESP"} : volta' = Append(volta, Curto(tipo, SEM_ID))
          BY <4>1 DEF RecebeConnect, RecebePingreq, Responde
        <5>2. Curto(tipo, SEM_ID) \in PacVolta /\ Curto(tipo, SEM_ID).tipo # "PUBACK"
          BY PacotesVolta DEF Curto, Pacote
        <5> QED
          BY <5>1, <5>2
      <4>2. CASE RecebeSubscribe(p)
        <5>1. p.id \in Ids
          BY <2>2, <4>2 DEF PacIda, RecebeSubscribe
        <5>2. PICK tipo \in {"SUBACK", "SUBACK_RECUSADO"} : volta' = Append(volta, Curto(tipo, p.id))
          BY <4>2 DEF RecebeSubscribe, Responde
        <5>3. Curto(tipo, p.id) \in PacVolta /\ Curto(tipo, p.id).tipo # "PUBACK"
          BY <5>1, PacotesVolta DEF Curto, Pacote
        <5> QED
          BY <5>2, <5>3
      <4>3. CASE RecebePuback(p)
        BY <4>3 DEF RecebePuback
      <4> QED
        BY <2>3, <2>7, <4>1, <4>2, <4>3
    <3>3. Acusadas(Itens(volta'), K, recebidas)
      <4>1. CASE volta' = volta
        BY <1>1, <4>1
      <4>2. ASSUME NEW q \in PacVolta, q.tipo # "PUBACK", volta' = Append(volta, q)
            PROVE  Acusadas(Itens(volta'), K, recebidas)
        <5>1. Itens(volta') = Itens(volta) \cup {q}
          BY <1>0, <4>2, ItensAnexo
        <5> QED
          BY <1>1, <4>2, <5>1 DEF Acusadas
      <4> QED
        BY <3>2, <4>1, <4>2
    <3>4. Corpos(Itens(ida')) = E
      BY <2>5, <3>1
    <3> QED
      BY <1>1, <2>4, <3>1, <3>3, <3>4, TelParado
  <2> QED
    BY <2>6, <2>7
<1>3. CASE BrokerEnvia
  <2>1. PICK c \in Comandos : volta' = Append(volta, Pacote("PUBLISH", c, c))
    BY <1>3 DEF BrokerEnvia
  <2> DEFINE q == Pacote("PUBLISH", c, c)
  <2>2. q \in PacVolta /\ q.tipo # "PUBACK"
    BY PacotesVolta DEF Pacote
  <2> HIDE DEF q
  <2>3. Itens(volta') = Itens(volta) \cup {q}
    BY <1>0, <2>1, <2>2, ItensAnexo DEF q
  <2>4. UNCHANGED <<ida, recebidas>>
    BY <1>3 DEF BrokerEnvia
  <2>5. Acusadas(Itens(volta'), K, recebidas)
    BY <1>1, <2>2, <2>3 DEF Acusadas
  <2> QED
    BY <1>1, <2>4, <2>5, TelParado
<1>4. CASE Cai
  <2>1. ida' = <<>> /\ volta' \in {volta, <<>>} /\ UNCHANGED recebidas
    BY <1>4 DEF Cai
  <2>2. Itens(ida') = {} /\ Corpos(Itens(ida')) = {} /\ Itens(volta') \subseteq Itens(volta)
    BY <2>1, CorposVazio
  <2>3. Casadas(Itens(ida'), K) /\ Acusadas(Itens(volta'), K, recebidas)
    BY <1>1, <2>2 DEF Casadas, Acusadas
  <2>4. TelInv'
    BY <1>1, <2>1, <2>2, <2>3 DEF TelInv
  <2>5. Abstrata!Perde
    BY <2>1, <2>2 DEF Abstrata!Perde
  <2> QED
    BY <2>4, <2>5 DEF TelPasso, Abstrata!Next
<1> QED
  BY <1>2, <1>3, <1>4 DEF BrokerNext

\* A publication takes an identifier that nothing on its way uses.
LEMMA TelPublica == DadosEntrada /\ TelInv /\ Publica => TelPasso
<1> SUFFICES ASSUME DadosInv, TelInv, Publica PROVE TelPasso
  BY DEF DadosEntrada
<1> DEFINE K == Chaves(outbox)
           P == Corpos(Itens(outbox))
           E == Corpos(Itens(ida))
<1>0. ida \in Seq(PacIda(aplicados)) /\ volta \in Seq(PacVolta) /\ outbox \in Seq(Item)
  BY DEF DadosInv
<1>1. /\ P \cup E \cup recebidas \cup publicadas \subseteq Usados
      /\ Distintas(outbox) /\ Unicas(K) /\ Casadas(Itens(ida), K) /\ Acusadas(Itens(volta), K, recebidas)
  BY DEF TelInv
<1>2. cpc = "montada" /\ cpc' = "fora" /\ n' = n /\ (Parado \/ EmFila(n))
  BY EfeitoPublica
<1>3. n \in 1 .. MaxPub /\ n \in Nat /\ n \notin Usados /\ Usados \cup {n} \subseteq Usados'
  BY <1>2, MaxPubAssumption DEF DadosInv, Usados
<1>4. CASE Parado
  <2>1. UNCHANGED <<ida, volta, outbox, recebidas, publicadas>>
    BY <1>4 DEF Parado, Mudo
  <2>2. TelInv'
    BY <1>1, <1>3, <2>1 DEF TelInv
  <2> QED
    BY <2>1, <2>2 DEF TelPasso, Abstrata!vars
<1>5. CASE EmFila(n)
  <2>1. PICK id \in Ids :
          /\ IdNovo(id)
          /\ \/ /\ outbox' = outbox_enqueue(outbox, id, "PUBLISH", n)
                /\ UNCHANGED <<ida, volta>> \/ (ida' = <<>> /\ volta' = <<>>)
             \/ /\ outbox' = outbox_set_pending(outbox_enqueue(outbox, id, "PUBLISH", n), id, "TRANSMITTED")
                /\ ida' \in {ida, Append(ida, Pacote("PUBLISH", id, n))}
                /\ UNCHANGED volta
          /\ Mudo
    BY <1>5 DEF EmFila
  <2> DEFINE p == Pacote("PUBLISH", id, n)
             o == outbox_enqueue(outbox, id, "PUBLISH", n)
  <2>2. UNCHANGED <<recebidas, publicadas>>
    BY <2>1 DEF Mudo
  <2>3. /\ \A x \in Itens(ida) \cup Itens(volta) : x.id # id
        /\ \A k \in K : k[1] # id
    BY <2>1 DEF IdNovo, EmUso, Chaves
  <2>4. p \in PacIda(aplicados) /\ p.tipo = "PUBLISH" /\ p.id = id /\ p.corpo = n
    BY <1>3, PacotesIda DEF DadosInv, Pacote
  <2>5. o \in Seq(Item) /\ Chaves(o) = K \cup {<<id, "PUBLISH", n>>}
    BY <1>0, <1>3, AnexaItem
  <2>6. Corpos(Itens(o)) = P \cup {n}
    BY <1>0, <1>3, AnexaItem
  <2>7. Distintas(o)
    <3>1. n \notin P
      BY <1>1, <1>3
    <3>2. Distintas(outbox) /\ ("PUBLISH" = "PUBLISH" => n \notin P) => Distintas(o)
      BY <1>0, <1>3, AnexaItem
    <3> QED
      BY <1>1, <3>1, <3>2
  <2>8. Itens(Append(ida, p)) = Itens(ida) \cup {p} /\ Corpos(Itens(ida) \cup {p}) = E \cup {n}
    <3>1. Itens(Append(ida, p)) = Itens(ida) \cup {p}
      BY <1>0, <2>4, ItensAnexo
    <3>2. Corpos(Itens(ida) \cup {p}) = E \cup IF p.tipo = "PUBLISH" THEN {p.corpo} ELSE {}
      BY CorposDaUniao
    <3> QED
      BY <2>4, <3>1, <3>2
  <2> HIDE DEF p, o
  <2>9. /\ outbox' \in {o, outbox_set_pending(o, id, "TRANSMITTED")}
        /\ ida' \in {ida, <<>>, Append(ida, p)}
        /\ volta' \in {volta, <<>>}
    BY <2>1 DEF o, p
  <2>10. Chaves(outbox') = K \cup {<<id, "PUBLISH", n>>} /\ Corpos(Itens(outbox')) = P \cup {n} /\ Distintas(outbox')
    <3>1. LET r == outbox_set_pending(o, id, "TRANSMITTED") IN
          Chaves(r) = Chaves(o) /\ Corpos(Itens(r)) = Corpos(Itens(o)) /\ Distintas(r)
      BY <2>5, <2>7, MarcaItem
    <3> QED
      BY <2>5, <2>6, <2>7, <2>9, <3>1
  <2>11. Itens(ida') \subseteq Itens(ida) \cup {p} /\ Corpos(Itens(ida')) \in {E, E \cup {n}, {}}
    BY <2>8, <2>9, CorposVazio
  <2>12. Itens(volta') \subseteq Itens(volta)
    BY <2>9, CorposVazio
  <2>13. Unicas(Chaves(outbox'))
    BY <1>1, <2>3, <2>10 DEF Unicas
  <2>14. Casadas(Itens(ida'), Chaves(outbox'))
    <3>1. Casadas(Itens(ida) \cup {p}, K \cup {<<id, "PUBLISH", n>>})
      BY <1>1, <2>3, <2>4 DEF Casadas
    <3> QED
      BY <2>10, <2>11, <3>1 DEF Casadas
  <2>15. Acusadas(Itens(volta'), Chaves(outbox'), recebidas)
    <3>1. Acusadas(Itens(volta), K \cup {<<id, "PUBLISH", n>>}, recebidas)
      BY <1>1, <2>3 DEF Acusadas
    <3> QED
      BY <2>10, <2>12, <3>1 DEF Acusadas
  <2>16. TelInv'
    BY <1>1, <1>3, <2>2, <2>10, <2>11, <2>13, <2>14, <2>15 DEF TelInv
  <2>17. Abstrata!Aceita
    <3>1. n \in (1 .. MaxPub) \ (P \cup E \cup recebidas \cup publicadas)
      BY <1>1, <1>3
    <3> QED
      BY <2>2, <2>10, <2>11, <3>1 DEF Abstrata!Aceita
  <2> QED
    BY <2>16, <2>17 DEF TelPasso, Abstrata!Next
<1> QED
  BY <1>2, <1>4, <1>5

LEMMA TelPassos == DadosEntrada /\ TelInv /\ [Next]_todas => TelPasso
<1> SUFFICES ASSUME DadosEntrada, TelInv, [Next]_todas PROVE TelPasso
  OBVIOUS
<1>1. CASE esp_mqtt_task /\ UNCHANGED <<cpc, n>>
  BY <1>1, TelTarefa
<1>2. CASE BrokerNext /\ UNCHANGED <<tratadorVars, libVars, cpc, n>>
  BY <1>2, TelBroker DEF tratadorVars, libVars
<1>3. CASE Publica
  BY <1>3, TelPublica
<1>4. CASE Monta
  <2>1. UNCHANGED <<ida, volta, outbox, recebidas, publicadas>> /\ cpc = "fora" /\ n' = n + 1
    BY <1>4 DEF Monta, vars, brokerVars, tratadorVars, libVars
  <2>2. Usados \subseteq Usados'
    BY <2>1, MaxPubAssumption DEF Usados, DadosEntrada, DadosInv
  <2>3. TelInv'
    BY <2>1, <2>2 DEF TelInv
  <2> QED
    BY <2>1, <2>3 DEF TelPasso, Abstrata!vars
<1>5. CASE Ignora \/ UNCHANGED todas
  <2>1. UNCHANGED <<ida, volta, outbox, recebidas, publicadas, cpc, n>>
    BY <1>5 DEF Ignora, todas, vars, brokerVars, tratadorVars, libVars
  <2> QED
    BY <2>1, TelParado DEF TelInv
<1> QED
  BY <1>1, <1>2, <1>3, <1>4, <1>5 DEF Next, mqttclient_publish_telemetry

LEMMA TelInicio == Init => TelInv /\ Abstrata!Init
<1> SUFFICES ASSUME Init PROVE TelInv /\ Abstrata!Init
  OBVIOUS
<1>1. ida = <<>> /\ volta = <<>> /\ outbox = <<>> /\ recebidas = {} /\ publicadas = {}
  BY DEF Init, BrokerInit, TratadorInit, LibInit
<1>2. Itens(<<>>) = {} /\ Corpos(Itens(<<>>)) = {} /\ Chaves(<<>>) = {} /\ Distintas(<<>>)
  BY CorposVazio DEF Chaves, Distintas
<1> QED
  BY <1>1, <1>2 DEF TelInv, Unicas, Casadas, Acusadas, Abstrata!Init

\* The client delivers the telemetry it accepts at least once, gives up only what
\* waited too long, and reports as published only what the broker has.
THEOREM MqttTelemetria == Spec => ImplementaTelemetria
<1>1. DadosEntrada /\ TelInv /\ [Next]_todas => TelInv' /\ [Abstrata!Next]_(Abstrata!vars)
  BY TelPassos DEF TelPasso
<1> QED
  BY <1>1, DadosInicio, DadosPasso, TelInicio, PTL DEF Spec, ImplementaTelemetria, Abstrata!Spec

-----------------------------------------------------------------------------
(***************************************************************************)
(* The creation of the client.  The resources are obtained in a fixed      *)
(* order, so the proof follows a place in it: what comes before the place  *)
(* is there, but for what the code does not look at, and the way back      *)
(* never meets a pointer twice because only the two buffers are ever left  *)
(* stale, once the configuration that led to them is gone.                 *)
(***************************************************************************)
\* Where each resource stands in the order of the code.
Lugar == [client |-> 1, error_handle |-> 2, api_lock |-> 3, outbox |-> 4, outbox_list |-> 5,
          status_bits |-> 6, config |-> 7, buffer |-> 8, in_buffer |-> 9, username |-> 10,
          password |-> 11, client_id |-> 12, uri |-> 13, crt_bundle_attach |-> 14, scheme |-> 15,
          host |-> 16, event_loop |-> 17, handler |-> 18, task |-> 19, transport_list |-> 20,
          ssl |-> 21, verificacao |-> 22]

Cliente == {"client"} \cup Membros(Dados)
Conexao == {"transport_list", "ssl", "verificacao"}

\* What the construction may have passed without obtaining it.
Incertos == {"scheme", "host", "event_loop"} \cup Conexao

SemReserva == faltou \cap {"buffer", "in_buffer"} # {}
SemEsquema == faltou \cap {"scheme", "transport_list", "ssl"} # {}

InicioTipos ==
  /\ ipc \in Recursos \cup {"destroy_config", "destroy", "destroy_client", "devolve", "fim",
                            "parado", "conecta", "sem_tarefa"}
  /\ rec \in [Recursos -> {"nulo", "vivo", "solto"}]

\* Only the buffers are ever stale, once the configuration is gone; and without a
\* configuration only the client holds anything.
Ponteiros ==
  /\ ~duplo
  /\ \A r \in Recursos : rec[r] = "solto" => r \in {"buffer", "in_buffer"} /\ rec["config"] = "nulo"
  /\ rec["config"] = "nulo" => \A r \in Recursos \ Cliente : rec[r] # "vivo"

\* The construction before resource ipc: what comes before it is there, but for
\* what the code does not look at.
Montado ==
  /\ \A r \in Recursos : rec[r] # "solto" /\ (Lugar[r] < Lugar[ipc] /\ r \notin Incertos => rec[r] = "vivo")
  /\ Lugar[ipc] > Lugar["scheme"] => rec["scheme"] = "vivo" \/ "scheme" \in faltou
  /\ Lugar[ipc] > Lugar["event_loop"] => s_client = "vivo"
  /\ Lugar[ipc] > Lugar["handler"] => rec["event_loop"] = "vivo"
  /\ Lugar[ipc] > Lugar["transport_list"] => rec["scheme"] = "vivo" /\ rec["transport_list"] = "vivo"
  /\ Lugar[ipc] > Lugar["ssl"] => rec["ssl"] = "vivo"

\* A configuration that was destroyed, and a caller that was told ESP_OK.
Enganado == ipc = "event_loop" /\ rec["config"] = "nulo" /\ SemReserva

Construcao ==
  /\ ipc \in Recursos => Montado \/ Enganado
  /\ ipc = "conecta" => s_client = "vivo" /\ \A r \in Recursos \ {"host"} : rec[r] = "vivo"
  /\ ipc = "parado" => SemReserva
  /\ ipc = "sem_tarefa" => SemEsquema

\* The way back.
Desmonte ==
  /\ (ipc \in Recursos => Lugar[ipc] <= Lugar["task"]) /\ ipc \notin {"conecta", "sem_tarefa"} =>
       \A r \in {"task"} \cup Conexao : rec[r] # "vivo"
  /\ ipc = "destroy_config" => err # "ESP_OK" \/ SemReserva
  /\ ipc = "destroy_client" => rec["config"] = "nulo"
  /\ ipc \in {"devolve", "fim"} => \A r \in Recursos : rec[r] # "vivo"
  /\ ipc = "fim" => s_client = "nulo"
  /\ ipc = "client" => \A r \in Recursos : rec[r] = "nulo"

InicioInv == InicioTipos /\ Ponteiros /\ Construcao /\ Desmonte

LEMMA OrdemLista ==
  /\ Len(Ordem) = 22 /\ DOMAIN Ordem = 1 .. 22
  /\ Ordem[1] = "client" /\ Ordem[2] = "error_handle" /\ Ordem[3] = "api_lock"
  /\ Ordem[4] = "outbox" /\ Ordem[5] = "outbox_list" /\ Ordem[6] = "status_bits"
  /\ Ordem[7] = "config" /\ Ordem[8] = "buffer" /\ Ordem[9] = "in_buffer"
  /\ Ordem[10] = "username" /\ Ordem[11] = "password" /\ Ordem[12] = "client_id"
  /\ Ordem[13] = "uri" /\ Ordem[14] = "crt_bundle_attach" /\ Ordem[15] = "scheme"
  /\ Ordem[16] = "host" /\ Ordem[17] = "event_loop" /\ Ordem[18] = "handler"
  /\ Ordem[19] = "task" /\ Ordem[20] = "transport_list" /\ Ordem[21] = "ssl"
  /\ Ordem[22] = "verificacao"
  BY DEF Ordem, Dados, Reservas, Textos, DaUri, Transporte

LEMMA OrdemLugar ==
  \A i \in 1 .. 22 : Ordem[i] \in DOMAIN Lugar /\ Lugar[Ordem[i]] = i
  BY OrdemLista DEF Lugar

LEMMA Nomes ==
  /\ Recursos = DOMAIN Lugar
  /\ Recursos = {"client", "error_handle", "api_lock", "outbox", "outbox_list", "status_bits",
                 "config", "buffer", "in_buffer", "username", "password", "client_id", "uri",
                 "crt_bundle_attach", "scheme", "host", "event_loop", "handler", "task",
                 "transport_list", "ssl", "verificacao"}
  /\ Membros(Dados) = {"error_handle", "api_lock", "outbox", "outbox_list", "status_bits"}
  /\ Membros(Reservas) = {"config", "buffer", "in_buffer"}
  /\ Membros(Textos) = {"username", "password", "client_id", "uri"}
  /\ Membros(DaUri) = {"scheme", "host"}
<1>1. Recursos = {"client", "error_handle", "api_lock", "outbox", "outbox_list", "status_bits",
                 "config", "buffer", "in_buffer", "username", "password", "client_id", "uri",
                 "crt_bundle_attach", "scheme", "host", "event_loop", "handler", "task",
                 "transport_list", "ssl", "verificacao"}
  BY OrdemLista DEF Recursos
<1>2. Recursos = DOMAIN Lugar
  BY <1>1 DEF Lugar
<1>3. Membros(Dados) = {"error_handle", "api_lock", "outbox", "outbox_list", "status_bits"}
  BY DEF Membros, Dados
<1>4. Membros(Reservas) = {"config", "buffer", "in_buffer"}
  BY DEF Membros, Reservas
<1>5. Membros(Textos) = {"username", "password", "client_id", "uri"}
  BY DEF Membros, Textos
<1>6. Membros(DaUri) = {"scheme", "host"}
  BY DEF Membros, DaUri
<1> QED
  BY <1>1, <1>2, <1>3, <1>4, <1>5, <1>6

LEMMA Lugares ==
  ASSUME NEW r \in Recursos
  PROVE  Lugar[r] \in 1 .. 22 /\ Ordem[Lugar[r]] = r
  BY OrdemLista, OrdemLugar DEF Recursos

LEMMA LugarSeguinte ==
  ASSUME NEW r \in Recursos, r # "verificacao"
  PROVE  Seguinte(r) \in Recursos /\ Lugar[Seguinte(r)] = Lugar[r] + 1
<1>1. Lugar[r] \in 1 .. 22 /\ Ordem[Lugar[r]] = r
  BY Lugares
<1>2. \A j \in DOMAIN Ordem : Ordem[j] = r => j = Lugar[r]
  BY OrdemLista, OrdemLugar
<1>3. (CHOOSE j \in DOMAIN Ordem : Ordem[j] = r) = Lugar[r]
  <2>1. Lugar[r] \in DOMAIN Ordem
    BY <1>1, OrdemLista
  <2> QED
    BY <1>1, <1>2, <2>1
<1>4. Seguinte(r) = Ordem[Lugar[r] + 1]
  BY <1>3 DEF Seguinte
<1>5. Lugar[r] # 22
  BY <1>1, OrdemLista
<1>6. Lugar[r] + 1 \in 1 .. 22
  BY <1>1, <1>5
<1> QED
  BY <1>4, <1>6, OrdemLista, OrdemLugar DEF Recursos

LEMMA Numeracao ==
  /\ Lugar["client"] = 1 /\ Lugar["config"] = 7 /\ Lugar["crt_bundle_attach"] = 14
  /\ Lugar["scheme"] = 15 /\ Lugar["host"] = 16 /\ Lugar["event_loop"] = 17
  /\ Lugar["handler"] = 18 /\ Lugar["task"] = 19 /\ Lugar["transport_list"] = 20
  /\ Lugar["ssl"] = 21 /\ Lugar["verificacao"] = 22
  /\ \A r \in Recursos : /\ Lugar[r] \in Nat
                         /\ r \in Cliente <=> Lugar[r] < 7
                         /\ r \in Conexao <=> Lugar[r] > 19
  /\ \A r, q \in Recursos : Lugar[r] = Lugar[q] => r = q
<1>1. /\ Lugar["client"] = 1 /\ Lugar["config"] = 7 /\ Lugar["crt_bundle_attach"] = 14
      /\ Lugar["scheme"] = 15 /\ Lugar["host"] = 16 /\ Lugar["event_loop"] = 17
      /\ Lugar["handler"] = 18 /\ Lugar["task"] = 19 /\ Lugar["transport_list"] = 20
      /\ Lugar["ssl"] = 21 /\ Lugar["verificacao"] = 22
  BY DEF Lugar
<1>2. ASSUME NEW r \in Recursos
      PROVE  /\ Lugar[r] \in Nat
             /\ r \in Cliente <=> Lugar[r] < 7
             /\ r \in Conexao <=> Lugar[r] > 19
  BY <1>2, Nomes DEF Lugar, Cliente, Conexao
<1>3. \A r, q \in Recursos : Lugar[r] = Lugar[q] => r = q
  BY Lugares
<1> QED
  BY <1>1, <1>2, <1>3

LEMMA InicioInicio == InicioInit => InicioInv
<1> SUFFICES ASSUME InicioInit PROVE InicioInv
  OBVIOUS
<1>1. ipc = "client" /\ duplo = FALSE /\ rec = [r \in Recursos |-> "nulo"]
  BY DEF InicioInit
<1>2. ipc \in Recursos /\ "config" \in Recursos /\ {"task"} \cup Conexao \subseteq Recursos
  BY <1>1, Nomes DEF Conexao
<1>3. \A r \in Recursos : rec[r] = "nulo"
  BY <1>1
<1>4. \A r \in Recursos : ~(Lugar[r] < Lugar[ipc])
  BY <1>1, Lugares, Numeracao
<1>5. Montado
  BY <1>1, <1>3, <1>4, Numeracao DEF Montado
<1> QED
  BY <1>1, <1>2, <1>3, <1>5 DEF InicioInv, InicioTipos, Ponteiros, Construcao, Desmonte

\* What the construction obtains, one resource after the other.
LEMMA ObtemInv ==
  ASSUME InicioInv, NEW r \in Recursos, r \notin {"event_loop"} \cup Conexao,
         r = "handler" => rec["event_loop"] = "vivo", Obtem(r)
  PROVE  InicioInv'
<1>1. /\ ipc = r /\ ipc' = Seguinte(r) /\ rec' = [rec EXCEPT ![r] = "vivo"]
      /\ UNCHANGED <<s_client, duplo, faltou>>
  BY DEF Obtem
<1>2. /\ ipc' \in Recursos /\ Lugar[ipc'] = Lugar[r] + 1 /\ Lugar[r] \in Nat /\ Lugar[r] <= 19
      /\ Lugar[r] # 17
  <2>1. r # "verificacao" /\ "event_loop" \in Recursos
    BY Nomes DEF Conexao
  <2>2. ipc' \in Recursos /\ Lugar[ipc'] = Lugar[r] + 1
    BY <1>1, <2>1, LugarSeguinte
  <2> QED
    BY <2>1, <2>2, Numeracao
<1>3. Montado
  BY <1>1 DEF InicioInv, Construcao, Enganado
<1>4. /\ rec' \in [Recursos -> {"nulo", "vivo", "solto"}] /\ rec'[r] = "vivo"
      /\ \A q \in Recursos : q # r => rec'[q] = rec[q]
  BY <1>1 DEF InicioInv, InicioTipos
<1>5. Montado'
  <2>1. ASSUME NEW q \in Recursos
        PROVE  rec'[q] # "solto" /\ (Lugar[q] < Lugar[ipc'] /\ q \notin Incertos => rec'[q] = "vivo")
    <3>1. CASE q = r
      BY <1>4, <3>1
    <3>2. CASE q # r
      <4>1. Lugar[q] # Lugar[r] /\ Lugar[q] \in Nat
        BY <3>2, Numeracao
      <4>2. Lugar[q] < Lugar[ipc'] => Lugar[q] < Lugar[ipc]
        BY <1>1, <1>2, <4>1
      <4> QED
        BY <1>3, <1>4, <3>2, <4>2 DEF Montado
    <3> QED
      BY <3>1, <3>2
  <2>2. {"scheme", "event_loop", "handler", "transport_list", "ssl"} \subseteq Recursos
    BY Nomes
  <2>3. Lugar[ipc'] > 15 => rec'["scheme"] = "vivo" \/ "scheme" \in faltou'
    <3>1. CASE r = "scheme"
      BY <1>4, <3>1
    <3>2. CASE r # "scheme"
      <4>1. Lugar[ipc'] > 15 => Lugar[ipc] > 15
        BY <1>1, <1>2, <2>2, <3>2, Numeracao
      <4> QED
        BY <1>1, <1>3, <1>4, <2>2, <3>2, <4>1, Numeracao DEF Montado
    <3> QED
      BY <3>1, <3>2
  <2>4. Lugar[ipc'] > 17 => s_client' = "vivo"
    BY <1>1, <1>2, <1>3, Numeracao DEF Montado
  <2>5. Lugar[ipc'] > 18 => rec'["event_loop"] = "vivo"
    <3>1. CASE r = "handler"
      BY <1>4, <2>2, <3>1
    <3>2. CASE r # "handler"
      <4>1. Lugar[ipc'] > 18 => Lugar[ipc] > 18
        BY <1>1, <1>2, <2>2, <3>2, Numeracao
      <4> QED
        BY <1>3, <1>4, <2>2, <4>1, Numeracao DEF Montado
    <3> QED
      BY <3>1, <3>2
  <2>6. ~(Lugar[ipc'] > 20) /\ ~(Lugar[ipc'] > 21)
    BY <1>2
  <2> QED
    BY <2>1, <2>3, <2>4, <2>5, <2>6, Numeracao DEF Montado
<1>6. Ponteiros'
  <2>1. ~duplo' /\ \A q \in Recursos : rec'[q] # "solto"
    BY <1>1, <1>5 DEF InicioInv, Ponteiros, Montado
  <2>2. ASSUME rec'["config"] = "nulo", NEW q \in Recursos \ Cliente PROVE rec'[q] # "vivo"
    <3>1. "config" \in Recursos /\ r # "config" /\ rec["config"] = "nulo"
      BY <1>4, <2>2, Nomes
    <3>2. ~(7 < Lugar[r])
      BY <1>1, <1>3, <3>1, Nomes, Numeracao DEF Montado, Incertos, Conexao
    <3>3. Lugar[r] # 7
      BY <3>1, Numeracao
    <3>4. r \in Cliente
      BY <1>2, <3>2, <3>3, Numeracao
    <3> QED
      BY <1>4, <2>2, <3>1, <3>4 DEF InicioInv, Ponteiros
  <2> QED
    BY <2>1, <2>2 DEF Ponteiros
<1>7. Desmonte'
  <2>1. ASSUME Lugar[ipc'] <= 19, NEW q \in {"task"} \cup Conexao PROVE rec'[q] # "vivo"
    <3>1. Lugar[ipc] <= 19 /\ q # r /\ q \in Recursos
      BY <1>1, <1>2, <2>1, Nomes, Numeracao DEF Conexao
    <3> QED
      BY <1>1, <1>4, <2>1, <3>1, Numeracao, Nomes DEF InicioInv, Desmonte
  <2>2. ipc' \notin {"destroy_config", "destroy", "destroy_client", "devolve", "fim", "parado", "conecta", "sem_tarefa"}
    BY <1>2, Nomes
  <2>3. ipc' # "client"
    BY <1>2, Lugares, Numeracao
  <2> QED
    BY <1>2, <2>1, <2>2, <2>3, Numeracao DEF Desmonte
<1> QED
  <2>1. ipc' \notin {"conecta", "parado", "sem_tarefa"}
    BY <1>2, Nomes
  <2> QED
    BY <1>2, <1>4, <1>5, <1>6, <1>7, <2>1 DEF InicioInv, InicioTipos, Construcao

\* The construction stops and goes back, with what it holds.
LEMMA VoltaInv ==
  ASSUME InicioInv, ipc \in Recursos, Lugar[ipc] <= Lugar["task"],
         UNCHANGED <<rec, duplo>>, ipc' \in {"destroy", "destroy_config"},
         ipc' = "destroy_config" => err' # "ESP_OK" \/ SemReserva'
  PROVE  InicioInv'
<1>1. InicioTipos' /\ Ponteiros'
  BY DEF InicioInv, InicioTipos, Ponteiros
<1>2. ipc' \notin Recursos /\ ipc' \notin {"destroy_client", "devolve", "fim", "parado", "conecta", "sem_tarefa"}
  BY Nomes
<1>3. \A r \in {"task"} \cup Conexao : rec'[r] # "vivo"
  BY Nomes, Numeracao DEF InicioInv, Desmonte
<1> QED
  BY <1>1, <1>2, <1>3 DEF InicioInv, Construcao, Desmonte

\* Freeing what a configuration holds leaves no pointer alive but those of the client.
LEMMA DestroiConfig ==
  ASSUME InicioInv, esp_mqtt_destroy_config, \A r \in {"task"} \cup Conexao : rec[r] # "vivo"
  PROVE  /\ rec' \in [Recursos -> {"nulo", "vivo", "solto"}]
         /\ rec'["config"] = "nulo" /\ Ponteiros'
         /\ \A r \in {"task"} \cup Conexao : rec'[r] # "vivo"
<1>0. {"config", "buffer", "in_buffer", "task"} \cup Conexao \subseteq Recursos
  BY Nomes DEF Conexao
<1>1. CASE rec["config"] = "nulo"
  <2>1. rec' = rec /\ duplo' = duplo
    BY <1>1 DEF esp_mqtt_destroy_config
  <2> QED
    BY <1>1, <2>1 DEF InicioInv, InicioTipos, Ponteiros
<1>2. CASE rec["config"] # "nulo"
  <2>1. /\ rec' = [r \in Recursos |-> IF r \in ApagaConfig THEN "nulo"
                     ELSE IF r \in DaConfig /\ rec[r] = "vivo" THEN "solto" ELSE rec[r]]
        /\ duplo' = (duplo \/ \E r \in DaConfig : rec[r] = "solto")
    BY <1>2 DEF esp_mqtt_destroy_config, Libera
  <2>2. \A r \in Recursos : rec[r] \in {"nulo", "vivo"}
    BY <1>2 DEF InicioInv, InicioTipos, Ponteiros
  <2>3. DaConfig = {"buffer", "in_buffer", "config", "event_loop", "handler", "username", "password",
                    "client_id", "uri", "scheme", "host"}
    BY Nomes DEF DaConfig
  <2>4. ApagaConfig = {"config", "event_loop", "handler", "username", "password",
                    "client_id", "uri", "scheme", "host", "crt_bundle_attach"}
    BY <2>3 DEF ApagaConfig
  <2>5. DaConfig \subseteq Recursos /\ ApagaConfig \subseteq Recursos
    BY <2>3, <2>4, Nomes
  <2>6. ASSUME NEW r \in Recursos
        PROVE  /\ rec'[r] \in {"nulo", "vivo", "solto"}
               /\ rec'[r] = "solto" => r \in {"buffer", "in_buffer"}
               /\ rec'[r] = "vivo" => r \in Cliente \cup {"task"} \cup Conexao /\ rec[r] = "vivo"
    <3>1. rec'[r] = IF r \in ApagaConfig THEN "nulo"
                     ELSE IF r \in DaConfig /\ rec[r] = "vivo" THEN "solto" ELSE rec[r]
      BY <2>1
    <3>2. CASE r \in ApagaConfig
      BY <3>1, <3>2
    <3>3. CASE r \notin ApagaConfig /\ r \in DaConfig
      <4>1. r \in {"buffer", "in_buffer"}
        BY <2>3, <2>4, <3>3
      <4>2. rec'[r] = IF rec[r] = "vivo" THEN "solto" ELSE rec[r]
        BY <3>1, <3>3
      <4> QED
        BY <2>2, <4>1, <4>2
    <3>4. CASE r \notin ApagaConfig /\ r \notin DaConfig
      <4>1. r \in Cliente \cup {"task"} \cup Conexao
        BY <2>3, <2>4, <3>4, Nomes DEF Cliente, Conexao
      <4>2. rec'[r] = rec[r]
        BY <3>1, <3>4
      <4> QED
        BY <2>2, <4>1, <4>2
    <3> QED
      BY <3>2, <3>3, <3>4
  <2>7. rec'["config"] = "nulo"
    <3>1. "config" \in ApagaConfig
      BY <2>4
    <3> QED
      BY <1>0, <2>1, <3>1
  <2>8. rec' \in [Recursos -> {"nulo", "vivo", "solto"}]
    BY <2>1, <2>6
  <2>9. ~duplo'
    <3>1. ~duplo
      BY DEF InicioInv, Ponteiros
    <3>2. \A r \in DaConfig : rec[r] # "solto"
      BY <2>2, <2>5
    <3> QED
      BY <2>1, <3>1, <3>2
  <2>10. \A r \in {"task"} \cup Conexao : rec'[r] # "vivo"
    BY <1>0, <2>6
  <2>11. \A r \in Recursos \ Cliente : rec'[r] # "vivo"
    BY <2>6, <2>10
  <2> QED
    BY <2>6, <2>7, <2>8, <2>9, <2>10, <2>11 DEF Ponteiros
<1> QED
  BY <1>1, <1>2

LEMMA ConfigFalhou ==
  ASSUME InicioInv, set_config_failed
  PROVE  InicioInv'
<1>1. /\ ipc = "destroy_config" /\ esp_mqtt_destroy_config /\ err' = err /\ faltou' = faltou
      /\ ipc' = IF err = "ESP_OK" THEN "event_loop" ELSE "destroy"
  BY DEF set_config_failed
<1>2. (\A r \in {"task"} \cup Conexao : rec[r] # "vivo") /\ (err # "ESP_OK" \/ SemReserva)
  BY <1>1, Nomes DEF InicioInv, Desmonte
<1>3. /\ rec' \in [Recursos -> {"nulo", "vivo", "solto"}]
      /\ rec'["config"] = "nulo" /\ Ponteiros'
      /\ \A r \in {"task"} \cup Conexao : rec'[r] # "vivo"
  BY <1>1, <1>2, DestroiConfig
<1>4. CASE err = "ESP_OK"
  <2>1. ipc' = "event_loop" /\ ipc' \in Recursos
    BY <1>1, <1>4, Nomes
  <2>2. Enganado'
    BY <1>1, <1>2, <1>3, <1>4, <2>1 DEF Enganado, SemReserva
  <2> QED
    BY <1>3, <2>1, <2>2 DEF InicioInv, InicioTipos, Construcao, Desmonte
<1>5. CASE err # "ESP_OK"
  <2>1. ipc' = "destroy" /\ ipc' \notin Recursos
    BY <1>1, <1>5, Nomes
  <2> QED
    BY <1>3, <2>1 DEF InicioInv, InicioTipos, Construcao, Desmonte
<1> QED
  BY <1>4, <1>5

LEMMA DestroiInv ==
  ASSUME InicioInv, esp_mqtt_client_destroy
  PROVE  InicioInv'
<1>1. CASE ipc = "destroy"
  <2>1. ipc' = "destroy_client" /\ esp_mqtt_destroy_config /\ ipc' \notin Recursos
    BY <1>1, Nomes DEF esp_mqtt_client_destroy
  <2>2. \A r \in {"task"} \cup Conexao : rec[r] # "vivo"
    BY <1>1, Nomes DEF InicioInv, Desmonte
  <2>3. /\ rec' \in [Recursos -> {"nulo", "vivo", "solto"}]
        /\ rec'["config"] = "nulo" /\ Ponteiros'
        /\ \A r \in {"task"} \cup Conexao : rec'[r] # "vivo"
    BY <2>1, <2>2, DestroiConfig
  <2> QED
    BY <2>1, <2>3 DEF InicioInv, InicioTipos, Construcao, Desmonte
<1>2. CASE ipc = "destroy_client"
  <2> DEFINE S == {r \in {"client"} \cup Membros(Dados) : rec[r] # "nulo"}
  <2>1. ipc' = "devolve" /\ Libera(S, S) /\ ipc' \notin Recursos
    BY <1>2, Nomes DEF esp_mqtt_client_destroy
  <2>2. rec["config"] = "nulo" /\ ~duplo
    BY <1>2 DEF InicioInv, Desmonte, Ponteiros
  <2>3. S = {r \in Cliente : rec[r] # "nulo"} /\ Cliente \subseteq Recursos
    BY Nomes DEF Cliente
  <2>4. /\ rec' = [r \in Recursos |-> IF r \in S THEN "nulo"
                     ELSE IF r \in S /\ rec[r] = "vivo" THEN "solto" ELSE rec[r]]
        /\ duplo' = (duplo \/ \E r \in S : rec[r] = "solto")
    BY <2>1 DEF Libera
  <2>5. ASSUME NEW r \in Recursos
        PROVE  /\ rec'[r] \in {"nulo", "solto"}
               /\ rec'[r] = "solto" => r \in {"buffer", "in_buffer"}
    <3>1. rec'[r] = IF r \in S THEN "nulo" ELSE rec[r]
      BY <2>4
    <3>2. rec[r] \in {"nulo", "vivo", "solto"} /\ (rec[r] = "solto" => r \in {"buffer", "in_buffer"})
      BY DEF InicioInv, InicioTipos, Ponteiros
    <3>3. rec[r] = "vivo" => r \in S
      BY <2>2, <2>3, <3>2 DEF InicioInv, Ponteiros
    <3> HIDE DEF S
    <3> QED
      BY <3>1, <3>2, <3>3
  <2>6. ~duplo'
    <3>1. \A r \in S : rec[r] # "solto"
      BY <2>3, Nomes DEF InicioInv, Ponteiros, Cliente
    <3> QED
      BY <2>2, <2>4, <3>1
  <2>7. "config" \in Recursos /\ rec'["config"] = "nulo"
    <3>1. "config" \in Recursos
      BY Nomes
    <3>2. rec'["config"] \in {"nulo", "solto"} /\ rec'["config"] # "solto"
      BY <2>5, <3>1
    <3> QED
      BY <3>1, <3>2
  <2>8. rec' \in [Recursos -> {"nulo", "vivo", "solto"}]
    BY <2>4, <2>5
  <2>9. Ponteiros'
    BY <2>5, <2>6, <2>7 DEF Ponteiros
  <2>10. \A r \in Recursos : rec'[r] # "vivo"
    BY <2>5
  <2>11. {"task"} \cup Conexao \subseteq Recursos
    BY Nomes DEF Conexao
  <2> HIDE DEF S
  <2> QED
    BY <2>1, <2>8, <2>9, <2>10, <2>11 DEF InicioInv, InicioTipos, Construcao, Desmonte
<1> QED
  BY <1>1, <1>2 DEF esp_mqtt_client_destroy

\* A part of the address that could not be copied is passed over.
LEMMA SegueInv ==
  ASSUME InicioInv, NEW r \in {"scheme", "host"}, Falta(r, Seguinte(r)), UNCHANGED <<rec, s_client, duplo>>
  PROVE  InicioInv'
<1>1. /\ ipc = r /\ ipc' = Seguinte(r) /\ faltou' = faltou \cup {r} /\ r \in Recursos
      /\ rec' = rec /\ s_client' = s_client /\ duplo' = duplo
  BY Nomes DEF Falta
<1>2. ipc' \in Recursos /\ Lugar[ipc'] = Lugar[r] + 1 /\ Lugar[r] \in 15 .. 16
  BY <1>1, LugarSeguinte, Numeracao
<1>3. Montado
  BY <1>1 DEF InicioInv, Construcao, Enganado
<1>4. Montado'
  <2>1. ASSUME NEW q \in Recursos
        PROVE  rec'[q] # "solto" /\ (Lugar[q] < Lugar[ipc'] /\ q \notin Incertos => rec'[q] = "vivo")
    <3>1. CASE q = r
      BY <1>1, <1>3, <3>1 DEF Incertos, Montado
    <3>2. CASE q # r
      <4>1. Lugar[q] # Lugar[r] /\ Lugar[q] \in Nat
        BY <1>1, <3>2, Numeracao
      <4>2. Lugar[q] < Lugar[ipc'] => Lugar[q] < Lugar[ipc]
        BY <1>1, <1>2, <4>1
      <4> QED
        BY <1>1, <1>3, <4>2 DEF Montado
    <3> QED
      BY <3>1, <3>2
  <2>2. rec'["scheme"] = "vivo" \/ "scheme" \in faltou'
    <3>1. CASE r = "scheme"
      BY <1>1, <3>1
    <3>2. CASE r = "host"
      BY <1>1, <1>3, <3>2, Numeracao DEF Montado
    <3> QED
      BY <3>1, <3>2
  <2>3. Lugar[ipc'] <= 17 /\ Lugar[ipc'] \in Nat
    BY <1>2
  <2> QED
    BY <2>1, <2>2, <2>3, Numeracao DEF Montado
<1>5. Ponteiros'
  BY <1>1 DEF InicioInv, Ponteiros
<1>6. /\ ipc' \notin {"destroy_config", "destroy", "destroy_client", "devolve", "fim", "parado", "conecta", "sem_tarefa"}
      /\ ipc' # "client"
  BY <1>2, Nomes, Numeracao
<1>7. \A q \in {"task"} \cup Conexao : rec'[q] # "vivo"
  BY <1>1, <1>2, Nomes, Numeracao DEF InicioInv, Desmonte
<1> QED
  BY <1>1, <1>2, <1>4, <1>5, <1>6, <1>7 DEF InicioInv, InicioTipos, Construcao, Desmonte

\* No memory for the client itself: there is nothing to give back.
LEMMA SemCliente ==
  ASSUME InicioInv, Falta("client", "devolve"), UNCHANGED <<rec, s_client, duplo>>
  PROVE  InicioInv'
<1>1. ipc = "client" /\ ipc' = "devolve" /\ ipc' \notin Recursos /\ rec' = rec
  BY Nomes DEF Falta
<1>2. \A r \in Recursos : rec'[r] # "vivo"
  BY <1>1 DEF InicioInv, Desmonte
<1>3. {"task"} \cup Conexao \subseteq Recursos
  BY Nomes DEF Conexao
<1>4. Ponteiros'
  BY <1>1 DEF InicioInv, Ponteiros
<1> QED
  BY <1>1, <1>2, <1>3, <1>4 DEF InicioInv, InicioTipos, Construcao, Desmonte

\* No memory for the list of the outbox: the outbox is freed at once.
LEMMA SemLista ==
  ASSUME InicioInv, Falta("outbox_list", "destroy"), Libera({"outbox"}, {"outbox"})
  PROVE  InicioInv'
<1>1. ipc = "outbox_list" /\ ipc' = "destroy" /\ ipc' \notin Recursos /\ ipc \in Recursos
  BY Nomes DEF Falta
<1>2. Montado /\ Lugar["outbox_list"] <= 19
  BY <1>1 DEF InicioInv, Construcao, Enganado, Lugar
<1>3. /\ rec' = [r \in Recursos |-> IF r \in {"outbox"} THEN "nulo"
                    ELSE IF r \in {"outbox"} /\ rec[r] = "vivo" THEN "solto" ELSE rec[r]]
      /\ duplo' = (duplo \/ \E r \in {"outbox"} : rec[r] = "solto")
  BY DEF Libera
<1>4. ~duplo'
  BY <1>2, <1>3, Nomes DEF Montado, InicioInv, Ponteiros
<1>5. \A r \in Recursos : rec'[r] = IF r = "outbox" THEN "nulo" ELSE rec[r]
  BY <1>3
<1>6. rec' \in [Recursos -> {"nulo", "vivo", "solto"}]
  BY <1>3, <1>5 DEF InicioInv, InicioTipos
<1>7. Ponteiros'
  BY <1>4, <1>5, Nomes DEF InicioInv, Ponteiros
<1>8. {"task"} \cup Conexao \subseteq Recursos /\ \A r \in {"task"} \cup Conexao : rec[r] # "vivo"
  BY <1>1, <1>2, Nomes, Numeracao DEF InicioInv, Desmonte, Conexao
<1>9. \A r \in {"task"} \cup Conexao : rec'[r] # "vivo"
  BY <1>5, <1>8
<1> QED
  BY <1>1, <1>6, <1>7, <1>9 DEF InicioInv, InicioTipos, Construcao, Desmonte

LEMMA LacoInv ==
  ASSUME InicioInv, event_loop_create
  PROVE  InicioInv'
<1>1. ipc = "event_loop" /\ s_client' = "vivo" /\ duplo' = duplo /\ ipc \in Recursos
  BY Nomes DEF event_loop_create
<1>2. \A r \in {"task"} \cup Conexao : rec[r] # "vivo"
  BY <1>1, Numeracao DEF InicioInv, Desmonte
<1>3. CASE rec["config"] = "nulo"
  <2>1. ipc' = "parado" /\ rec' = rec /\ faltou' = faltou /\ ipc' \notin Recursos
    BY <1>3, Nomes DEF event_loop_create
  <2>2. Enganado
    BY <1>1, <1>3, Nomes, Numeracao DEF InicioInv, Construcao, Montado, Incertos, Conexao
  <2>3. Ponteiros'
    BY <1>1, <2>1 DEF InicioInv, Ponteiros
  <2> QED
    BY <1>2, <2>1, <2>2, <2>3 DEF InicioInv, InicioTipos, Construcao, Desmonte, Enganado, SemReserva
<1>4. CASE rec["config"] # "nulo"
  <2>1. ipc' = "handler" /\ ipc' \in Recursos /\ Montado
    BY <1>1, <1>4, Nomes DEF event_loop_create, InicioInv, Construcao, Enganado
  <2>2. /\ rec' \in [Recursos -> {"nulo", "vivo", "solto"}]
        /\ \A r \in Recursos : r # "event_loop" => rec'[r] = rec[r]
        /\ rec'["event_loop"] # "solto"
        /\ faltou \subseteq faltou'
    BY <1>4, <2>1, Nomes DEF event_loop_create, InicioInv, InicioTipos, Montado
  <2>3. Montado'
    <3>1. ASSUME NEW q \in Recursos
          PROVE  rec'[q] # "solto" /\ (Lugar[q] < Lugar[ipc'] /\ q \notin Incertos => rec'[q] = "vivo")
      <4>1. CASE q = "event_loop"
        BY <2>2, <4>1 DEF Incertos
      <4>2. CASE q # "event_loop"
        <5>1. Lugar[q] # 17 /\ Lugar[q] \in Nat /\ Lugar[ipc] = 17 /\ Lugar[ipc'] = 18
          BY <1>1, <2>1, <4>2, Numeracao
        <5>2. Lugar[q] < Lugar[ipc'] => Lugar[q] < Lugar[ipc]
          BY <5>1
        <5> QED
          BY <2>1, <2>2, <4>2, <5>2 DEF Montado
      <4> QED
        BY <4>1, <4>2
    <3>2. rec'["scheme"] = "vivo" \/ "scheme" \in faltou'
      BY <1>1, <2>1, <2>2, Nomes, Numeracao DEF Montado
    <3> QED
      BY <1>1, <2>1, <3>1, <3>2, Numeracao DEF Montado
  <2>4. "config" \in Recursos /\ rec'["config"] # "nulo"
    BY <1>4, <2>2, Nomes
  <2>5. Ponteiros'
    BY <1>1, <2>3, <2>4 DEF InicioInv, Ponteiros, Montado
  <2>6. \A r \in {"task"} \cup Conexao : rec'[r] # "vivo"
    <3>1. \A r \in {"task"} \cup Conexao : r # "event_loop" /\ r \in Recursos
      BY Nomes DEF Conexao
    <3> QED
      BY <1>2, <2>2, <3>1
  <2> QED
    BY <2>1, <2>2, <2>3, <2>5, <2>6 DEF InicioInv, InicioTipos, Construcao, Desmonte
<1> QED
  BY <1>3, <1>4

\* The transport of a connection, on a client that has everything it needs.
LEMMA ListaInv ==
  ASSUME InicioInv, create_transport_list
  PROVE  InicioInv'
<1>1. /\ ipc = "transport_list" /\ ipc \in Recursos /\ Lugar[ipc] = 20
      /\ s_client' = s_client /\ duplo' = duplo
  BY Nomes, Numeracao DEF create_transport_list
<1>2. Montado
  BY <1>1 DEF InicioInv, Construcao, Enganado
<1>3. /\ rec' \in [Recursos -> {"nulo", "vivo", "solto"}]
      /\ \A r \in Recursos \ Conexao : rec'[r] = rec[r]
      /\ \A r \in Conexao : rec'[r] # "solto"
  BY Nomes DEF create_transport_list, Conexao, InicioInv, InicioTipos
<1>4. \A r \in Recursos : rec'[r] # "solto"
  BY <1>2, <1>3 DEF Montado
<1>5. rec'["config"] = "vivo" /\ "config" \in Recursos
  BY <1>1, <1>2, <1>3, Nomes, Numeracao DEF Montado, Incertos, Conexao
<1>6. Ponteiros'
  BY <1>1, <1>4, <1>5 DEF InicioInv, Ponteiros
<1>7. CASE ipc' = "ssl"
  <2>1. rec["scheme"] = "vivo" /\ rec'["transport_list"] = "vivo" /\ ipc' \in Recursos /\ Lugar[ipc'] = 21
    BY <1>7, Nomes, Numeracao DEF create_transport_list, InicioInv, InicioTipos
  <2>2. ASSUME NEW q \in Recursos, q \notin Incertos, Lugar[q] < Lugar[ipc'] PROVE rec'[q] = "vivo"
    <3>1. q \notin Conexao /\ Lugar[q] < 20
      BY <2>2, Numeracao DEF Incertos
    <3> QED
      BY <1>1, <1>2, <1>3, <2>2, <3>1 DEF Montado
  <2>3. {"scheme", "event_loop"} \subseteq Recursos \ Conexao
    BY Nomes DEF Conexao
  <2>4. rec'["scheme"] = "vivo" /\ rec'["event_loop"] = "vivo" /\ s_client' = "vivo"
    BY <1>1, <1>2, <1>3, <2>1, <2>3, Numeracao DEF Montado
  <2>5. Montado'
    BY <1>4, <2>1, <2>2, <2>4, Numeracao DEF Montado
  <2>6. ipc' \notin {"destroy_config", "destroy", "destroy_client", "devolve", "fim", "parado", "conecta", "sem_tarefa", "client"}
    BY <1>7
  <2> QED
    BY <1>3, <1>6, <2>1, <2>5, <2>6, Numeracao DEF InicioInv, InicioTipos, Construcao, Desmonte
<1>8. CASE ipc' = "sem_tarefa"
  <2>1. SemEsquema'
    BY <1>1, <1>2, <1>8, Numeracao DEF create_transport_list, Montado, SemEsquema
  <2> QED
    BY <1>3, <1>6, <1>8, <2>1, Nomes DEF InicioInv, InicioTipos, Construcao, Desmonte
<1> QED
  BY <1>7, <1>8 DEF create_transport_list

LEMMA SslInv ==
  ASSUME InicioInv, create_transport_ssl
  PROVE  InicioInv'
<1>1. /\ ipc = "ssl" /\ ipc \in Recursos /\ Lugar[ipc] = 21
      /\ s_client' = s_client /\ duplo' = duplo
  BY Nomes, Numeracao DEF create_transport_ssl, Falta
<1>2. Montado
  BY <1>1 DEF InicioInv, Construcao, Enganado
<1>3. CASE ipc' = "verificacao"
  <2>1. /\ rec' = [rec EXCEPT !["ssl"] = "vivo"] /\ faltou' = faltou
        /\ ipc' \in Recursos /\ Lugar[ipc'] = 22
    BY <1>3, Nomes, Numeracao DEF create_transport_ssl, Falta
  <2>2. /\ rec' \in [Recursos -> {"nulo", "vivo", "solto"}]
        /\ rec'["ssl"] = "vivo" /\ \A r \in Recursos : r # "ssl" => rec'[r] = rec[r]
    BY <2>1, Nomes DEF InicioInv, InicioTipos
  <2>3. ASSUME NEW q \in Recursos
        PROVE  rec'[q] # "solto" /\ (Lugar[q] < Lugar[ipc'] /\ q \notin Incertos => rec'[q] = "vivo")
    <3>1. CASE q = "ssl"
      BY <2>2, <3>1
    <3>2. CASE q # "ssl"
      <4>1. Lugar[q] < Lugar[ipc'] => Lugar[q] < Lugar[ipc]
        BY <1>1, <2>1, <3>2, Numeracao
      <4> QED
        BY <1>2, <2>2, <3>2, <4>1 DEF Montado
    <3> QED
      BY <3>1, <3>2
  <2>4. {"scheme", "event_loop", "transport_list", "config"} \subseteq Recursos \ {"ssl"}
    BY Nomes
  <2>5. /\ rec'["scheme"] = "vivo" /\ rec'["event_loop"] = "vivo" /\ rec'["transport_list"] = "vivo"
        /\ s_client' = "vivo"
    BY <1>1, <1>2, <2>2, <2>4, Numeracao DEF Montado
  <2>6. Montado'
    BY <2>1, <2>2, <2>3, <2>5, Numeracao DEF Montado
  <2>7. rec'["config"] = "vivo"
    BY <1>1, <1>2, <2>2, <2>4, Numeracao DEF Montado, Incertos, Conexao
  <2>8. Ponteiros'
    BY <1>1, <2>3, <2>7 DEF InicioInv, Ponteiros
  <2>9. ipc' \notin {"destroy_config", "destroy", "destroy_client", "devolve", "fim", "parado", "conecta", "sem_tarefa", "client"}
    BY <1>3
  <2> QED
    BY <2>1, <2>2, <2>6, <2>8, <2>9, Numeracao DEF InicioInv, InicioTipos, Construcao, Desmonte
<1>4. CASE ipc' = "sem_tarefa"
  <2>1. rec' = rec /\ SemEsquema'
    BY <1>4 DEF create_transport_ssl, Falta, SemEsquema
  <2>2. Ponteiros'
    BY <1>1, <2>1 DEF InicioInv, Ponteiros
  <2> QED
    BY <1>4, <2>1, <2>2, Nomes DEF InicioInv, InicioTipos, Construcao, Desmonte
<1> QED
  BY <1>3, <1>4 DEF create_transport_ssl, Falta

LEMMA VerificacaoInv ==
  ASSUME InicioInv, set_ssl_transport_properties
  PROVE  InicioInv'
<1>1. /\ ipc = "verificacao" /\ ipc \in Recursos /\ Lugar[ipc] = 22
      /\ s_client' = s_client /\ duplo' = duplo /\ ipc' = "conecta" /\ ipc' \notin Recursos
      /\ rec' = [rec EXCEPT !["verificacao"] = rec["crt_bundle_attach"]]
  BY Nomes, Numeracao DEF set_ssl_transport_properties
<1>2. Montado
  BY <1>1 DEF InicioInv, Construcao, Enganado
<1>3. \A r \in Recursos \ {"host", "verificacao"} : rec[r] = "vivo"
  BY <1>1, <1>2, Nomes, Numeracao DEF Montado, Incertos, Conexao
<1>4. {"crt_bundle_attach", "config", "host", "verificacao"} \subseteq Recursos
  BY Nomes
<1>5. /\ rec' \in [Recursos -> {"nulo", "vivo", "solto"}]
      /\ \A r \in Recursos \ {"host"} : rec'[r] = "vivo"
      /\ rec'["host"] # "solto"
  BY <1>1, <1>2, <1>3, <1>4 DEF InicioInv, InicioTipos, Montado
<1>6. Ponteiros'
  BY <1>1, <1>4, <1>5 DEF InicioInv, Ponteiros
<1>7. s_client' = "vivo"
  BY <1>1, <1>2, Numeracao DEF Montado
<1> QED
  BY <1>1, <1>5, <1>6, <1>7 DEF InicioInv, InicioTipos, Construcao, Desmonte

LEMMA OutraInv ==
  ASSUME InicioInv, OutraConexao
  PROVE  InicioInv'
<1>1. /\ ipc = "conecta" /\ ipc' = "transport_list" /\ ipc' \in Recursos /\ Lugar[ipc'] = 20
      /\ UNCHANGED <<rec, err, s_client, duplo, faltou>>
  BY Nomes, Numeracao DEF OutraConexao
<1>2. s_client = "vivo" /\ \A r \in Recursos \ {"host"} : rec[r] = "vivo"
  BY <1>1 DEF InicioInv, Construcao
<1>3. {"config", "scheme", "event_loop", "host"} \subseteq Recursos
  BY Nomes
<1>4. rec["config"] = "vivo"
  BY <1>2, <1>3
<1>5. \A r \in Recursos : rec[r] # "solto"
  BY <1>4 DEF InicioInv, Ponteiros
<1>6. rec["scheme"] = "vivo" /\ rec["event_loop"] = "vivo"
  BY <1>2, <1>3
<1>7. Montado'
  BY <1>1, <1>2, <1>5, <1>6, Numeracao DEF Montado, Incertos
<1>8. Ponteiros'
  BY <1>1 DEF InicioInv, Ponteiros
<1>9. ipc' \notin {"destroy_config", "destroy", "destroy_client", "devolve", "fim", "parado", "conecta", "sem_tarefa", "client"}
  BY <1>1
<1> QED
  BY <1>1, <1>7, <1>8, <1>9, Numeracao DEF InicioInv, InicioTipos, Construcao, Desmonte

LEMMA DevolveInv ==
  ASSUME InicioInv, Devolve
  PROVE  InicioInv'
<1>1. ipc = "devolve" /\ ipc' = "fim" /\ ipc' \notin Recursos /\ s_client' = "nulo" /\ rec' = rec /\ duplo' = duplo
  BY Nomes DEF Devolve
<1>2. (\A r \in Recursos : rec'[r] # "vivo") /\ {"task"} \cup Conexao \subseteq Recursos
  BY <1>1, Nomes DEF InicioInv, Desmonte, Conexao
<1>3. Ponteiros'
  BY <1>1 DEF InicioInv, Ponteiros
<1> QED
  BY <1>1, <1>2, <1>3 DEF InicioInv, InicioTipos, Construcao, Desmonte

LEMMA InicioPasso ==
  InicioInv /\ [InicioNext]_inicioVars => InicioInv'
<1> SUFFICES ASSUME InicioInv, [InicioNext]_inicioVars PROVE InicioInv'
  OBVIOUS
<1> USE Nomes
<1>1. CASE esp_mqtt_client_init
  <2>1. "client" \in Recursos /\ "client" \notin {"event_loop", "handler"} \cup Conexao
    BY DEF Conexao
  <2>2. CASE Obtem("client")
    BY <2>1, <2>2, ObtemInv
  <2>3. CASE Falta("client", "devolve") /\ UNCHANGED <<rec, err, s_client, duplo>>
    BY <2>3, SemCliente
  <2> QED
    BY <1>1, <2>2, <2>3 DEF esp_mqtt_client_init
<1>2. CASE create_client_data
  <2>1. PICK r \in Membros(Dados) :
           \/ Obtem(r) /\ UNCHANGED err
           \/ /\ Falta(r, "destroy")
              /\ IF r = "outbox_list" THEN Libera({"outbox"}, {"outbox"}) ELSE UNCHANGED <<rec, duplo>>
              /\ UNCHANGED <<err, s_client>>
    BY <1>2 DEF create_client_data
  <2>2. r \in Recursos /\ r \notin {"event_loop", "handler"} \cup Conexao /\ r \in Cliente
    BY DEF Conexao, Cliente
  <2>3. CASE Obtem(r)
    BY <2>2, <2>3, ObtemInv
  <2>4. CASE r = "outbox_list" /\ Falta(r, "destroy") /\ Libera({"outbox"}, {"outbox"})
    BY <2>4, SemLista
  <2>5. CASE Falta(r, "destroy") /\ UNCHANGED <<rec, duplo>>
    <3>1. ipc = r /\ ipc' = "destroy" /\ Lugar[ipc] <= Lugar["task"]
      BY <2>2, <2>5, Numeracao DEF Falta
    <3> QED
      BY <2>2, <2>5, <3>1, VoltaInv
  <2> QED
    BY <2>1, <2>3, <2>4, <2>5
<1>3. CASE set_config_buffers
  <2>1. ASSUME NEW r \in Membros(Reservas), Obtem(r) PROVE InicioInv'
    <3>1. r \in Recursos /\ r \notin {"event_loop", "handler"} \cup Conexao
      BY DEF Conexao
    <3> QED
      BY <2>1, <3>1, ObtemInv
  <2>2. CASE Falta("config", "destroy") /\ UNCHANGED <<rec, s_client, duplo>>
    <3>1. ipc = "config" /\ ipc' = "destroy" /\ Lugar[ipc] <= Lugar["task"]
      BY <2>2, Numeracao DEF Falta
    <3> QED
      BY <2>2, <3>1, VoltaInv
  <2>3. ASSUME NEW r \in {"buffer", "in_buffer"}, Falta(r, "destroy_config"), UNCHANGED <<rec, err, s_client, duplo>>
        PROVE  InicioInv'
    <3>1. /\ ipc = r /\ ipc' = "destroy_config" /\ Lugar[ipc] <= Lugar["task"]
          /\ faltou' = faltou \cup {r}
      BY <2>3 DEF Falta, Lugar
    <3>2. SemReserva'
      BY <3>1 DEF SemReserva
    <3> QED
      BY <2>3, <3>1, <3>2, VoltaInv
  <2> QED
    BY <1>3, <2>1, <2>2, <2>3 DEF set_config_buffers
<1>4. CASE set_config_texts
  <2>1. PICK r \in Membros(Textos) :
           /\ err' = "ESP_ERR_NO_MEM"
           /\ \/ Obtem(r)
              \/ Falta(r, "destroy_config") /\ UNCHANGED <<rec, s_client, duplo>>
    BY <1>4 DEF set_config_texts
  <2>2. r \in Recursos /\ r \notin {"event_loop", "handler"} \cup Conexao /\ Lugar[r] <= Lugar["task"]
    BY DEF Conexao, Lugar
  <2>3. CASE Obtem(r)
    BY <2>2, <2>3, ObtemInv
  <2>4. CASE Falta(r, "destroy_config") /\ UNCHANGED <<rec, s_client, duplo>>
    <3>1. ipc = r /\ ipc' = "destroy_config" /\ err' # "ESP_OK"
      BY <2>1, <2>4 DEF Falta
    <3> QED
      BY <2>2, <2>4, <3>1, VoltaInv
  <2> QED
    BY <2>1, <2>3, <2>4
<1>5. CASE set_config_options
  <2>1. /\ "crt_bundle_attach" \in Recursos
        /\ "crt_bundle_attach" \notin {"event_loop", "handler"} \cup Conexao
    BY DEF Conexao
  <2> QED
    BY <1>5, <2>1, ObtemInv DEF set_config_options
<1>6. CASE esp_mqtt_client_set_uri
  <2>1. PICK r \in Membros(DaUri) :
           Obtem(r) \/ (Falta(r, Seguinte(r)) /\ UNCHANGED <<rec, s_client, duplo>>)
    BY <1>6 DEF esp_mqtt_client_set_uri
  <2>2. r \in Recursos /\ r \notin {"event_loop", "handler"} \cup Conexao
    BY DEF Conexao
  <2>3. CASE Obtem(r)
    BY <2>2, <2>3, ObtemInv
  <2>4. CASE Falta(r, Seguinte(r)) /\ UNCHANGED <<rec, s_client, duplo>>
    BY <2>4, SegueInv
  <2> QED
    BY <2>1, <2>3, <2>4
<1>7. CASE esp_mqtt_client_register_event
  <2>1. "handler" \in Recursos /\ "handler" \notin {"event_loop"} \cup Conexao
    BY DEF Conexao
  <2>2. CASE rec["event_loop"] = "vivo" /\ Obtem("handler")
    BY <2>1, <2>2, ObtemInv
  <2>3. CASE Falta("handler", "destroy") /\ UNCHANGED <<rec, s_client, duplo>>
    <3>1. ipc = "handler" /\ ipc' = "destroy" /\ Lugar[ipc] <= Lugar["task"]
      BY <2>3, Numeracao DEF Falta
    <3> QED
      BY <2>1, <2>3, <3>1, VoltaInv
  <2> QED
    BY <1>7, <2>2, <2>3 DEF esp_mqtt_client_register_event
<1>8. CASE esp_mqtt_client_start
  <2>1. "task" \in Recursos /\ "task" \notin {"event_loop", "handler"} \cup Conexao
    BY DEF Conexao
  <2>2. CASE Obtem("task")
    BY <2>1, <2>2, ObtemInv
  <2>3. CASE Falta("task", "destroy") /\ UNCHANGED <<rec, s_client, duplo>>
    <3>1. ipc = "task" /\ ipc' = "destroy" /\ Lugar[ipc] <= Lugar["task"]
      BY <2>3, Numeracao DEF Falta
    <3> QED
      BY <2>1, <2>3, <3>1, VoltaInv
  <2> QED
    BY <1>8, <2>2, <2>3 DEF esp_mqtt_client_start
<1>9. CASE UNCHANGED inicioVars
  BY <1>9 DEF inicioVars, InicioInv, InicioTipos, Ponteiros, Construcao, Desmonte, Montado, Enganado,
              SemReserva, SemEsquema
<1>10. CASE InicioFim
  BY <1>9, <1>10 DEF InicioFim
<1> QED
  BY <1>1, <1>2, <1>3, <1>4, <1>5, <1>6, <1>7, <1>8, <1>9, <1>10, ConfigFalhou, LacoInv,
     DestroiInv, DevolveInv, ListaInv, SslInv, VerificacaoInv, OutraInv DEF InicioNext

LEMMA InicioSempre == InicioSpec => []InicioInv
<1> QED
  BY InicioInicio, InicioPasso, PTL DEF InicioSpec

\* However the creation of the MQTT client fails, and however far it had come, what it
\* had obtained is freed exactly once: mqttclient_init never returns with something
\* left behind, and no pointer that esp_mqtt_destroy_config or outbox_init left stale
\* is ever freed again (mqtt_client.c:428-435, 656-691, 923-947).
THEOREM NadaVaza == InicioSpec => []SemVazamento
<1>1. InicioInv => SemVazamento
  BY DEF InicioInv, Ponteiros, Desmonte, SemVazamento
<1> QED
  BY <1>1, InicioSempre, PTL

\* The library's task connects only with a client that is complete, but for a name of
\* the host whose copy nobody checks; the store through the null configuration needs
\* a failed allocation of one of the two buffers, which set_config reports as success,
\* and the task gives up only where memory was missing (mqtt_client.c:430-435, 1676).
THEOREM InteiroAoConectar == InicioSpec => []ClienteInteiro
<1>1. InicioInv => ClienteInteiro
  BY DEF InicioInv, Construcao, ClienteInteiro, SemReserva, SemEsquema
<1> QED
  BY <1>1, InicioSempre, PTL
=============================================================================
