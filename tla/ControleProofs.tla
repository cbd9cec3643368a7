--------------------------- MODULE ControleProofs ---------------------------
(***************************************************************************)
(* Theorems about the flow meter, for every modulus of the clock and of    *)
(* the counters, every window and every horizon: each variable keeps the   *)
(* width of its type, and the meter implements the abstract one; and about *)
(* the control task, for every delay, period, stall and horizon, every     *)
(* modulus, and every use of the button and of the broker.                 *)
(***************************************************************************)
EXTENDS Controle, FluxoRefina, BaseProofs

(***************************************************************************)
(* Types, one lemma per operation, so that a module that composes the      *)
(* meter with others can cite them.                                        *)
(***************************************************************************)
LEMMA FluxoInitTipos == FluxoInit => FluxoTypeOK
  BY PlacaAssumption, FluxoAssumption
  DEF FluxoInit, FluxoTypeOK, Zero, UintMod

LEMMA FluxoParadoTipos ==
  ASSUME FluxoTypeOK, agora' \in Nat, UNCHANGED fluxoVars
  PROVE  FluxoTypeOK'
  BY DEF FluxoTypeOK, fluxoVars

LEMMA IsrTipos ==
  ASSUME FluxoTypeOK, NEW c \in Circuitos, isr_fluxo(c)
  PROVE  FluxoTypeOK'
<1>1. IncMod(s_pulsos[c], PULSO_MOD) \in UintMod(PULSO_MOD)
  BY FluxoAssumption, IncModTipo DEF FluxoTypeOK
<1> QED
  BY <1>1 DEF isr_fluxo, FluxoTypeOK

LEMMA UpdateTipos ==
  ASSUME FluxoTypeOK, fluxo_update
  PROVE  FluxoTypeOK'
<1>1. ASSUME FluxoJanela PROVE FluxoTypeOK'
  BY <1>1, FluxoAssumption DEF FluxoJanela, FluxoTypeOK
<1>2. ASSUME FluxoCarrega PROVE FluxoTypeOK'
  BY <1>2 DEF FluxoCarrega, FluxoTypeOK, Circuitos
<1>3. ASSUME FluxoCalcula PROVE FluxoTypeOK'
  <2>1. s_ativo' \in [Circuitos -> BOOLEAN]
    BY <1>3 DEF FluxoCalcula, FluxoAtivo
  <2>2. s_last_stop_ms' \in [Circuitos -> UintMod(MS_MOD)]
    BY <1>3, Millis32Tipo DEF FluxoCalcula, FluxoTypeOK
  <2>3. Zero \in [Circuitos -> UintMod(PULSO_MOD)]
    BY FluxoAssumption DEF Zero, UintMod
  <2> QED
    BY <1>3, <2>1, <2>2, <2>3 DEF FluxoCalcula, FechaJanela, FluxoTypeOK
<1> QED
  BY <1>1, <1>2, <1>3 DEF fluxo_update

LEMMA FluxoNextTipos ==
  ASSUME FluxoTypeOK, [FluxoNext]_<<agora, fluxoVars>>
  PROVE  FluxoTypeOK'
<1>1. ASSUME FluxoTick PROVE FluxoTypeOK'
  BY <1>1, FluxoParadoTipos DEF FluxoTick, FluxoTypeOK
<1>2. ASSUME UNCHANGED <<agora, fluxoVars>> PROVE FluxoTypeOK'
  BY <1>2, FluxoParadoTipos DEF FluxoTypeOK
<1> QED
  BY <1>1, <1>2, IsrTipos, UpdateTipos DEF FluxoNext

\* Every variable of the meter keeps the width of its type: counters and
\* stamps never leave their modulus (fluxo.cpp).
THEOREM FluxoTipos == FluxoSpec => []FluxoTypeOK
<1>1. FluxoTypeOK /\ [FluxoNext]_<<agora, fluxoVars>> => FluxoTypeOK'
  BY FluxoNextTipos
<1> QED
  BY FluxoInitTipos, <1>1, PTL DEF FluxoSpec

(***************************************************************************)
(* The refinement.  Inductive invariant: the span that a measurement in    *)
(* progress will judge is a whole window that ends in the past, and a      *)
(* counter already loaded lies between the last measurement and now.       *)
(***************************************************************************)
Carregado(c) ==
  \/ upc = "calcula"
  \/ upc = "carrega_quente" /\ c = "frio"

FluxoInv ==
  /\ FluxoTypeOK
  /\ s_last_update_us <= agora
  /\ IF upc = "fora" THEN dt_us = 0
                     ELSE JANELA <= dt_us /\ dt_us <= s_last_update_us
  /\ \A c \in Circuitos : Carregado(c) =>
       SubMod(p[c], s_last_pulsos[c], PULSO_MOD) <= Pendentes(c)

LEMMA FluxoInitInv == FluxoInit => FluxoInv
  BY FluxoInitTipos DEF FluxoInit, FluxoInv, Carregado

LEMMA FluxoNextInv ==
  ASSUME FluxoInv, [FluxoNext]_<<agora, fluxoVars>>
  PROVE  FluxoInv'
<1> USE DEF FluxoInv
<1>0. FluxoTypeOK'
  BY FluxoNextTipos
<1>1. ASSUME FluxoTick PROVE FluxoInv'
  BY <1>0, <1>1 DEF FluxoTick, fluxoVars, FluxoTypeOK, Carregado, Pendentes
<1>2. ASSUME NEW c \in Circuitos, isr_fluxo(c) PROVE FluxoInv'
  <2>1. \A d \in Circuitos : Pendentes(d) <= Pendentes(d)'
    <3> SUFFICES ASSUME NEW d \in Circuitos PROVE Pendentes(d) <= Pendentes(d)'
      OBVIOUS
    <3>1. CASE d = c
      <4>1. /\ s_pulsos[c] \in UintMod(PULSO_MOD)
            /\ s_last_pulsos[c] \in UintMod(PULSO_MOD)
            /\ Pendentes(c) < PULSO_MOD - 1
            /\ s_pulsos'[c] = IncMod(s_pulsos[c], PULSO_MOD)
            /\ s_last_pulsos' = s_last_pulsos
        BY <1>2 DEF isr_fluxo, FluxoTypeOK
      <4>2. Pendentes(c)' = Pendentes(c) + 1
        BY <4>1, FluxoAssumption, SubModInc DEF Pendentes
      <4>3. Pendentes(c) \in UintMod(PULSO_MOD)
        BY <4>1, FluxoAssumption, SubModTipo DEF Pendentes
      <4> QED
        BY <3>1, <4>2, <4>3, FluxoAssumption DEF UintMod
    <3>2. CASE d # c
      <4>1. Pendentes(d)' = Pendentes(d)
        BY <1>2, <3>2 DEF isr_fluxo, Pendentes, FluxoTypeOK
      <4>2. Pendentes(d) \in UintMod(PULSO_MOD)
        BY FluxoAssumption, SubModTipo DEF Pendentes, FluxoTypeOK
      <4> QED
        BY <4>1, <4>2, FluxoAssumption DEF UintMod
    <3> QED
      BY <3>1, <3>2
  <2>2. \A d \in Circuitos : /\ Pendentes(d) \in Nat /\ Pendentes(d)' \in Nat
                             /\ SubMod(p[d], s_last_pulsos[d], PULSO_MOD) \in Nat
    BY <1>0, FluxoAssumption, SubModTipo DEF Pendentes, FluxoTypeOK, UintMod
  <2>3. \A d \in Circuitos : Carregado(d)' =>
          SubMod(p'[d], s_last_pulsos'[d], PULSO_MOD) <= Pendentes(d)'
    BY <1>2, <2>1, <2>2 DEF isr_fluxo, Carregado
  <2> QED
    BY <1>0, <1>2, <2>3 DEF isr_fluxo
<1>3. ASSUME FluxoJanela PROVE FluxoInv'
  BY <1>0, <1>3, FluxoAssumption
  DEF FluxoJanela, FluxoTypeOK, Carregado, Pendentes
<1>4. ASSUME FluxoCarrega PROVE FluxoInv'
  <2>1. \A c \in Circuitos : SubMod(s_pulsos[c], s_last_pulsos[c], PULSO_MOD) \in Nat
    BY FluxoAssumption, SubModTipo DEF FluxoTypeOK, UintMod
  <2>2. CASE upc = "carrega_frio"
    BY <1>0, <1>4, <2>1, <2>2
    DEF FluxoCarrega, FluxoTypeOK, Carregado, Pendentes, Circuitos
  <2>3. CASE upc = "carrega_quente"
    BY <1>0, <1>4, <2>1, <2>3
    DEF FluxoCarrega, FluxoTypeOK, Carregado, Pendentes, Circuitos
  <2> QED
    BY <1>4, <2>2, <2>3 DEF FluxoCarrega
<1>5. ASSUME FluxoCalcula PROVE FluxoInv'
  BY <1>0, <1>5 DEF FluxoCalcula, Carregado
<1>6. ASSUME UNCHANGED <<agora, fluxoVars>> PROVE FluxoInv'
  BY <1>0, <1>6 DEF fluxoVars, Carregado, Pendentes
<1> QED
  BY <1>1, <1>2, <1>3, <1>4, <1>5, <1>6 DEF FluxoNext, fluxo_update

LEMMA InitRefina == FluxoInit => M!Init
  BY FluxoAssumption, SubModZero
  DEF FluxoInit, M!Init, PendentesBar, MedidoEmBar, Pendentes, Zero, UintMod,
      Circuitos, M!Circuitos

LEMMA PassoRefina ==
  ASSUME FluxoInv, [FluxoNext]_<<agora, fluxoVars>>
  PROVE  [M!Next]_(M!vars)
<1> USE DEF FluxoInv
<1> DEFINE abstratas == <<agora, PendentesBar, s_ativo, s_last_stop_ms, MedidoEmBar>>
<1>0. FluxoInv'
  BY FluxoNextInv
<1>1. ASSUME FluxoTick PROVE M!Next
  BY <1>1 DEF FluxoTick, fluxoVars, M!Next, M!Passa, PendentesBar, Pendentes, MedidoEmBar
<1>2. ASSUME NEW c \in Circuitos, isr_fluxo(c) PROVE M!Next
  <2>1. /\ s_pulsos[c] \in UintMod(PULSO_MOD)
        /\ s_last_pulsos[c] \in UintMod(PULSO_MOD)
        /\ Pendentes(c) < PULSO_MOD - 1
        /\ s_pulsos'[c] = IncMod(s_pulsos[c], PULSO_MOD)
        /\ s_last_pulsos' = s_last_pulsos
    BY <1>2 DEF isr_fluxo, FluxoTypeOK
  <2>2. Pendentes(c)' = Pendentes(c) + 1
    BY <2>1, FluxoAssumption, SubModInc DEF Pendentes
  <2>3. \A d \in Circuitos : d # c => Pendentes(d)' = Pendentes(d)
    BY <1>2 DEF isr_fluxo, Pendentes, FluxoTypeOK
  <2>4. PendentesBar' = [PendentesBar EXCEPT ![c] = @ + 1]
    BY <2>2, <2>3 DEF PendentesBar
  <2>5. MedidoEmBar' = MedidoEmBar
    BY <1>2 DEF isr_fluxo, MedidoEmBar
  <2>6. M!Pulso(c)
    BY <1>2, <2>4, <2>5 DEF isr_fluxo, M!Pulso
  <2> QED
    BY <2>6 DEF M!Next, M!Circuitos, Circuitos
<1>3. ASSUME FluxoJanela PROVE UNCHANGED abstratas
  BY <1>3 DEF FluxoJanela, PendentesBar, Pendentes, MedidoEmBar, FluxoTypeOK
<1>4. ASSUME FluxoCarrega PROVE UNCHANGED abstratas
  BY <1>4 DEF FluxoCarrega, PendentesBar, Pendentes, MedidoEmBar
<1>5. ASSUME FluxoCalcula PROVE M!Next
  <2> DEFINE fim == s_last_update_us
  <2>1. /\ fim \in MedidoEmBar + JANELA .. agora
        /\ fim - MedidoEmBar = dt_us
        /\ MedidoEmBar' = fim
    BY <1>5, FluxoAssumption DEF FluxoCalcula, MedidoEmBar, FluxoTypeOK
  <2>2. \A c \in Circuitos :
          /\ Pendentes(c) \in Nat /\ Pendentes(c)' \in Nat
          /\ SubMod(p[c], s_last_pulsos[c], PULSO_MOD) \in Nat
          /\ Pendentes(c)' = Pendentes(c) - SubMod(p[c], s_last_pulsos[c], PULSO_MOD)
    <3> SUFFICES ASSUME NEW c \in Circuitos
                 PROVE  /\ Pendentes(c) \in Nat /\ Pendentes(c)' \in Nat
                        /\ SubMod(p[c], s_last_pulsos[c], PULSO_MOD) \in Nat
                        /\ Pendentes(c)' = Pendentes(c) - SubMod(p[c], s_last_pulsos[c], PULSO_MOD)
      OBVIOUS
    <3>1. /\ s_pulsos[c] \in UintMod(PULSO_MOD)
          /\ s_last_pulsos[c] \in UintMod(PULSO_MOD)
          /\ p[c] \in UintMod(PULSO_MOD)
          /\ SubMod(p[c], s_last_pulsos[c], PULSO_MOD) <= SubMod(s_pulsos[c], s_last_pulsos[c], PULSO_MOD)
      BY <1>5 DEF FluxoCalcula, FluxoTypeOK, Carregado, Pendentes
    <3>2. Pendentes(c)' = SubMod(s_pulsos[c], p[c], PULSO_MOD)
      BY <1>5 DEF FluxoCalcula, FechaJanela, Pendentes
    <3>3. Pendentes(c)' = Pendentes(c) - SubMod(p[c], s_last_pulsos[c], PULSO_MOD)
      BY <3>1, <3>2, FluxoAssumption, SubModSoma DEF Pendentes
    <3>4. /\ SubMod(s_pulsos[c], s_last_pulsos[c], PULSO_MOD) \in UintMod(PULSO_MOD)
          /\ SubMod(p[c], s_last_pulsos[c], PULSO_MOD) \in UintMod(PULSO_MOD)
          /\ SubMod(s_pulsos[c], p[c], PULSO_MOD) \in UintMod(PULSO_MOD)
      BY <3>1, FluxoAssumption, SubModTipo
    <3>5. \A x \in UintMod(PULSO_MOD) : x \in Nat
      BY FluxoAssumption DEF UintMod
    <3> QED
      BY <3>2, <3>3, <3>4, <3>5 DEF Pendentes
  <2>3. /\ PendentesBar' \in [Circuitos -> Nat]
        /\ \A c \in Circuitos : PendentesBar'[c] <= PendentesBar[c]
        /\ \A c \in Circuitos : PendentesBar[c] - PendentesBar'[c]
                                = SubMod(p[c], s_last_pulsos[c], PULSO_MOD)
    BY <2>2 DEF PendentesBar
  <2>4. s_ativo' = [c \in Circuitos |->
                     M!Escoa(PendentesBar[c] - PendentesBar'[c], fim - MedidoEmBar)]
    BY <1>5, <2>1, <2>3 DEF FluxoCalcula, FluxoAtivo, M!Escoa
  <2>5. s_last_stop_ms' = [c \in Circuitos |->
          IF s_ativo[c] /\ ~s_ativo'[c] THEN agora % MS_MOD ELSE s_last_stop_ms[c]]
    BY <1>5 DEF FluxoCalcula, Parou, millis32
  <2>6. M!Mede(fim)
    BY <1>5, <2>1, <2>3, <2>4, <2>5
    DEF FluxoCalcula, M!Mede, M!Circuitos, Circuitos
  <2> QED
    BY <2>1, <2>6 DEF M!Next
<1>6. ASSUME UNCHANGED <<agora, fluxoVars>> PROVE UNCHANGED abstratas
  BY <1>6 DEF fluxoVars, PendentesBar, Pendentes, MedidoEmBar
<1> QED
  BY <1>1, <1>2, <1>3, <1>4, <1>5, <1>6
  DEF FluxoNext, fluxo_update, M!vars

\* fluxo.cpp implements the abstract meter for every modulus, window and
\* horizon: no pulse is lost or weighed twice, whatever the interrupts do
\* between the loads, both circuits are judged over the same whole window, and
\* every stop is stamped.
THEOREM FluxoImplementaMedidor == FluxoSpec => ImplementaMedidor
<1>1. FluxoInv /\ [FluxoNext]_<<agora, fluxoVars>> => FluxoInv'
  BY FluxoNextInv
<1>2. FluxoInv /\ [FluxoNext]_<<agora, fluxoVars>> => [M!Next]_(M!vars)
  BY PassoRefina
<1> QED
  BY FluxoInitInv, InitRefina, <1>1, <1>2, PTL
  DEF FluxoSpec, ImplementaMedidor, M!Spec

-----------------------------------------------------------------------------
(***************************************************************************)
(* The relays.                                                             *)
(***************************************************************************)
\* After reles_set the cached state is the one asked for, the other circuit is
\* as it was, and the pins still agree with the cache.
LEMMA RelesSetEfeito ==
  ASSUME RelesTypeOK, PinosFieis,
         NEW c \in Circuitos, NEW ligar \in BOOLEAN, reles_set(c, ligar)
  PROVE  /\ RelesTypeOK' /\ PinosFieis'
         /\ s_rele'[c] = ligar
         /\ \A d \in Circuitos \ {c} : s_rele'[d] = s_rele[d]
  BY DEF reles_set, relesVars, RelesTypeOK, PinosFieis, Ligado, Nivel,
         RELAY_ON_LEVEL, RELAY_OFF_LEVEL

(***************************************************************************)
(* The decision: whatever the demands, the three modes keep their promise. *)
(***************************************************************************)
LEMMA AcionamentoCoerente ==
  ASSUME FluxoTypeOK, NEW m \in ModoOperacao
  PROVE  /\ Acionamento(m) \in [Circuitos -> BOOLEAN]
         /\ Coerente(m, Acionamento(m))
<1>1. \A c \in Circuitos : Demanda(c) \in BOOLEAN
  BY DEF Demanda, hold_off_active, FluxoTypeOK
<1>2. Alguma \in BOOLEAN
  BY DEF Alguma
<1>3. CASE m = "NORMAL"
  BY <1>1, <1>3 DEF Acionamento, Coerente
<1>4. CASE m = "DUO"
  BY <1>2, <1>4 DEF Acionamento, Coerente, Circuitos
<1>5. CASE m = "MIX"
  <2>1. Acionamento(m) = [frio |-> Alguma, quente |-> Demanda("quente")]
    BY <1>5 DEF Acionamento
  <2>2. Acionamento(m) \in [Circuitos -> BOOLEAN]
    BY <1>1, <1>2, <2>1 DEF Circuitos
  <2>3. Acionamento(m)["frio"] = Alguma /\ Acionamento(m)["quente"] = Demanda("quente")
    BY <2>1
  <2>4. Demanda("quente") => Alguma
    BY DEF Alguma
  <2> QED
    BY <1>5, <2>2, <2>3, <2>4 DEF Coerente
<1> QED
  BY <1>3, <1>4, <1>5 DEF ModoOperacao

(***************************************************************************)
(* The inductive invariant of the task.  The clock of the decision is not  *)
(* ahead of the board's, even across the wrap, so what the decision grants *)
(* after the inhibition is granted late enough; the relays are driven one  *)
(* after the other to one coherent decision.                               *)
(***************************************************************************)
Acionando == cpc \in {"rele_frio", "rele_quente"}

Inv ==
  /\ TypeOK
  /\ PinosFieis
  /\ now <= agora
  /\ \A c \in Circuitos : s_rele[c] => agora > STARTUP_INHIBIT
  /\ Acionando => /\ Coerente(modo, rele)
                  /\ \A c \in Circuitos : rele[c] => agora > STARTUP_INHIBIT
  /\ cpc = "rele_quente" => s_rele["frio"] = rele["frio"]
  /\ ~Acionando => Coerente(modo, s_rele)

LEMMA InitInv == Init => Inv
<1> SUFFICES ASSUME Init PROVE Inv
  OBVIOUS
<1>1. FluxoTypeOK
  BY FluxoInitTipos DEF Init
<1>2. ModosTypeOK
  BY ModosInitTipos DEF Init, FluxoInit
<1>3. RelesTypeOK /\ PinosFieis
  BY DEF Init, reles_init, RelesTypeOK, PinosFieis, Ligado, RELAY_ON_LEVEL,
         RELAY_OFF_LEVEL
<1>4. TypeOK
  BY <1>1, <1>2, <1>3, PlacaAssumption DEF Init, TypeOK, ModoOperacao, UintMod
<1> QED
  BY <1>3, <1>4 DEF Init, FluxoInit, reles_init, Inv, Acionando, Coerente, Circuitos

\* A step that leaves the meter, the modes and the relays alone.
LEMMA ParadosTipos ==
  ASSUME FluxoTypeOK, ModosTypeOK, RelesTypeOK, PinosFieis,
         UNCHANGED <<agora, fluxoVars, modosVars, relesVars>>
  PROVE  FluxoTypeOK' /\ ModosTypeOK' /\ RelesTypeOK' /\ PinosFieis'
<1>1. FluxoTypeOK' /\ ModosTypeOK'
  BY FluxoParadoTipos, ModosParadoTipos DEF FluxoTypeOK
<1> QED
  BY <1>1 DEF relesVars, RelesTypeOK, PinosFieis, Ligado

\* The steps of the loop that neither decide nor drive a relay.
Neutro ==
  \/ BootTermina \/ LeNow \/ Mostra \/ OledTermina \/ Telemetria
  \/ PublicaTermina \/ EsperaTermina

LEMMA NeutroInv ==
  ASSUME Inv, Neutro
  PROVE  Inv'
<1> USE DEF Inv, TypeOK, Segue
<1>1. FluxoTypeOK' /\ ModosTypeOK' /\ RelesTypeOK' /\ PinosFieis'
  BY ParadosTipos
  DEF Neutro, BootTermina, LeNow, Mostra, OledTermina, Telemetria, PublicaTermina,
      EsperaTermina
<1>2. CASE LeNow
  <2>1. millis32 \in UintMod(MS_MOD) /\ millis32 <= agora
    BY Millis32Tipo, PlacaAssumption DEF FluxoTypeOK, millis32
  <2> QED
    BY <1>1, <1>2, <2>1 DEF LeNow, Acionando, Coerente, relesVars, Decisao
<1>3. CASE BootTermina
  BY <1>1, <1>3 DEF BootTermina, Acionando, Coerente, relesVars, Decisao
<1>4. CASE Mostra
  BY <1>1, <1>4 DEF Mostra, Acionando, Coerente, relesVars, Decisao
<1>5. CASE OledTermina
  BY <1>1, <1>5 DEF OledTermina, Acionando, Coerente, relesVars, Decisao
<1>6. CASE Telemetria
  BY <1>1, <1>6 DEF Telemetria, Acionando, Coerente, relesVars, Decisao
<1>7. CASE PublicaTermina
  BY <1>1, <1>7 DEF PublicaTermina, Acionando, Coerente, relesVars, Decisao
<1>8. CASE EsperaTermina
  BY <1>1, <1>8 DEF EsperaTermina, Acionando, Coerente, relesVars, Decisao
<1> QED
  BY <1>2, <1>3, <1>4, <1>5, <1>6, <1>7, <1>8 DEF Neutro

\* The steps of the button, of the meter and of the environment leave the
\* locals of the decision and the relays alone, and time does not go back.
LEMMA AmbienteInv ==
  ASSUME Inv, FluxoTypeOK', ModosTypeOK', agora' >= agora, gasto' \in Nat,
         UNCHANGED <<relesVars, now, modo, rele, last_log, last_mqtt_pub>>,
         \/ cpc' = cpc
         \/ cpc \in {"botao", "fluxo"} /\ cpc' \in {"botao", "fluxo", "decide"}
  PROVE  Inv'
<1> USE DEF Inv, TypeOK
<1>1. RelesTypeOK' /\ PinosFieis'
  BY DEF relesVars, RelesTypeOK, PinosFieis, Ligado
<1>2. agora \in Nat /\ agora' \in Nat /\ STARTUP_INHIBIT \in Nat /\ now \in Nat
  BY ControleAssumption, PlacaAssumption DEF FluxoTypeOK, UintMod
<1>3. s_rele' = s_rele
  BY DEF relesVars
<1> QED
  BY <1>1, <1>2, <1>3 DEF Acionando, Coerente, Decisao

LEMMA DecideInv ==
  ASSUME Inv, Decide
  PROVE  Inv'
<1> USE DEF Inv, TypeOK
<1>1. FluxoTypeOK' /\ ModosTypeOK' /\ RelesTypeOK' /\ PinosFieis'
  BY ParadosTipos DEF Decide
<1>2. rele' \in [Circuitos -> BOOLEAN] /\ Coerente(modo', rele')
  <2>1. CASE Inibido
    BY <2>1 DEF Decide, Coerente, Circuitos
  <2>2. CASE ~Inibido
    BY <2>2, AcionamentoCoerente DEF Decide, ModosTypeOK
  <2> QED
    BY <2>1, <2>2
<1>3. \A c \in Circuitos : rele'[c] => agora > STARTUP_INHIBIT
  <2>1. agora \in Nat /\ STARTUP_INHIBIT \in Nat /\ now \in Nat
    BY ControleAssumption, PlacaAssumption DEF FluxoTypeOK, UintMod
  <2>2. CASE Inibido
    BY <2>2 DEF Decide
  <2>3. CASE ~Inibido
    BY <2>1, <2>3 DEF Inibido
  <2> QED
    BY <2>2, <2>3
<1>4. agora' = agora /\ s_rele' = s_rele /\ modo' \in ModoOperacao
  BY DEF Decide, relesVars, ModosTypeOK
<1> QED
  BY <1>1, <1>2, <1>3, <1>4 DEF Decide, Segue, Acionando, Decisao

LEMMA AcionaInv ==
  ASSUME Inv, AcionaFrio \/ AcionaQuente
  PROVE  Inv'
<1> USE DEF Inv, TypeOK
<1>1. FluxoTypeOK' /\ ModosTypeOK' /\ agora' = agora
  BY FluxoParadoTipos, ModosParadoTipos DEF AcionaFrio, AcionaQuente, FluxoTypeOK
<1>2. CASE AcionaFrio
  <2>1. /\ RelesTypeOK' /\ PinosFieis'
        /\ s_rele'["frio"] = rele["frio"]
        /\ s_rele'["quente"] = s_rele["quente"]
    BY <1>2, RelesSetEfeito DEF AcionaFrio, Circuitos
  <2> QED
    BY <1>1, <1>2, <2>1 DEF AcionaFrio, Segue, Acionando, Decisao, Circuitos
<1>3. CASE AcionaQuente
  <2>1. /\ RelesTypeOK' /\ PinosFieis'
        /\ s_rele'["quente"] = rele["quente"]
        /\ s_rele'["frio"] = s_rele["frio"]
    BY <1>3, RelesSetEfeito DEF AcionaQuente, Circuitos
  <2>2. s_rele'["frio"] = rele["frio"]
    BY <1>3, <2>1 DEF AcionaQuente, Segue
  <2>3. Coerente(modo, rele) => Coerente(modo, s_rele)'
    BY <1>3, <2>1, <2>2 DEF Coerente, AcionaQuente
  <2> QED
    BY <1>1, <1>3, <2>1, <2>2, <2>3 DEF AcionaQuente, Segue, Acionando, Decisao, Circuitos
<1> QED
  BY <1>2, <1>3

LEMMA NextInv ==
  ASSUME Inv, [Next]_vars
  PROVE  Inv'
<1>0. agora \in Nat /\ gasto \in Nat /\ FluxoTypeOK /\ ModosTypeOK
  BY DEF Inv, TypeOK, FluxoTypeOK
<1>1. ASSUME Tarefa PROVE Inv'
  <2>1. ASSUME AtualizaBotao PROVE Inv'
    <3>1. FluxoTypeOK' /\ ModosTypeOK'
      BY <1>0, <2>1, FluxoParadoTipos, BotaoTipos DEF AtualizaBotao
    <3> QED
      BY <1>0, <2>1, <3>1, AmbienteInv DEF AtualizaBotao
  <2>2. ASSUME AtualizaFluxo PROVE Inv'
    <3>1. FluxoTypeOK' /\ ModosTypeOK'
      BY <1>0, <2>2, UpdateTipos, ModosParadoTipos DEF AtualizaFluxo
    <3>2. agora' = agora
      BY <2>2 DEF AtualizaFluxo, fluxo_update, FluxoJanela, FluxoCarrega, FluxoCalcula
    <3> QED
      BY <1>0, <2>2, <3>1, <3>2, AmbienteInv DEF AtualizaFluxo
  <2> QED
    BY <1>1, <2>1, <2>2, NeutroInv, DecideInv, AcionaInv DEF Tarefa, Neutro
<1>2. ASSUME Tick PROVE Inv'
  <2>1. FluxoTypeOK' /\ ModosTypeOK'
    BY <1>0, <1>2, FluxoParadoTipos, ModosParadoTipos DEF Tick
  <2> QED
    BY <1>0, <1>2, <2>1, AmbienteInv DEF Tick
<1>3. ASSUME NEW c \in Circuitos, Pulso(c) PROVE Inv'
  <2>1. FluxoTypeOK' /\ ModosTypeOK'
    BY <1>0, <1>3, IsrTipos, ModosParadoTipos DEF Pulso
  <2> QED
    BY <1>0, <1>3, <2>1, AmbienteInv DEF Pulso, isr_fluxo, tarefaVars
<1>4. ASSUME Comando PROVE Inv'
  <2>1. FluxoTypeOK' /\ ModosTypeOK'
    BY <1>0, <1>4, FluxoParadoTipos, ComandoTipos DEF Comando
  <2> QED
    BY <1>0, <1>4, <2>1, AmbienteInv DEF Comando, tarefaVars
<1>5. ASSUME Botao PROVE Inv'
  <2>1. FluxoTypeOK' /\ ModosTypeOK'
    BY <1>0, <1>5, FluxoParadoTipos, PinoTipos DEF Botao
  <2> QED
    BY <1>0, <1>5, <2>1, AmbienteInv DEF Botao, tarefaVars
<1>6. ASSUME UNCHANGED vars PROVE Inv'
  <2>1. FluxoTypeOK' /\ ModosTypeOK'
    BY <1>0, <1>6, FluxoParadoTipos, ModosParadoTipos DEF vars
  <2> QED
    BY <1>0, <1>6, <2>1, AmbienteInv DEF vars, tarefaVars
<1> QED
  BY <1>1, <1>2, <1>3, <1>4, <1>5, <1>6 DEF Next

LEMMA SpecInv == Spec => []Inv
<1>1. Inv /\ [Next]_vars => Inv'
  BY NextInv
<1> QED
  BY InitInv, <1>1, PTL DEF Spec

\* In every mode the demand of a circuit is enough for its own pump, and a
\* pump runs only if some circuit demands it.
LEMMA AcionamentoDemanda ==
  ASSUME FluxoTypeOK, NEW m \in ModoOperacao, NEW c \in Circuitos
  PROVE  /\ Demanda(c) => Acionamento(m)[c]
         /\ Acionamento(m)[c] => \E d \in Circuitos : Demanda(d)
<1>1. (\E d \in Circuitos : Demanda(d)) <=> Alguma
  BY DEF Alguma, Circuitos
<1>2. CASE m = "NORMAL"
  BY <1>2 DEF Acionamento
<1>3. CASE m = "DUO"
  BY <1>1, <1>3 DEF Acionamento
<1>4. CASE m = "MIX"
  <2>1. Acionamento(m)["frio"] = Alguma /\ Acionamento(m)["quente"] = Demanda("quente")
    BY <1>4 DEF Acionamento
  <2>2. CASE c = "frio"
    BY <1>1, <2>1, <2>2
  <2>3. CASE c = "quente"
    BY <2>1, <2>3
  <2> QED
    BY <2>2, <2>3 DEF Circuitos
<1> QED
  BY <1>2, <1>3, <1>4 DEF ModoOperacao

\* The end of a decision: what was decided is on the pins of both circuits.
LEMMA DecisaoCompleta ==
  ASSUME Inv, AcionaQuente, NEW c \in Circuitos
  PROVE  Ligado(c)' <=> rele[c]
<1>1. RelesTypeOK /\ PinosFieis /\ rele \in [Circuitos -> BOOLEAN]
  BY DEF Inv, TypeOK
<1>2. /\ PinosFieis' /\ s_rele'["quente"] = rele["quente"]
      /\ s_rele'["frio"] = s_rele["frio"]
  BY <1>1, RelesSetEfeito DEF AcionaQuente, Circuitos
<1>3. s_rele["frio"] = rele["frio"]
  BY DEF Inv, AcionaQuente, Segue
<1> QED
  BY <1>1, <1>2, <1>3 DEF PinosFieis, Circuitos

\* Only the two steps that drive the relays move a pin, each its own, to what
\* was decided.
LEMMA PinoSoNaAcao ==
  ASSUME Inv, [Next]_vars, NEW c \in Circuitos, ~(Ligado(c)' <=> Ligado(c))
  PROVE  Acionando /\ (Ligado(c)' <=> rele[c]) /\ agora' = agora
<1>0. RelesTypeOK /\ PinosFieis /\ rele \in [Circuitos -> BOOLEAN]
  BY DEF Inv, TypeOK
<1>1. CASE AcionaFrio
  <2>1. /\ PinosFieis' /\ s_rele'["frio"] = rele["frio"]
        /\ s_rele'["quente"] = s_rele["quente"]
    BY <1>0, <1>1, RelesSetEfeito DEF AcionaFrio, Circuitos
  <2>2. c = "frio"
    BY <1>0, <2>1 DEF PinosFieis, Circuitos
  <2> QED
    BY <1>1, <2>1, <2>2 DEF PinosFieis, AcionaFrio, Segue, Acionando
<1>2. CASE AcionaQuente
  <2>1. Ligado(c)' <=> rele[c]
    BY <1>2, DecisaoCompleta
  <2> QED
    BY <1>2, <2>1 DEF AcionaQuente, Segue, Acionando
<1>3. CASE ~AcionaFrio /\ ~AcionaQuente
  <2>1. nivel' = nivel
    BY <1>3
    DEF vars, Next, Tarefa, BootTermina, LeNow, AtualizaBotao,
        AtualizaFluxo, Decide, Mostra, OledTermina, Telemetria, PublicaTermina,
        EsperaTermina, Tick, Pulso, Comando, Botao, relesVars
  <2> QED
    BY <2>1 DEF Ligado
<1> QED
  BY <1>1, <1>2, <1>3

(***************************************************************************)
(* The theorems.                                                           *)
(***************************************************************************)
\* Type correctness of the composed control task (main.cpp, fluxo.cpp,
\* modos.cpp, reles.cpp).
THEOREM ControleTipos == Spec => []TypeOK
<1>1. Inv => TypeOK
  BY DEF Inv
<1> QED
  BY SpecInv, <1>1, PTL

\* No pump runs in the first STARTUP_INHIBIT ticks after a start, for every
\* delay, stall and modulus of the clock: a wrapped clock only inhibits longer
\* (main.cpp:155).
THEOREM ControleInibe == Spec => []InibicaoInicial
<1>1. Inv => InibicaoInicial
  BY DEF Inv, InibicaoInicial, PinosFieis
<1> QED
  BY SpecInv, <1>1, PTL

\* The two pins always show one decision of one mode, though the broker and
\* the button may change the mode between any two statements of the loop
\* (main.cpp:153-183).
THEOREM ControleCoerente == Spec => []RelesCoerentes
<1>1. Inv => RelesCoerentes
  BY DEF Inv, RelesCoerentes, Acionando
<1> QED
  BY SpecInv, <1>1, PTL

(***************************************************************************)
(* The meter inside the control task is the meter of module Fluxo.         *)
(***************************************************************************)
LEMMA PassoDoMedidor ==
  ASSUME [Next]_vars
  PROVE  [FluxoNext]_<<agora, fluxoVars>>
<1>1. ASSUME Tarefa PROVE [FluxoNext]_<<agora, fluxoVars>>
  BY <1>1
  DEF Tarefa, BootTermina, LeNow, AtualizaBotao, AtualizaFluxo, Decide, AcionaFrio,
      AcionaQuente, Mostra, OledTermina, Telemetria, PublicaTermina, EsperaTermina,
      FluxoNext
<1>2. ASSUME Tick PROVE FluxoNext
  BY <1>2 DEF Tick, FluxoNext, FluxoTick
<1>3. ASSUME NEW c \in Circuitos, Pulso(c) PROVE FluxoNext
  BY <1>3 DEF Pulso, FluxoNext
<1>4. ASSUME Comando \/ Botao \/ UNCHANGED vars
      PROVE  UNCHANGED <<agora, fluxoVars>>
  BY <1>4 DEF Comando, Botao, vars
<1> QED
  BY <1>1, <1>2, <1>3, <1>4 DEF Next

\* In the firmware as a whole, too, every pulse is weighed exactly once, over
\* windows that are the same for both circuits (fluxo.cpp under main.cpp).
THEOREM ControleMede == Spec => ImplementaMedidor
<1>1. Init => FluxoInit
  BY DEF Init
<1>2. Spec => FluxoSpec
  BY <1>1, PassoDoMedidor, PTL DEF Spec, FluxoSpec
<1> QED
  BY <1>2, FluxoImplementaMedidor
=============================================================================
