----------------------------- MODULE BotaoProofs ------------------------------
(***************************************************************************)
(* Theorems about the mode button, for every debounce interval, period of  *)
(* the calls, preemption and modulus of the clock, which turns for ever.   *)
(*                                                                         *)
(* The argument compares two ages of the last change of the sample: the    *)
(* one the stamps give, which wraps, and the one of the history, which     *)
(* does not.  The stamp is read before the pin, so it makes a change look  *)
(* older than it is, but never by more than a preemption; the wrap only    *)
(* makes it look younger.                                                  *)
(***************************************************************************)
EXTENDS Botao, BaseProofs

Aberto(t) == tpc["controle"] = t

\* The stamped age of the last change, read at the instant quando.
IdadeJusta(quando) ==
  Idade(quando, s_lastDebounceMs) <= h_idade + PREEMPCAO \/ h_idade = IdadeMax

BotaoInv ==
  /\ BotaoTypeOK
  /\ ~Aberto("fora") => gasto <= PREEMPCAO
  /\ Aberto("amostra") => Idade(agora, b_now) <= gasto /\ IdadeJusta(b_now)
  /\ IdadeJusta(agora)
  /\ s_btnStable => h_solto

(***************************************************************************)
(* The clock of this module is already the one the code reads.             *)
(***************************************************************************)
LEMMA Millis32Agora ==
  ASSUME agora \in UintMod(MS_MOD)
  PROVE  millis32 = agora
BY PlacaAssumption DEF millis32, UintMod

\* A tick makes an age one larger, or turns it to zero.
LEMMA IdadeTick ==
  ASSUME NEW a \in UintMod(MS_MOD), NEW b \in UintMod(MS_MOD)
  PROVE  /\ (a + 1) % MS_MOD \in UintMod(MS_MOD)
         /\ Idade((a + 1) % MS_MOD, b) <= Idade(a, b) + 1
<1>1. (a + 1) % MS_MOD = IncMod(a, MS_MOD)
  BY PlacaAssumption DEF UintMod, IncMod
<1> QED
  BY <1>1, PlacaAssumption DEF UintMod, IncMod, Idade, SubMod

LEMMA IdadeNat ==
  ASSUME NEW a \in UintMod(MS_MOD), NEW b \in UintMod(MS_MOD)
  PROVE  Idade(a, b) \in Nat /\ Idade(a, a) = 0
BY PlacaAssumption DEF UintMod, Idade, SubMod

LEMMA BotaoConstantes ==
  /\ PERIODO \in Nat /\ PREEMPCAO \in Nat /\ MODE_BUTTON_DEBOUNCE \in Nat
  /\ IdadeMax \in Nat /\ Estavel <= IdadeMax
BY BotaoAssumption, ModosAssumption DEF IdadeMax, Estavel

LEMMA InicioBotao == Init => BotaoInv
<1> SUFFICES ASSUME Init PROVE BotaoInv
  OBVIOUS
<1>1. agora = 0 /\ 0 \in UintMod(MS_MOD) /\ s_lastDebounceMs = 0
  BY PlacaAssumption, Millis32Agora DEF Init, modos_init, UintMod
<1>2. BotaoTypeOK
  <2>1. ModosTypeOK
    BY <1>1, ModosInitTipos DEF Init
  <2> QED
    BY <1>1, <2>1, BotaoConstantes DEF Init, BotaoTypeOK
<1>3. IdadeJusta(agora)
  BY <1>1, IdadeNat, BotaoConstantes DEF IdadeJusta, Init
<1>4. Aberto("fora") /\ h_solto
  BY DEF Aberto, Init, modos_init, Tarefas
<1> QED
  BY <1>2, <1>3, <1>4 DEF BotaoInv, Aberto

(***************************************************************************)
(* Time.                                                                   *)
(***************************************************************************)
LEMMA TickBotao ==
  ASSUME BotaoInv, Tick
  PROVE  BotaoInv'
<1> DEFINE h == h_idade'
<1>1. /\ UNCHANGED modosVars /\ h_solto' = h_solto /\ gasto' = gasto + 1
      /\ agora' = (agora + 1) % MS_MOD
      /\ s_lastDebounceMs' = s_lastDebounceMs /\ b_now' = b_now /\ tpc' = tpc /\ s_btnStable' = s_btnStable
  BY DEF Tick, modosVars
<1>2. /\ agora \in UintMod(MS_MOD) /\ s_lastDebounceMs \in UintMod(MS_MOD) /\ b_now \in UintMod(MS_MOD)
      /\ gasto \in Nat /\ h_idade \in 0 .. IdadeMax
  BY BotaoConstantes DEF BotaoInv, BotaoTypeOK, ModosTypeOK
<1>3. h \in 0 .. IdadeMax /\ (h_idade = IdadeMax => h = IdadeMax) /\ (h = IdadeMax \/ h = h_idade + 1) /\ h >= h_idade
  BY <1>2, BotaoConstantes DEF Tick
<1>4. gasto' \in 0 .. PERIODO + PREEMPCAO /\ (~Aberto("fora") => gasto' <= PREEMPCAO)
  BY <1>2, BotaoConstantes DEF Tick, Aberto
<1>5. BotaoTypeOK'
  <2>1. ModosTypeOK'
    BY <1>1, ModosParadoTipos DEF BotaoInv, BotaoTypeOK
  <2> QED
    BY <1>1, <1>2, <1>3, <1>4, <2>1, IdadeTick DEF BotaoInv, BotaoTypeOK, IdadeMax
<1>6. IdadeJusta(agora)'
  <2>1. Idade(agora', s_lastDebounceMs) <= Idade(agora, s_lastDebounceMs) + 1
    BY <1>1, <1>2, IdadeTick
  <2>2. Idade(agora, s_lastDebounceMs) \in Nat /\ Idade(agora', s_lastDebounceMs) \in Nat
    BY <1>1, <1>2, IdadeTick, IdadeNat
  <2> QED
    BY <1>1, <1>2, <1>3, <2>1, <2>2, BotaoConstantes DEF BotaoInv, IdadeJusta, Idade, IdadeMax
<1>7. Aberto("amostra") => Idade(agora', b_now) <= gasto'
  <2>1. Idade(agora', b_now) <= Idade(agora, b_now) + 1
    BY <1>1, <1>2, IdadeTick
  <2>2. Idade(agora, b_now) \in Nat /\ Idade(agora', b_now) \in Nat
    BY <1>1, <1>2, IdadeTick, IdadeNat
  <2> QED
    BY <1>1, <1>2, <2>1, <2>2 DEF BotaoInv
<1>8. Aberto("amostra") => IdadeJusta(b_now)'
  <2>1. Idade(b_now, s_lastDebounceMs) \in Nat
    BY <1>2, IdadeNat
  <2> QED
    BY <1>1, <1>2, <1>3, <2>1, BotaoConstantes DEF BotaoInv, IdadeJusta, Idade, IdadeMax
<1> QED
  BY <1>1, <1>4, <1>5, <1>6, <1>7, <1>8 DEF BotaoInv, Aberto, Idade

(***************************************************************************)
(* The control task.                                                       *)
(***************************************************************************)
\* What every step of modos_update_button leaves for the invariant to check.
LEMMA ControleTipos ==
  ASSUME BotaoInv, Controle
  PROVE  /\ BotaoTypeOK' /\ gasto' = 0 /\ agora' = agora
         /\ agora \in UintMod(MS_MOD) /\ s_lastDebounceMs \in UintMod(MS_MOD) /\ b_now \in UintMod(MS_MOD)
         /\ gasto \in Nat /\ h_idade \in 0 .. IdadeMax /\ h_idade' \in 0 .. IdadeMax
<1>1. /\ agora \in UintMod(MS_MOD) /\ s_lastDebounceMs \in UintMod(MS_MOD) /\ b_now \in UintMod(MS_MOD)
      /\ gasto \in Nat /\ h_idade \in 0 .. IdadeMax /\ h_solto \in BOOLEAN /\ ModosTypeOK
  BY BotaoConstantes DEF BotaoInv, BotaoTypeOK, ModosTypeOK
<1>2. gasto' = 0 /\ agora' = agora /\ h_idade' \in 0 .. IdadeMax
  BY <1>1, BotaoConstantes DEF Controle
<1>3. h_solto' \in BOOLEAN
  BY <1>1 DEF Controle
<1>4. ModosTypeOK'
  <2>1. agora \in Nat
    BY <1>1, PlacaAssumption DEF UintMod
  <2> QED
    BY <1>1, <2>1, BotaoTipos DEF Controle
<1> QED
  BY <1>1, <1>2, <1>3, <1>4, BotaoConstantes DEF BotaoTypeOK, IdadeMax

LEMMA RelogioBotao ==
  ASSUME BotaoInv, Controle, BotaoRelogio
  PROVE  BotaoInv'
<1>1. /\ Aberto("fora") /\ Aberto("amostra")' /\ b_now' = agora
      /\ s_lastDebounceMs' = s_lastDebounceMs /\ s_btnStable' = s_btnStable
  BY ControleTipos, Millis32Agora DEF BotaoRelogio, Vai, Aberto, BotaoInv, BotaoTypeOK, ModosTypeOK, Tarefas
<1>2. h_idade' = h_idade /\ h_solto' = h_solto
  BY <1>1 DEF Controle, Aberto, Avanca
<1>3. Idade(agora, b_now') = 0
  BY <1>1, ControleTipos, IdadeNat
<1>4. IdadeJusta(agora)' /\ IdadeJusta(b_now)'
  BY <1>1, <1>2, ControleTipos DEF BotaoInv, IdadeJusta, Idade, IdadeMax
<1>5. Idade(agora, b_now)' <= gasto' /\ gasto' <= PREEMPCAO
  BY <1>3, ControleTipos, BotaoConstantes DEF Idade
<1> QED
  BY <1>1, <1>2, <1>4, <1>5, ControleTipos DEF BotaoInv

\* The sample that changes the stable state closes a run that lasted.
LEMMA AmostraFirme ==
  ASSUME BotaoInv, Controle, BotaoAmostra, s_btnStable' # s_btnStable
  PROVE  AmostrasEstaveis(s_btnStable') /\ s_btnStable' = pino
<1>1. Aberto("amostra") /\ s_btnStable' = pino /\ Idade(b_now, UltimaMudanca) > MODE_BUTTON_DEBOUNCE
  BY DEF BotaoAmostra, Aberto
<1>2. pino = s_btnLastRaw
  <2>1. SUFFICES ASSUME pino # s_btnLastRaw PROVE FALSE
    OBVIOUS
  <2>2. Idade(b_now, UltimaMudanca) = 0
    BY <2>1, ControleTipos, IdadeNat DEF UltimaMudanca
  <2> QED
    BY <1>1, <2>2, BotaoConstantes
<1>3. Idade(b_now, s_lastDebounceMs) > MODE_BUTTON_DEBOUNCE
  BY <1>1, <1>2 DEF UltimaMudanca
<1>4. h_idade >= Estavel
  <2>1. Idade(b_now, s_lastDebounceMs) \in Nat
    BY ControleTipos, IdadeNat
  <2> QED
    BY <1>1, <1>3, <2>1, ControleTipos, BotaoConstantes DEF BotaoInv, IdadeJusta, Estavel, IdadeMax
<1> QED
  BY <1>1, <1>2, <1>4 DEF AmostrasEstaveis

LEMMA AmostraBotao ==
  ASSUME BotaoInv, Controle, BotaoAmostra
  PROVE  BotaoInv'
<1>1. /\ Aberto("amostra") /\ gasto <= PREEMPCAO /\ Idade(agora, b_now) <= gasto
      /\ s_lastDebounceMs' = UltimaMudanca /\ ~Aberto("amostra")'
  <2>1. tpc'["controle"] \in {"next", "fora"}
    BY DEF BotaoAmostra, Vai, BotaoInv, BotaoTypeOK, ModosTypeOK, Tarefas
  <2> QED
    BY <2>1 DEF BotaoAmostra, Aberto, BotaoInv
<1>2. IdadeJusta(agora)'
  <2>1. CASE pino # s_btnLastRaw
    <3>1. h_idade' = 0 /\ s_lastDebounceMs' = b_now
      BY <1>1, <2>1 DEF Controle, Aberto, UltimaMudanca
    <3>2. Idade(agora, b_now) <= PREEMPCAO
      BY <1>1, ControleTipos, IdadeNat, BotaoConstantes
    <3> QED
      BY <3>1, <3>2, ControleTipos, BotaoConstantes DEF IdadeJusta, Idade
  <2>2. CASE pino = s_btnLastRaw
    <3>1. h_idade' = h_idade /\ s_lastDebounceMs' = s_lastDebounceMs
      BY <1>1, <2>2 DEF Controle, UltimaMudanca
    <3> QED
      BY <3>1, ControleTipos DEF BotaoInv, IdadeJusta, Idade, IdadeMax
  <2> QED
    BY <2>1, <2>2
<1>3. s_btnStable' => h_solto'
  <2> SUFFICES ASSUME s_btnStable' PROVE h_solto'
    OBVIOUS
  <2>1. ~Avanca
    BY DEF BotaoAmostra, Vai, Avanca, BotaoInv, BotaoTypeOK, ModosTypeOK, Tarefas
  <2>2. CASE s_btnStable
    BY <2>1, <2>2 DEF Controle, BotaoInv
  <2>3. CASE ~s_btnStable
    <3>1. AmostrasEstaveis(pino) /\ pino = s_btnStable'
      BY <2>3, AmostraFirme
    <3>2. pino = TRUE
      BY <3>1 DEF BotaoInv, BotaoTypeOK, ModosTypeOK
    <3> QED
      BY <1>1, <2>1, <3>1, <3>2 DEF Controle, Aberto
  <2> QED
    BY <2>2, <2>3
<1> QED
  BY <1>1, <1>2, <1>3, ControleTipos, BotaoConstantes DEF BotaoInv

\* modos_next and modos_set look at neither the clock nor the pin.
LEMMA SetBotao ==
  ASSUME BotaoInv, Controle, NextLe \/ SetCompara("controle") \/ SetEscreve("controle")
  PROVE  BotaoInv'
<1>1. /\ s_lastDebounceMs' = s_lastDebounceMs /\ b_now' = b_now /\ s_btnStable' = s_btnStable
      /\ ~Aberto("amostra") /\ ~Aberto("amostra")' /\ ~Avanca
  BY DEF NextLe, SetCompara, SetEscreve, Vai, Aberto, Avanca, BotaoInv, BotaoTypeOK, ModosTypeOK, Tarefas
<1>2. h_idade' = h_idade /\ h_solto' = h_solto
  BY <1>1 DEF Controle, Aberto
<1> QED
  BY <1>1, <1>2, ControleTipos, BotaoConstantes DEF BotaoInv, IdadeJusta, Idade, IdadeMax

(***************************************************************************)
(* The broker, and the pin.                                                *)
(***************************************************************************)
LEMMA MqttBotao ==
  ASSUME BotaoInv, Mqtt \/ Pino
  PROVE  BotaoInv' /\ ~Avanca /\ s_btnStable' = s_btnStable
<1>1. ModosTypeOK'
  BY ComandoTipos, PinoTipos DEF BotaoInv, BotaoTypeOK, Mqtt, Pino
<1>2. /\ UNCHANGED <<agora, gasto, h_idade, h_solto, s_lastDebounceMs, b_now, s_btnStable>>
      /\ tpc'["controle"] = tpc["controle"]
  BY DEF Mqtt, Pino, PinoMuda, processar_comando_modo, ComandoRecebe, SetCompara, SetEscreve, Vai,
    BotaoInv, BotaoTypeOK, ModosTypeOK, Tarefas
<1> QED
  BY <1>1, <1>2 DEF BotaoInv, BotaoTypeOK, IdadeJusta, Idade, Aberto, Avanca, IdadeMax

LEMMA PassoBotao ==
  ASSUME BotaoInv, [Next]_vars
  PROVE  BotaoInv'
<1>1. ASSUME UNCHANGED vars PROVE BotaoInv'
  <2>1. ModosTypeOK'
    BY <1>1, ModosParadoTipos DEF BotaoInv, BotaoTypeOK, vars
  <2> QED
    BY <1>1, <2>1 DEF BotaoInv, BotaoTypeOK, IdadeJusta, Idade, Aberto, vars, modosVars, IdadeMax
<1>2. ASSUME Controle PROVE BotaoInv'
  BY <1>2, RelogioBotao, AmostraBotao, SetBotao DEF Controle, modos_update_button
<1> QED
  BY <1>1, <1>2, TickBotao, MqttBotao DEF Next

LEMMA SempreBotao == Spec => []BotaoInv
<1>1. BotaoInv /\ [Next]_vars => BotaoInv'
  BY PassoBotao
<1> QED
  BY InicioBotao, <1>1, PTL DEF Spec

(***************************************************************************)
(* The theorems.                                                           *)
(***************************************************************************)
\* Types of the button and of its history (modos.cpp).
THEOREM BotaoTipado == Spec => []BotaoTypeOK
<1>1. BotaoInv => BotaoTypeOK
  BY DEF BotaoInv
<1> QED
  BY SempreBotao, <1>1, PTL

\* No bounce is believed: the stable state follows a run of equal samples that
\* lasted the debounce interval in real time, less a preemption, at any phase of
\* the clock (modos.cpp:64-86).
THEOREM BotaoEstavel == Spec => EstavelSoAposDebounce
<1>1. BotaoInv /\ [Next]_vars => [s_btnStable' # s_btnStable => AmostrasEstaveis(s_btnStable')]_vars
  <2> SUFFICES ASSUME BotaoInv, [Next]_vars, s_btnStable' # s_btnStable
               PROVE  AmostrasEstaveis(s_btnStable')
    OBVIOUS
  <2>1. Controle /\ BotaoAmostra
    BY MqttBotao DEF Next, vars, modosVars, Tick, Controle, modos_update_button, BotaoRelogio, NextLe,
      SetCompara, SetEscreve
  <2> QED
    BY <2>1, AmostraFirme
<1> QED
  BY SempreBotao, <1>1, PTL DEF Spec, EstavelSoAposDebounce

\* One press advances the mode once (modos.cpp:80-84).
THEOREM BotaoAvancaUmaVez == Spec => UmAvancoPorAperto
<1>1. BotaoInv /\ [Next]_vars => [Avanca => h_solto]_vars
  <2> SUFFICES ASSUME BotaoInv, [Next]_vars, Avanca
               PROVE  h_solto
    OBVIOUS
  <2>1. Controle
    BY MqttBotao DEF Next, vars, modosVars, Tick, Avanca
  <2>2. BotaoAmostra
    BY <2>1 DEF Controle, Avanca, modos_update_button, BotaoRelogio, NextLe, SetCompara, SetEscreve, Vai,
      BotaoInv, BotaoTypeOK, ModosTypeOK, Tarefas
  <2>3. s_btnStable
    BY <2>2 DEF BotaoAmostra, Avanca, Vai, BotaoInv, BotaoTypeOK, ModosTypeOK, Tarefas
  <2> QED
    BY <2>3 DEF BotaoInv
<1> QED
  BY SempreBotao, <1>1, PTL DEF Spec, UmAvancoPorAperto
=============================================================================
