---------------------------- MODULE RespostaProofs ----------------------------
(***************************************************************************)
(* Theorems about the response time of the whole chain, from the pulses of *)
(* a sensor to the pumps, for every window, delay, period and stall, every *)
(* use of the button and of the broker, and every horizon shorter than one *)
(* turn of the millisecond clock.                                          *)
(*                                                                         *)
(* The argument follows the water: a pulse not weighed yet is as young as  *)
(* the open window, a verdict as the window it was given for, a stamp as   *)
(* the window that was found dry, a decision as what it was taken on, and  *)
(* a pump as the decision that drove it.                                   *)
(***************************************************************************)
EXTENDS ControleResposta, ControleProofs

(***************************************************************************)
(* How old the clock of the task is in each section of the loop, and how   *)
(* far the open window reaches back from it.                               *)
(***************************************************************************)
\* The task has not read the clock yet.
Novo ==
  /\ now = 0 /\ MedidoEmBar = 0 /\ upc = "fora"
  /\ agora <= BOOT_MAX
  /\ \A c \in Circuitos : ~Ligado(c) /\ ~s_ativo[c]

SecoesInv ==
  /\ agora <= MaxTempo
  /\ cpc = "boot" => Novo /\ agora = gasto
  /\ cpc \in Decisao => agora = now + gasto /\ gasto <= EXEC_MAX
  /\ cpc \in {"mostra", "telemetria"} => gasto = 0
  /\ cpc = "mostra" => agora - now <= EXEC_MAX
  /\ cpc = "oled" => agora - now <= EXEC_MAX + gasto /\ gasto <= OLED_MAX
  /\ cpc = "telemetria" => agora - now <= EXEC_MAX + OLED_MAX
  /\ cpc = "publica" => agora - now <= EXEC_MAX + OLED_MAX + gasto /\ gasto <= PUB_MAX
  /\ cpc = "espera" => agora - now <= EXEC_MAX + OLED_MAX + PUB_MAX + gasto /\ gasto <= ESPERA_MAX
  /\ cpc = "le_now" => Novo \/ agora - now <= Volta

\* Only the first window may begin long before the task does.
JanelaInv ==
  /\ upc # "fora" => cpc = "fluxo" /\ now <= s_last_update_us
  /\ cpc = "le_now" => Novo \/ now - MedidoEmBar < JANELA
  /\ cpc \in {"botao", "fluxo"} =>
       \/ now - MedidoEmBar < JANELA + Volta
       \/ MedidoEmBar = 0 /\ now <= BOOT_MAX
  /\ cpc \notin {"boot", "le_now", "botao", "fluxo"} => now - MedidoEmBar < JANELA

(***************************************************************************)
(* The last pulse.                                                         *)
(***************************************************************************)
\* A decision taken on what is known at clock t can be no more than this later
\* than the last pulse.
Alcance == PrimeiraJanela + JanelaMax + DELAY_OFF - 1

SilencioInv ==
  /\ h_silencio \in [Circuitos -> Nat]
  /\ \A c \in Circuitos :
       /\ s_pulsos[c] # s_last_pulsos[c] => h_silencio[c] <= agora - MedidoEmBar
       /\ Carregado(c) /\ s_pulsos[c] # p[c] => h_silencio[c] <= agora - s_last_update_us
       /\ s_ativo[c] => MedidoEmBar > 0 /\ h_silencio[c] <= agora - MedidoEmBar + PrimeiraJanela
       /\ s_last_stop_ms[c] # 0 =>
            /\ s_last_stop_ms[c] <= agora
            /\ h_silencio[c] <= agora - s_last_stop_ms[c] + JanelaMax + PrimeiraJanela

\* Some circuit has had a pulse in the last t ticks.
HouvePulso(t) == \E c \in Circuitos : h_silencio[c] <= t

BombasInv ==
  /\ Acionando => \A c \in Circuitos : rele[c] => HouvePulso(agora - now + Alcance)
  /\ \A c \in Circuitos : Ligado(c) =>
       HouvePulso(agora - now + Alcance + IF cpc \in Decisao THEN Volta ELSE 0)

DInv == Inv /\ FluxoInv /\ SecoesInv /\ JanelaInv /\ SilencioInv /\ BombasInv

(***************************************************************************)
(* Facts every step needs.                                                 *)
(***************************************************************************)
LEMMA Numeros ==
  ASSUME DInv
  PROVE  /\ agora \in Nat /\ now \in Nat /\ gasto \in Nat /\ now <= agora
         /\ s_last_update_us \in Nat /\ s_last_update_us <= agora /\ dt_us \in Nat
         /\ MedidoEmBar \in Nat /\ MedidoEmBar <= s_last_update_us
         /\ upc # "fora" => /\ MedidoEmBar = s_last_update_us - dt_us
                            /\ JANELA <= s_last_update_us
         /\ upc = "fora" => MedidoEmBar = s_last_update_us
<1>1. /\ agora \in Nat /\ now \in Nat /\ gasto \in Nat /\ now <= agora
      /\ s_last_update_us \in Nat /\ dt_us \in Nat /\ s_last_update_us <= agora
  BY PlacaAssumption DEF DInv, Inv, TypeOK, FluxoInv, FluxoTypeOK, UintMod
<1>2. upc # "fora" => JANELA <= dt_us /\ dt_us <= s_last_update_us
  BY DEF DInv, FluxoInv
<1> QED
  BY <1>1, <1>2, FluxoAssumption DEF MedidoEmBar

LEMMA Constantes ==
  /\ EXEC_MAX \in Nat /\ OLED_MAX \in Nat /\ PUB_MAX \in Nat /\ ESPERA_MAX \in Nat
  /\ BOOT_MAX \in Nat /\ DELAY_OFF \in Nat /\ JANELA \in Nat /\ JANELA > 0
  /\ MS_MOD \in Nat /\ MS_MOD > 0 /\ MaxTempo \in Nat
  /\ Volta \in Nat /\ Volta = EXEC_MAX + OLED_MAX + PUB_MAX + ESPERA_MAX
  /\ JanelaMax \in Nat /\ JanelaMax = JANELA + Volta + EXEC_MAX - 1
  /\ PrimeiraJanela \in Nat /\ PrimeiraJanela >= JanelaMax /\ PrimeiraJanela >= BOOT_MAX + EXEC_MAX
  /\ Alcance \in Int /\ Alcance = PrimeiraJanela + JanelaMax + DELAY_OFF - 1
<1>1. /\ EXEC_MAX \in Nat /\ OLED_MAX \in Nat /\ PUB_MAX \in Nat /\ ESPERA_MAX \in Nat
      /\ BOOT_MAX \in Nat /\ DELAY_OFF \in Nat /\ JANELA \in Nat /\ JANELA > 0
      /\ MS_MOD \in Nat /\ MS_MOD > 0 /\ MaxTempo \in Nat
  BY PlacaAssumption, FluxoAssumption, ControleAssumption
<1>2. Volta \in Nat /\ Volta = EXEC_MAX + OLED_MAX + PUB_MAX + ESPERA_MAX
  BY <1>1 DEF Volta
<1>3. JanelaMax \in Nat /\ JanelaMax = JANELA + Volta + EXEC_MAX - 1 /\ JanelaMax >= EXEC_MAX
  BY <1>1, <1>2 DEF JanelaMax
<1>4. PrimeiraJanela \in Nat /\ PrimeiraJanela >= JanelaMax /\ PrimeiraJanela >= BOOT_MAX + EXEC_MAX
  BY <1>1, <1>3 DEF PrimeiraJanela
<1>5. Alcance \in Int /\ Alcance = PrimeiraJanela + JanelaMax + DELAY_OFF - 1
  BY <1>1, <1>3, <1>4 DEF Alcance
<1> QED
  BY <1>1, <1>2, <1>3, <1>4, <1>5

\* Before the wrap both clocks agree.
LEMMA SemVolta ==
  ASSUME MaxTempo < MS_MOD, DInv
  PROVE  millis32 = agora
BY Numeros, Constantes DEF millis32, DInv, SecoesInv

LEMMA MedidorParado ==
  ASSUME UNCHANGED fluxoVars
  PROVE  /\ UNCHANGED <<s_pulsos, s_last_pulsos, s_ativo, s_last_stop_ms>>
         /\ UNCHANGED <<s_last_update_us, upc, dt_us, p, MedidoEmBar>>
         /\ \A c \in Circuitos : Carregado(c)' = Carregado(c)
BY DEF fluxoVars, MedidoEmBar, Carregado

\* Time moves in ticks, of which one step is one at most, and a pulse ends every
\* silence of its circuit.
LEMMA Passagem ==
  ASSUME DInv, [HNext]_hvars
  PROVE  /\ agora' = agora \/ (agora' = agora + 1 /\ Tick)
         /\ h_silencio' \in [Circuitos -> Nat]
         /\ \A c \in Circuitos :
              /\ h_silencio'[c] <= h_silencio[c] + (agora' - agora)
              /\ s_pulsos'[c] # s_pulsos[c] => h_silencio'[c] = 0
<1>0. /\ h_silencio \in [Circuitos -> Nat] /\ agora \in Nat
      /\ PRAZO_DESLIGA \in Int
  BY Numeros, Constantes DEF DInv, SilencioInv, PRAZO_DESLIGA
<1>1. agora' = agora \/ (agora' = agora + 1 /\ Tick)
  <2>1. Tick => agora' = agora + 1
    BY DEF Tick
  <2>2. AtualizaFluxo => agora' = agora
    BY DEF AtualizaFluxo, fluxo_update, FluxoJanela, FluxoCarrega, FluxoCalcula
  <2>3. Tarefa /\ ~AtualizaFluxo => agora' = agora
    BY DEF Tarefa, BootTermina, LeNow, AtualizaBotao, Decide, AcionaFrio,
      AcionaQuente, Mostra, OledTermina, Telemetria, PublicaTermina, EsperaTermina
  <2>4. (\E c \in Circuitos : Pulso(c)) \/ Comando \/ Botao \/ UNCHANGED hvars => agora' = agora
    BY DEF Pulso, isr_fluxo, Comando, Botao, hvars, vars
  <2> QED
    BY <2>1, <2>2, <2>3, <2>4 DEF HNext, Next
<1>2. CASE agora' = agora + 1 /\ Tick /\ HNext
  <2>1. h_silencio' = [c \in Circuitos |-> Saturado(h_silencio[c], PRAZO_DESLIGA + 1)]
    BY <1>0, <1>2 DEF HNext
  <2>2. s_pulsos' = s_pulsos
    BY <1>2 DEF Tick, fluxoVars
  <2>3. ASSUME NEW c \in Circuitos
        PROVE  h_silencio'[c] \in Nat /\ h_silencio'[c] <= h_silencio[c] + 1
    BY <1>0, <2>1 DEF Saturado
  <2> QED
    BY <1>0, <1>2, <2>1, <2>2, <2>3
<1>3. CASE agora' = agora /\ HNext
  <2>1. h_silencio' = [c \in Circuitos |-> IF TemPulso(c) THEN 0 ELSE h_silencio[c]]
    BY <1>0, <1>3 DEF HNext
  <2>2. ASSUME NEW c \in Circuitos
        PROVE  /\ h_silencio'[c] = 0 \/ h_silencio'[c] = h_silencio[c]
               /\ s_pulsos'[c] # s_pulsos[c] => h_silencio'[c] = 0
    BY <2>1 DEF TemPulso
  <2>3. h_silencio' \in [Circuitos -> Nat]
    BY <1>0, <2>1, <2>2
  <2> QED
    BY <1>0, <1>3, <2>2, <2>3
<1>4. CASE UNCHANGED hvars
  <2>1. agora' = agora /\ h_silencio' = h_silencio /\ s_pulsos' = s_pulsos
    BY <1>4 DEF hvars, vars, fluxoVars
  <2> QED
    BY <1>0, <2>1
<1> QED
  BY <1>1, <1>2, <1>3, <1>4

(***************************************************************************)
(* The sections and the window.                                            *)
(***************************************************************************)
Tempos == SecoesInv /\ JanelaInv

\* Outside of fluxo_update and of the drive of the relays the meter and the pumps
\* stay as they are.
LEMMA NovoFica ==
  ASSUME Novo, UNCHANGED <<fluxoVars, relesVars>>, now' = 0, agora' \in Nat, agora' <= BOOT_MAX
  PROVE  Novo'
BY MedidorParado DEF Novo, relesVars, Ligado

LEMMA TemposTarefa ==
  ASSUME MaxTempo < MS_MOD, DInv,
         \/ BootTermina \/ LeNow \/ AtualizaBotao \/ Decide \/ AcionaFrio \/ AcionaQuente
         \/ Mostra \/ OledTermina \/ Telemetria \/ PublicaTermina \/ EsperaTermina
  PROVE  Tempos'
<1> USE Numeros, Constantes, MedidorParado DEF DInv, Segue
<1>1. CASE BootTermina
  <2>1. /\ cpc = "boot" /\ cpc' = "le_now" /\ agora' = agora /\ now' = now
        /\ UNCHANGED <<fluxoVars, relesVars>>
    BY <1>1 DEF BootTermina
  <2>2. Novo'
    BY <2>1, NovoFica DEF SecoesInv, Novo
  <2> QED
    BY <2>1, <2>2 DEF Tempos, SecoesInv, JanelaInv, Novo, Decisao
<1>2. CASE LeNow
  <2>1. /\ cpc = "le_now" /\ cpc' = "botao" /\ agora' = agora /\ now' = agora /\ gasto' = 0
        /\ UNCHANGED fluxoVars
    BY <1>2, SemVolta DEF LeNow
  <2>2. upc' = upc /\ MedidoEmBar' = MedidoEmBar
    BY <2>1
  <2>3. CASE Novo
    BY <2>1, <2>2, <2>3 DEF Tempos, SecoesInv, JanelaInv, Novo, Decisao
  <2>4. CASE ~Novo
    BY <2>1, <2>2, <2>4 DEF Tempos, SecoesInv, JanelaInv, Decisao
  <2> QED
    BY <2>3, <2>4
<1>3. CASE AtualizaBotao
  <2>1. /\ cpc = "botao" /\ cpc' \in {"botao", "fluxo"}
        /\ UNCHANGED <<agora, now, gasto, fluxoVars>>
    BY <1>3 DEF AtualizaBotao
  <2>2. upc' = upc /\ MedidoEmBar' = MedidoEmBar
    BY <2>1
  <2> QED
    BY <2>1, <2>2 DEF Tempos, SecoesInv, JanelaInv, Decisao
<1>4. CASE Decide \/ AcionaFrio
  <2>1. /\ cpc \in {"decide", "rele_frio"} /\ cpc' \in {"rele_frio", "rele_quente"}
        /\ UNCHANGED <<agora, now, gasto, fluxoVars>>
    BY <1>4 DEF Decide, AcionaFrio
  <2>2. upc' = upc /\ MedidoEmBar' = MedidoEmBar
    BY <2>1
  <2> QED
    BY <2>1, <2>2 DEF Tempos, SecoesInv, JanelaInv, Decisao
<1>5. CASE AcionaQuente
  <2>1. /\ cpc = "rele_quente" /\ cpc' = "mostra" /\ gasto' = 0
        /\ UNCHANGED <<agora, now, fluxoVars>>
    BY <1>5 DEF AcionaQuente
  <2>2. upc' = upc /\ MedidoEmBar' = MedidoEmBar
    BY <2>1
  <2> QED
    BY <2>1, <2>2 DEF Tempos, SecoesInv, JanelaInv, Decisao
<1>6. CASE Mostra \/ OledTermina
  <2>1. /\ UNCHANGED <<agora, now, fluxoVars>> /\ (gasto' = 0 \/ gasto' = gasto)
        /\ \/ cpc = "mostra" /\ cpc' \in {"oled", "telemetria"} /\ gasto' = gasto
           \/ cpc = "oled" /\ cpc' = "telemetria" /\ gasto' = 0
    BY <1>6 DEF Mostra, OledTermina
  <2>2. upc' = upc /\ MedidoEmBar' = MedidoEmBar
    BY <2>1
  <2> QED
    BY <2>1, <2>2 DEF Tempos, SecoesInv, JanelaInv, Decisao
<1>7. CASE Telemetria \/ PublicaTermina
  <2>1. /\ UNCHANGED <<agora, now, fluxoVars>> /\ (gasto' = 0 \/ gasto' = gasto)
        /\ \/ cpc = "telemetria" /\ cpc' \in {"publica", "espera"} /\ gasto' = gasto
           \/ cpc = "publica" /\ cpc' = "espera" /\ gasto' = 0
    BY <1>7 DEF Telemetria, PublicaTermina
  <2>2. upc' = upc /\ MedidoEmBar' = MedidoEmBar
    BY <2>1
  <2> QED
    BY <2>1, <2>2 DEF Tempos, SecoesInv, JanelaInv, Decisao
<1>8. CASE EsperaTermina
  <2>1. /\ cpc = "espera" /\ cpc' = "le_now" /\ UNCHANGED <<agora, now, fluxoVars>>
    BY <1>8 DEF EsperaTermina
  <2>2. upc' = upc /\ MedidoEmBar' = MedidoEmBar
    BY <2>1
  <2> QED
    BY <2>1, <2>2 DEF Tempos, SecoesInv, JanelaInv, Decisao
<1> QED
  BY <1>1, <1>2, <1>3, <1>4, <1>5, <1>6, <1>7, <1>8

LEMMA TemposFluxo ==
  ASSUME DInv, AtualizaFluxo
  PROVE  Tempos'
<1> USE Numeros, Constantes DEF DInv
<1>1. /\ cpc = "fluxo" /\ UNCHANGED <<now, gasto>> /\ fluxo_update
      /\ cpc' \in {"fluxo", "decide"} /\ (cpc' = "decide" <=> upc' = "fora")
  BY DEF AtualizaFluxo
<1>2. /\ agora = now + gasto /\ gasto <= EXEC_MAX /\ agora <= MaxTempo
      /\ now - MedidoEmBar < JANELA + Volta \/ (MedidoEmBar = 0 /\ now <= BOOT_MAX)
  BY <1>1 DEF SecoesInv, JanelaInv, Decisao
<1>3. CASE FluxoJanela /\ agora - s_last_update_us < JANELA
  <2>1. upc = "fora" /\ upc' = "fora" /\ agora' = agora /\ s_last_update_us' = s_last_update_us
    BY <1>3 DEF FluxoJanela
  <2>2. MedidoEmBar' = MedidoEmBar /\ MedidoEmBar = s_last_update_us
    BY <2>1 DEF MedidoEmBar
  <2> QED
    BY <1>1, <1>2, <1>3, <2>1, <2>2 DEF Tempos, SecoesInv, JanelaInv, Decisao
<1>4. CASE FluxoJanela /\ ~(agora - s_last_update_us < JANELA)
  <2>1. /\ upc = "fora" /\ upc' = "carrega_frio" /\ agora' = agora
        /\ s_last_update_us' = agora /\ dt_us' = agora - s_last_update_us
    BY <1>4 DEF FluxoJanela
  <2>2. MedidoEmBar' = MedidoEmBar
    BY <2>1 DEF MedidoEmBar
  <2> QED
    BY <1>1, <1>2, <2>1, <2>2 DEF Tempos, SecoesInv, JanelaInv, Decisao
<1>5. CASE FluxoCarrega
  <2>1. /\ upc # "fora" /\ upc' # "fora" /\ agora' = agora
        /\ UNCHANGED <<s_last_update_us, dt_us>>
    BY <1>5 DEF FluxoCarrega
  <2>2. MedidoEmBar' = MedidoEmBar
    BY <2>1 DEF MedidoEmBar
  <2> QED
    BY <1>1, <1>2, <2>1, <2>2 DEF Tempos, SecoesInv, JanelaInv, Decisao
<1>6. CASE FluxoCalcula
  <2>1. upc = "calcula" /\ upc' = "fora" /\ agora' = agora /\ s_last_update_us' = s_last_update_us
    BY <1>6 DEF FluxoCalcula
  <2>2. MedidoEmBar' = s_last_update_us /\ now <= s_last_update_us
    BY <2>1 DEF MedidoEmBar, JanelaInv
  <2> QED
    BY <1>1, <1>2, <2>1, <2>2 DEF Tempos, SecoesInv, JanelaInv, Decisao
<1> QED
  BY <1>1, <1>3, <1>4, <1>5, <1>6 DEF fluxo_update

LEMMA TemposTick ==
  ASSUME DInv, Tick
  PROVE  Tempos'
<1> USE Numeros, Constantes DEF DInv
<1>1. /\ agora < MaxTempo /\ gasto < Limite /\ agora' = agora + 1 /\ gasto' = gasto + 1
      /\ UNCHANGED <<fluxoVars, relesVars, cpc, now>>
  BY DEF Tick
<1>2. /\ upc' = upc /\ MedidoEmBar' = MedidoEmBar /\ s_last_update_us' = s_last_update_us
  BY <1>1, MedidorParado
<1>3. CASE cpc = "boot"
  <2>1. Novo /\ agora = gasto
    BY <1>3 DEF SecoesInv
  <2>2. Limite = BOOT_MAX
    BY <1>3 DEF Limite, Decisao
  <2>3. agora' <= BOOT_MAX /\ agora' = gasto'
    BY <1>1, <2>1, <2>2
  <2>4. Novo'
    BY <1>1, <2>1, <2>3, NovoFica DEF Novo
  <2> QED
    BY <1>1, <1>2, <1>3, <2>3, <2>4 DEF Tempos, SecoesInv, JanelaInv, Decisao, Novo
<1>4. CASE cpc \in Decisao
  <2>1. gasto < EXEC_MAX
    BY <1>1, <1>4 DEF Limite, Decisao
  <2> QED
    BY <1>1, <1>2, <1>4, <2>1 DEF Tempos, SecoesInv, JanelaInv, Decisao
<1>5. CASE cpc \in {"oled", "publica", "espera"}
  <2>1. /\ cpc = "oled" => gasto < OLED_MAX
        /\ cpc = "publica" => gasto < PUB_MAX
        /\ cpc = "espera" => gasto < ESPERA_MAX
    BY <1>1, <1>5 DEF Limite, Decisao
  <2> QED
    BY <1>1, <1>2, <1>5, <2>1 DEF Tempos, SecoesInv, JanelaInv, Decisao
<1>6. CASE cpc \notin Decisao \cup {"boot", "oled", "publica", "espera"}
  <2>1. Limite = 0
    BY <1>6 DEF Limite
  <2> QED
    BY <1>1, <2>1
<1> QED
  BY <1>3, <1>4, <1>5, <1>6

LEMMA TemposPasso ==
  ASSUME MaxTempo < MS_MOD, DInv, [HNext]_hvars
  PROVE  Tempos'
<1>1. CASE (\E c \in Circuitos : Pulso(c)) \/ Comando \/ Botao \/ UNCHANGED hvars
  <2>1. /\ UNCHANGED <<agora, cpc, now, gasto, s_last_update_us, upc, dt_us, s_ativo, nivel>>
    BY <1>1 DEF Pulso, isr_fluxo, Comando, Botao, hvars, vars, fluxoVars, relesVars, tarefaVars
  <2>2. MedidoEmBar' = MedidoEmBar
    BY <2>1 DEF MedidoEmBar
  <2>3. Novo' <=> Novo
    BY <2>1, <2>2 DEF Novo, Ligado
  <2> QED
    BY <2>1, <2>2, <2>3 DEF DInv, Tempos, SecoesInv, JanelaInv
<1> QED
  BY <1>1, TemposTarefa, TemposFluxo, TemposTick DEF HNext, Next, Tarefa

(***************************************************************************)
(* The silence of a circuit.                                               *)
(***************************************************************************)
\* What SilencioInv says of one circuit.
Silencio(c) ==
  /\ s_pulsos[c] # s_last_pulsos[c] => h_silencio[c] <= agora - MedidoEmBar
  /\ Carregado(c) /\ s_pulsos[c] # p[c] => h_silencio[c] <= agora - s_last_update_us
  /\ s_ativo[c] => MedidoEmBar > 0 /\ h_silencio[c] <= agora - MedidoEmBar + PrimeiraJanela
  /\ s_last_stop_ms[c] # 0 =>
       /\ s_last_stop_ms[c] <= agora
       /\ h_silencio[c] <= agora - s_last_stop_ms[c] + JanelaMax + PrimeiraJanela

LEMMA SilencioTipos ==
  ASSUME DInv, [HNext]_hvars, NEW c \in Circuitos
  PROVE  /\ h_silencio[c] \in Nat /\ h_silencio'[c] \in Nat
         /\ s_last_stop_ms[c] \in Nat /\ s_ativo[c] \in BOOLEAN
         /\ agora' \in Nat /\ agora' >= agora
         /\ h_silencio'[c] <= h_silencio[c] + (agora' - agora)
         /\ Silencio(c)
<1>1. h_silencio'[c] \in Nat /\ h_silencio'[c] <= h_silencio[c] + (agora' - agora)
  BY Passagem
<1>2. h_silencio[c] \in Nat /\ Silencio(c)
  BY DEF DInv, SilencioInv, Silencio
<1>3. s_last_stop_ms[c] \in Nat /\ s_ativo[c] \in BOOLEAN
  BY PlacaAssumption DEF DInv, FluxoInv, FluxoTypeOK, UintMod
<1>4. agora' \in Nat /\ agora' >= agora
  BY Passagem, Numeros
<1> QED
  BY <1>1, <1>2, <1>3, <1>4

LEMMA SilencioParado ==
  ASSUME DInv, [HNext]_hvars, UNCHANGED fluxoVars, NEW c \in Circuitos
  PROVE  Silencio(c)'
<1>1. /\ s_pulsos'[c] = s_pulsos[c] /\ s_last_pulsos'[c] = s_last_pulsos[c] /\ p'[c] = p[c]
      /\ s_ativo'[c] = s_ativo[c] /\ s_last_stop_ms'[c] = s_last_stop_ms[c]
      /\ s_last_update_us' = s_last_update_us /\ MedidoEmBar' = MedidoEmBar
      /\ Carregado(c)' = Carregado(c)
  BY MedidorParado
<1> QED
  BY <1>1, SilencioTipos, Numeros, Constantes DEF Silencio

LEMMA SilencioPulso ==
  ASSUME DInv, [HNext]_hvars, NEW d \in Circuitos, isr_fluxo(d), NEW c \in Circuitos
  PROVE  Silencio(c)'
<1>1. /\ s_last_pulsos' = s_last_pulsos /\ p' = p /\ s_ativo' = s_ativo
      /\ s_last_stop_ms' = s_last_stop_ms /\ agora' = agora
      /\ s_last_update_us' = s_last_update_us /\ MedidoEmBar' = MedidoEmBar
      /\ Carregado(c)' = Carregado(c)
  BY DEF isr_fluxo, MedidoEmBar, Carregado
<1>2. CASE s_pulsos'[c] = s_pulsos[c]
  BY <1>1, <1>2, SilencioTipos, Numeros, Constantes DEF Silencio
<1>3. CASE s_pulsos'[c] # s_pulsos[c]
  <2>1. h_silencio'[c] = 0
    BY <1>3, Passagem
  <2> QED
    BY <1>1, <2>1, SilencioTipos, Numeros, Constantes DEF Silencio
<1> QED
  BY <1>2, <1>3

LEMMA SilencioJanela ==
  ASSUME DInv, [HNext]_hvars, FluxoJanela, NEW c \in Circuitos
  PROVE  Silencio(c)'
<1>1. /\ s_pulsos' = s_pulsos /\ s_last_pulsos' = s_last_pulsos /\ s_ativo' = s_ativo
      /\ s_last_stop_ms' = s_last_stop_ms /\ agora' = agora
      /\ upc' \in {"fora", "carrega_frio"}
  BY DEF FluxoJanela
<1>2. MedidoEmBar' = MedidoEmBar
  BY Numeros DEF FluxoJanela, MedidoEmBar
<1>3. ~Carregado(c)'
  BY <1>1 DEF Carregado
<1> QED
  BY <1>1, <1>2, <1>3, SilencioTipos, Numeros, Constantes DEF Silencio

LEMMA SilencioCarrega ==
  ASSUME DInv, [HNext]_hvars, FluxoCarrega, NEW c \in Circuitos
  PROVE  Silencio(c)'
<1>1. /\ s_pulsos' = s_pulsos /\ s_last_pulsos' = s_last_pulsos /\ s_ativo' = s_ativo
      /\ s_last_stop_ms' = s_last_stop_ms /\ agora' = agora
      /\ s_last_update_us' = s_last_update_us
  BY DEF FluxoCarrega
<1>2. MedidoEmBar' = MedidoEmBar
  BY DEF FluxoCarrega, MedidoEmBar
<1>3. Carregado(c)' => p'[c] = s_pulsos[c] \/ (Carregado(c) /\ p'[c] = p[c])
  BY DEF FluxoCarrega, Carregado, DInv, FluxoInv, FluxoTypeOK, Circuitos
<1> QED
  BY <1>1, <1>2, <1>3, SilencioTipos, Numeros, Constantes DEF Silencio

\* A verdict is given for a window that had a pulse, and a stop is stamped when
\* the window after it had none.
LEMMA SilencioCalcula ==
  ASSUME MaxTempo < MS_MOD, DInv, [HNext]_hvars, FluxoCalcula, NEW c \in Circuitos
  PROVE  Silencio(c)'
<1> DEFINE fim == s_last_update_us
           d == SubMod(p[c], s_last_pulsos[c], PULSO_MOD)
<1>1. /\ agora' = agora /\ s_pulsos' = s_pulsos /\ s_last_pulsos' = p
      /\ s_last_update_us' = fim /\ MedidoEmBar' = fim /\ upc = "calcula" /\ upc' = "fora"
      /\ s_ativo'[c] = FluxoAtivo(d, dt_us)
      /\ s_last_stop_ms'[c] = IF Parou(c) THEN agora ELSE s_last_stop_ms[c]
  BY SemVolta DEF FluxoCalcula, FechaJanela, MedidoEmBar
<1>2. cpc = "fluxo" /\ agora = now + gasto /\ gasto <= EXEC_MAX /\ now <= fim
  BY <1>1 DEF DInv, SecoesInv, JanelaInv, Decisao
<1>3. /\ now - MedidoEmBar < JANELA + Volta \/ (MedidoEmBar = 0 /\ now <= BOOT_MAX)
      /\ MedidoEmBar = fim - dt_us /\ JANELA <= fim /\ fim <= agora
  BY <1>1, <1>2, Numeros DEF DInv, JanelaInv
<1>4. dt_us <= PrimeiraJanela /\ fim > 0
  BY <1>2, <1>3, Numeros, Constantes
<1>5. s_pulsos[c] # p[c] => h_silencio'[c] <= agora - fim
  BY <1>1, SilencioTipos, Numeros DEF Silencio, Carregado
<1>6. s_ativo'[c] => h_silencio'[c] <= agora - fim + PrimeiraJanela
  <2> SUFFICES ASSUME s_ativo'[c] PROVE h_silencio'[c] <= agora - fim + PrimeiraJanela
    OBVIOUS
  <2>1. d # 0
    <3>1. dt_us \in Nat /\ TICKS_POR_S \in Nat
      BY Numeros, FluxoAssumption
    <3>2. ~FluxoAtivo(0, dt_us)
      BY <3>1 DEF FluxoAtivo
    <3>3. FluxoAtivo(d, dt_us)
      BY <1>1
    <3> HIDE DEF d
    <3> QED
      BY <3>2, <3>3
  <2>2. /\ s_pulsos[c] \in UintMod(PULSO_MOD) /\ s_last_pulsos[c] \in UintMod(PULSO_MOD)
        /\ p[c] \in UintMod(PULSO_MOD) /\ d <= Pendentes(c)
    BY <1>1 DEF DInv, FluxoInv, FluxoTypeOK, Carregado
  <2>3. d \in Nat
    <3>1. d \in UintMod(PULSO_MOD)
      BY <2>2, FluxoAssumption, SubModTipo
    <3> HIDE DEF d
    <3> QED
      BY <3>1, FluxoAssumption DEF UintMod
  <2>4. s_pulsos[c] # s_last_pulsos[c]
    <3>1. s_pulsos[c] = s_last_pulsos[c] => Pendentes(c) = 0
      BY <2>2, FluxoAssumption, SubModZero DEF Pendentes
    <3> HIDE DEF d
    <3> QED
      BY <2>1, <2>2, <2>3, <3>1
  <2>5. h_silencio'[c] <= agora - MedidoEmBar
    BY <1>1, <2>4, SilencioTipos, Numeros DEF Silencio
  <2> QED
    BY <1>3, <1>4, <2>5, SilencioTipos, Numeros, Constantes
<1>7. CASE Parou(c)
  <2>1. s_ativo[c] /\ s_last_stop_ms'[c] = agora
    BY <1>1, <1>7 DEF Parou
  <2>2. MedidoEmBar > 0 /\ h_silencio[c] <= agora - MedidoEmBar + PrimeiraJanela
    BY <2>1, SilencioTipos DEF Silencio
  <2>3. agora - MedidoEmBar <= JanelaMax
    BY <1>2, <1>3, <2>2, Numeros, Constantes
  <2>4. h_silencio'[c] <= JanelaMax + PrimeiraJanela
    BY <1>1, <2>2, <2>3, SilencioTipos, Numeros, Constantes
  <2> QED
    BY <1>1, <1>4, <1>5, <1>6, <2>1, <2>4, SilencioTipos, Numeros, Constantes DEF Silencio, Carregado
<1>8. CASE ~Parou(c)
  <2>1. s_last_stop_ms'[c] = s_last_stop_ms[c]
    BY <1>1, <1>8
  <2>2. s_last_stop_ms'[c] # 0 =>
          s_last_stop_ms'[c] <= agora' /\ h_silencio'[c] <= agora' - s_last_stop_ms'[c] + JanelaMax + PrimeiraJanela
    BY <1>1, <2>1, SilencioTipos, Numeros, Constantes DEF Silencio
  <2> QED
    BY <1>1, <1>4, <1>5, <1>6, <2>2, SilencioTipos, Numeros, Constantes DEF Silencio, Carregado
<1> QED
  BY <1>7, <1>8

LEMMA SilencioPasso ==
  ASSUME MaxTempo < MS_MOD, DInv, [HNext]_hvars
  PROVE  SilencioInv'
<1>1. [FluxoNext]_<<agora, fluxoVars>>
  BY PassoDoMedidor DEF HNext, hvars
<1>2. ASSUME NEW c \in Circuitos PROVE Silencio(c)'
  <2>1. UNCHANGED fluxoVars \/ (\E d \in Circuitos : isr_fluxo(d)) \/ fluxo_update
    BY <1>1 DEF FluxoNext, FluxoTick
  <2> QED
    BY <2>1, SilencioParado, SilencioPulso, SilencioJanela, SilencioCarrega, SilencioCalcula
    DEF fluxo_update
<1>3. h_silencio' \in [Circuitos -> Nat]
  BY Passagem
<1> QED
  BY <1>2, <1>3 DEF SilencioInv, Silencio

(***************************************************************************)
(* The pumps.                                                              *)
(***************************************************************************)
\* A pulse grows old with the clock, and no faster.
LEMMA HouvePulsoFica ==
  ASSUME DInv, [HNext]_hvars, NEW t \in Int, NEW u \in Int,
         HouvePulso(t), u >= t + (agora' - agora)
  PROVE  \E c \in Circuitos : h_silencio'[c] <= u
<1>1. PICK c \in Circuitos : h_silencio[c] <= t
  BY DEF HouvePulso
<1>2. h_silencio'[c] <= u
  BY <1>1, SilencioTipos, Numeros
<1> QED
  BY <1>2

\* What a decision sees of a demand is never older than Alcance on its own clock;
\* a stamp ahead of that clock is younger still.
LEMMA DemandaRecente ==
  ASSUME DELAY_OFF + Volta > 0, DInv, upc = "fora", now - MedidoEmBar < JANELA,
         NEW c \in Circuitos, Demanda(c)
  PROVE  h_silencio[c] <= agora - now + Alcance
<1>1. /\ h_silencio[c] \in Nat /\ s_last_stop_ms[c] \in Nat /\ Silencio(c)
  BY PlacaAssumption DEF DInv, SilencioInv, Silencio, FluxoInv, FluxoTypeOK, UintMod
<1>2. CASE s_ativo[c]
  <2>1. h_silencio[c] <= agora - MedidoEmBar + PrimeiraJanela
    BY <1>1, <1>2 DEF Silencio
  <2>2. JANELA <= JanelaMax + DELAY_OFF
    BY Constantes
  <2> QED
    BY <1>1, <2>1, <2>2, Numeros, Constantes
<1>3. CASE hold_off_active(UltimaParada(c), now)
  <2>1. s_last_stop_ms[c] # 0 /\ Idade(now, s_last_stop_ms[c]) < DELAY_OFF
    BY <1>3 DEF hold_off_active, UltimaParada
  <2>2. h_silencio[c] <= agora - s_last_stop_ms[c] + JanelaMax + PrimeiraJanela
    BY <1>1, <2>1 DEF Silencio
  <2>3. now - s_last_stop_ms[c] < DELAY_OFF
    <3>1. CASE now >= s_last_stop_ms[c]
      BY <1>1, <2>1, <3>1, Numeros, Constantes DEF Idade, SubMod
    <3>2. CASE ~(now >= s_last_stop_ms[c])
      BY <1>1, <3>2, Numeros, Constantes
    <3> QED
      BY <3>1, <3>2
  <2> QED
    BY <1>1, <2>2, <2>3, Numeros, Constantes
<1> QED
  BY <1>2, <1>3 DEF Demanda

LEMMA DecisaoRecente ==
  ASSUME DELAY_OFF + Volta > 0, DInv, [HNext]_hvars, Decide, NEW c \in Circuitos, rele'[c]
  PROVE  HouvePulso(agora - now + Alcance)
<1>1. upc = "fora" /\ now - MedidoEmBar < JANELA
  BY DEF Decide, Segue, DInv, JanelaInv
<1>2. FluxoTypeOK /\ s_modo \in ModoOperacao
  BY DEF DInv, Inv, TypeOK, ModosTypeOK
<1>3. Acionamento(s_modo)[c]
  BY DEF Decide
<1>4. PICK d \in Circuitos : Demanda(d)
  BY <1>2, <1>3, AcionamentoDemanda
<1> QED
  BY <1>1, <1>4, DemandaRecente DEF HouvePulso

\* The age of a decision, in the section of the loop that follows it.
Folga == agora - now + Alcance + IF cpc \in Decisao THEN Volta ELSE 0

LEMMA BombasParadas ==
  ASSUME DInv, [HNext]_hvars, UNCHANGED <<nivel, now, rele>>,
         Acionando' => Acionando, cpc \in Decisao <=> cpc' \in Decisao
  PROVE  BombasInv'
<1> USE Numeros, Constantes, Passagem
<1>1. ASSUME NEW c \in Circuitos, Acionando', rele'[c]
      PROVE  HouvePulso(agora - now + Alcance)'
  <2>1. HouvePulso(agora - now + Alcance)
    BY <1>1 DEF DInv, BombasInv
  <2> QED
    BY <2>1, HouvePulsoFica DEF HouvePulso
<1>2. ASSUME NEW c \in Circuitos, Ligado(c)'
      PROVE  HouvePulso(Folga)'
  <2>1. HouvePulso(Folga)
    BY <1>2 DEF DInv, BombasInv, Ligado, Folga
  <2>2. Folga \in Int /\ Folga' \in Int /\ Folga' = Folga + (agora' - agora)
    BY DEF Folga
  <2> QED
    BY <2>1, <2>2, HouvePulsoFica DEF HouvePulso
<1> QED
  BY <1>1, <1>2 DEF BombasInv, Folga

LEMMA BombasLeNow ==
  ASSUME MaxTempo < MS_MOD, DInv, [HNext]_hvars, LeNow
  PROVE  BombasInv'
<1> USE Numeros, Constantes
<1>1. /\ cpc = "le_now" /\ cpc' = "botao" /\ nivel' = nivel /\ agora' = agora /\ now' = agora
  BY SemVolta DEF LeNow, Segue, relesVars
<1>2. ASSUME NEW c \in Circuitos, Ligado(c)
      PROVE  \E d \in Circuitos : h_silencio'[d] <= Alcance + Volta
  <2>1. HouvePulso(agora - now + Alcance)
    BY <1>1, <1>2 DEF DInv, BombasInv, Decisao
  <2>2. agora - now <= Volta
    BY <1>1, <1>2 DEF DInv, SecoesInv, Novo
  <2> QED
    BY <1>1, <2>1, <2>2, HouvePulsoFica
<1>3. Alcance + Volta = agora' - now' + Alcance + Volta
  BY <1>1
<1>4. ~Acionando' /\ cpc' \in Decisao
  BY <1>1 DEF Acionando, Decisao
<1>5. ASSUME NEW c \in Circuitos, Ligado(c)'
      PROVE  HouvePulso(Folga)'
  <2>1. Ligado(c)
    BY <1>1, <1>5 DEF Ligado
  <2>2. Folga' = Alcance + Volta
    BY <1>3, <1>4 DEF Folga
  <2> QED
    BY <1>2, <2>1, <2>2 DEF HouvePulso
<1> QED
  BY <1>4, <1>5 DEF BombasInv, Folga

LEMMA BombasDecide ==
  ASSUME DELAY_OFF + Volta > 0, DInv, [HNext]_hvars, Decide
  PROVE  BombasInv'
<1> USE Numeros, Constantes
<1>1. /\ nivel' = nivel /\ agora' = agora /\ now' = now
      /\ cpc \in Decisao /\ cpc' \in Decisao
  BY DEF Decide, Segue, relesVars, Decisao
<1>2. ASSUME NEW c \in Circuitos, rele'[c]
      PROVE  HouvePulso(agora - now + Alcance)'
  <2>1. HouvePulso(agora - now + Alcance)
    BY <1>2, DecisaoRecente
  <2> QED
    BY <1>1, <2>1, HouvePulsoFica DEF HouvePulso
<1>3. ASSUME NEW c \in Circuitos, Ligado(c)'
      PROVE  HouvePulso(Folga)'
  <2>1. HouvePulso(Folga)
    BY <1>1, <1>3 DEF DInv, BombasInv, Ligado, Folga
  <2>2. Folga \in Int /\ Folga' = Folga
    BY <1>1 DEF Folga
  <2> QED
    BY <1>1, <2>1, <2>2, HouvePulsoFica DEF HouvePulso
<1> QED
  BY <1>2, <1>3 DEF BombasInv, Folga

\* A pump that is driven takes the age of its decision, the other keeps its own.
LEMMA BombasAciona ==
  ASSUME DInv, [HNext]_hvars, AcionaFrio \/ AcionaQuente
  PROVE  BombasInv'
<1> USE Numeros, Constantes
<1>1. /\ agora' = agora /\ now' = now /\ rele' = rele /\ Acionando /\ cpc \in Decisao
      /\ [Next]_vars /\ Inv
  BY DEF AcionaFrio, AcionaQuente, Segue, Acionando, Decisao, HNext, hvars, DInv
<1>2. ASSUME NEW c \in Circuitos, rele[c]
      PROVE  HouvePulso(agora - now + Alcance)'
  <2>1. HouvePulso(agora - now + Alcance)
    BY <1>1, <1>2 DEF DInv, BombasInv
  <2> QED
    BY <1>1, <2>1, HouvePulsoFica DEF HouvePulso
<1>3. ASSUME NEW c \in Circuitos, Ligado(c)'
      PROVE  HouvePulso(Folga)'
  <2>1. CASE rele[c]
    <3>1. Folga' >= agora' - now' + Alcance /\ Folga' \in Int
      BY <1>1 DEF Folga
    <3>2. PICK d \in Circuitos : h_silencio'[d] <= agora' - now' + Alcance
      BY <1>2, <2>1 DEF HouvePulso
    <3>3. h_silencio'[d] <= Folga'
      BY <1>1, <3>1, <3>2, SilencioTipos
    <3> QED
      BY <3>3 DEF HouvePulso
  <2>2. CASE ~rele[c]
    <3>1. ~AcionaQuente
      BY <1>1, <1>3, <2>2, DecisaoCompleta
    <3>2. Ligado(c) /\ cpc' \in Decisao
      <4>1. Ligado(c)
        BY <1>1, <1>3, <2>2, PinoSoNaAcao
      <4>2. cpc' = "rele_quente"
        BY <3>1 DEF AcionaFrio, Segue
      <4> QED
        BY <4>1, <4>2 DEF Decisao
    <3>3. HouvePulso(Folga)
      BY <1>1, <3>2 DEF DInv, BombasInv, Folga
    <3>4. Folga \in Int /\ Folga' = Folga
      BY <1>1, <3>2 DEF Folga
    <3> QED
      BY <1>1, <3>3, <3>4, HouvePulsoFica DEF HouvePulso
  <2> QED
    BY <2>1, <2>2
<1> QED
  BY <1>1, <1>2, <1>3 DEF BombasInv, Folga

LEMMA BombasPasso ==
  ASSUME MaxTempo < MS_MOD, DELAY_OFF + Volta > 0, DInv, [HNext]_hvars
  PROVE  BombasInv'
<1>1. CASE \/ BootTermina \/ AtualizaBotao \/ AtualizaFluxo \/ Mostra \/ OledTermina
           \/ Telemetria \/ PublicaTermina \/ EsperaTermina
  <2>1. UNCHANGED <<nivel, now, rele>>
    BY <1>1 DEF BootTermina, AtualizaBotao, AtualizaFluxo, Mostra, OledTermina,
      Telemetria, PublicaTermina, EsperaTermina, relesVars
  <2>2. ~Acionando' /\ (cpc \in Decisao <=> cpc' \in Decisao)
    BY <1>1 DEF BootTermina, AtualizaBotao, AtualizaFluxo, Mostra, OledTermina,
      Telemetria, PublicaTermina, EsperaTermina, Segue, Acionando, Decisao
  <2> QED
    BY <2>1, <2>2, BombasParadas
<1>2. CASE Tick \/ (\E c \in Circuitos : Pulso(c)) \/ Comando \/ Botao \/ UNCHANGED hvars
  <2>1. UNCHANGED <<nivel, now, rele, cpc>>
    BY <1>2 DEF Tick, Pulso, Comando, Botao, hvars, vars, relesVars, tarefaVars
  <2>2. Acionando' = Acionando
    BY <2>1 DEF Acionando
  <2> QED
    BY <2>1, <2>2, BombasParadas
<1> QED
  BY <1>1, <1>2, BombasLeNow, BombasDecide, BombasAciona DEF HNext, Next, Tarefa

LEMMA DInicio == HInit => DInv
<1> SUFFICES ASSUME HInit PROVE DInv
  OBVIOUS
<1>1. Inv /\ FluxoInv
  BY InitInv, FluxoInitInv DEF HInit, Init
<1>2. /\ agora = 0 /\ now = 0 /\ gasto = 0 /\ cpc = "boot" /\ upc = "fora" /\ s_last_update_us = 0
      /\ MedidoEmBar = 0 /\ s_pulsos = Zero /\ s_last_pulsos = Zero /\ s_last_stop_ms = Zero
      /\ h_silencio = [c \in Circuitos |-> PRAZO_DESLIGA + 1]
      /\ \A c \in Circuitos : ~Ligado(c) /\ ~s_ativo[c]
  BY DEF HInit, Init, FluxoInit, reles_init, MedidoEmBar, Ligado, RELAY_ON_LEVEL, RELAY_OFF_LEVEL
<1>3. Novo
  BY <1>2, Constantes DEF Novo
<1>4. SecoesInv /\ JanelaInv
  BY <1>2, <1>3, Constantes DEF SecoesInv, JanelaInv, Decisao
<1>5. SilencioInv
  <2>1. PRAZO_DESLIGA + 1 \in Nat
    BY Constantes DEF PRAZO_DESLIGA
  <2> QED
    BY <1>2, <2>1 DEF SilencioInv, Carregado, Zero
<1>6. BombasInv
  BY <1>2 DEF BombasInv, Acionando
<1> QED
  BY <1>1, <1>4, <1>5, <1>6 DEF DInv

LEMMA DPasso ==
  ASSUME MaxTempo < MS_MOD, DELAY_OFF + Volta > 0, DInv, [HNext]_hvars
  PROVE  DInv'
<1>1. Inv'
  BY NextInv DEF DInv, HNext, hvars
<1>2. FluxoInv'
  BY PassoDoMedidor, FluxoNextInv DEF DInv, HNext, hvars
<1> QED
  BY <1>1, <1>2, TemposPasso, SilencioPasso, BombasPasso DEF DInv, Tempos

(***************************************************************************)
(* Water that runs.  A window weighs a pulse for every whole tick of water *)
(* in it, but for the tick it began in and those in which the loads of the *)
(* window before came late; a dry verdict therefore means that the water   *)
(* began in that window.                                                   *)
(***************************************************************************)
Menor(a, b) == IF a <= b THEN a ELSE b

\* The ticks of the open window that surely lie after the loads of the last one.
Inteiros == agora - MedidoEmBar - 1 - EXEC_MAX

CorridaInv ==
  /\ h_corrida \in [Circuitos -> Nat] /\ h_molhado \in [Circuitos -> BOOLEAN]
  /\ \A c \in Circuitos :
       /\ Pendentes(c) >= Menor(h_corrida[c], Inteiros)
       /\ h_molhado[c] /\ Inteiros >= 0 => Pendentes(c) >= 1 + Menor(h_corrida[c], Inteiros)
       /\ Carregado(c) => SubMod(p[c], s_last_pulsos[c], PULSO_MOD)
                            >= Menor(h_corrida[c] - (agora - s_last_update_us),
                                     dt_us - 1 - EXEC_MAX)
       /\ s_ativo[c] \/ MedidoEmBar <= PrimeiraJanela
                     \/ h_corrida[c] <= agora - MedidoEmBar + JanelaMax - 2

\* What a pump that is off says of the water in its circuit, since the clock of
\* the task was read.
Cedo(c) ==
  \/ h_corrida[c] <= agora - now + 2 * JanelaMax - 2 - EXEC_MAX
  \/ now <= Arranque - EXEC_MAX

ParadasInv ==
  \A c \in Circuitos :
    /\ Acionando /\ ~rele[c] => ~s_ativo[c] \/ now <= STARTUP_INHIBIT
    /\ cpc \in Decisao /\ ~Ligado(c) => Cedo(c)
    /\ cpc \notin Decisao /\ ~Ligado(c) => ~s_ativo[c] \/ now <= STARTUP_INHIBIT

LInv == DInv /\ CorridaInv /\ ParadasInv

LEMMA MenorTipo ==
  ASSUME NEW a \in Int, NEW b \in Int
  PROVE  Menor(a, b) \in Int /\ Menor(a, b) <= a /\ Menor(a, b) <= b /\ Menor(a, b) \in {a, b}
BY DEF Menor

\* A window of dt ticks that weighed all but 1 + EXEC_MAX of them is not dry.
LEMMA VerditoMolhado ==
  ASSUME 100 * (JANELA - 1 - EXEC_MAX) * TICKS_POR_S > 66 * JANELA,
         NEW dt \in Nat, dt >= JANELA, NEW d \in Int, d >= dt - 1 - EXEC_MAX
  PROVE  FluxoAtivo(d, dt)
<1> DEFINE k == dt - JANELA
           j == JANELA - 1 - EXEC_MAX
           t == TICKS_POR_S
<1>1. k \in Nat /\ j \in Int /\ t \in Nat /\ t >= 1 /\ JANELA \in Nat /\ d >= j + k /\ dt = JANELA + k
  BY Constantes, FluxoAssumption
<1>2. 100 * j * t > 66 * JANELA
  OBVIOUS
<1> HIDE DEF k, j, t
<1>3. k * t >= k
  BY <1>1
<1>4. (j + k) * t = j * t + k * t
  BY <1>1
<1>5. d * t >= (j + k) * t
  BY <1>1
<1>6. /\ 100 * d * t = 100 * (d * t) /\ 100 * j * t = 100 * (j * t)
      /\ d * t \in Int /\ j * t \in Int /\ k * t \in Int
  BY <1>1
<1>7. 100 * d * t > 66 * dt
  BY <1>1, <1>2, <1>3, <1>4, <1>5, <1>6
<1> QED
  BY <1>7 DEF FluxoAtivo, t

\* The history of the water: a tick makes a run of wet ticks one longer or ends it,
\* and nothing else does.
LEMMA CorridaAnda ==
  ASSUME h_corrida \in [Circuitos -> Nat], h_molhado \in [Circuitos -> BOOLEAN],
         DInv, [HNext]_hvars
  PROVE  /\ h_corrida' \in [Circuitos -> Nat] /\ h_molhado' \in [Circuitos -> BOOLEAN]
         /\ \A c \in Circuitos :
              /\ agora' # agora =>
                   /\ ~h_molhado'[c]
                   /\ h_corrida'[c] <= h_corrida[c] + 1
                   /\ ~h_molhado[c] => h_corrida'[c] = 0
              /\ agora' = agora =>
                   /\ h_corrida'[c] = h_corrida[c]
                   /\ s_pulsos'[c] = s_pulsos[c] => (h_molhado'[c] <=> h_molhado[c])
<1>0. agora \in Nat /\ PRAZO_LIGA \in Nat
  BY Numeros, Constantes DEF PRAZO_LIGA
<1>1. CASE HNext /\ agora' # agora
  <2>1. /\ h_molhado' = [c \in Circuitos |-> FALSE]
        /\ h_corrida' = [c \in Circuitos |->
             IF h_molhado[c] THEN Saturado(h_corrida[c], PRAZO_LIGA) ELSE 0]
    BY <1>1 DEF HNext
  <2>2. ASSUME NEW c \in Circuitos
        PROVE  /\ h_corrida'[c] \in Nat /\ h_corrida'[c] <= h_corrida[c] + 1
               /\ ~h_molhado[c] => h_corrida'[c] = 0
    <3>1. Saturado(h_corrida[c], PRAZO_LIGA) \in Nat /\ Saturado(h_corrida[c], PRAZO_LIGA) <= h_corrida[c] + 1
      BY <1>0 DEF Saturado
    <3>2. h_corrida'[c] = IF h_molhado[c] THEN Saturado(h_corrida[c], PRAZO_LIGA) ELSE 0
      BY <2>1
    <3>3. CASE h_molhado[c]
      BY <3>1, <3>2, <3>3
    <3>4. CASE ~h_molhado[c]
      BY <3>2, <3>4
    <3> QED
      BY <3>3, <3>4
  <2>3. h_corrida' \in [Circuitos -> Nat]
    BY <2>1, <2>2
  <2> QED
    BY <1>1, <2>1, <2>2, <2>3
<1>2. CASE HNext /\ agora' = agora
  <2>1. /\ h_molhado' = [c \in Circuitos |-> h_molhado[c] \/ TemPulso(c)]
        /\ h_corrida' = h_corrida
    BY <1>2 DEF HNext
  <2>2. h_molhado' \in [Circuitos -> BOOLEAN]
    BY <2>1, Zenon DEF TemPulso
  <2>3. ASSUME NEW c \in Circuitos, s_pulsos'[c] = s_pulsos[c]
        PROVE  h_molhado'[c] <=> h_molhado[c]
    BY <2>1, <2>3, Zenon DEF TemPulso
  <2> QED
    BY <1>2, <2>1, <2>2, <2>3
<1>3. CASE UNCHANGED hvars
  <2>1. agora' = agora /\ h_molhado' = h_molhado /\ h_corrida' = h_corrida
    BY <1>3 DEF hvars, vars
  <2> QED
    BY <2>1
<1> QED
  BY <1>1, <1>2, <1>3

\* What CorridaInv says of one circuit.
Corrida(c) ==
  /\ Pendentes(c) >= Menor(h_corrida[c], Inteiros)
  /\ h_molhado[c] /\ Inteiros >= 0 => Pendentes(c) >= 1 + Menor(h_corrida[c], Inteiros)
  /\ Carregado(c) => SubMod(p[c], s_last_pulsos[c], PULSO_MOD)
                       >= Menor(h_corrida[c] - (agora - s_last_update_us), dt_us - 1 - EXEC_MAX)
  /\ s_ativo[c] \/ MedidoEmBar <= PrimeiraJanela
                \/ h_corrida[c] <= agora - MedidoEmBar + JanelaMax - 2

LEMMA CorridaTipos ==
  ASSUME DInv, CorridaInv, [HNext]_hvars, NEW c \in Circuitos
  PROVE  /\ h_corrida[c] \in Nat /\ h_corrida'[c] \in Nat /\ Inteiros \in Int
         /\ Inteiros = agora - MedidoEmBar - 1 - EXEC_MAX
         /\ Pendentes(c) \in Nat /\ Pendentes(c)' \in Nat
         /\ SubMod(p[c], s_last_pulsos[c], PULSO_MOD) \in Nat
         /\ s_pulsos[c] \in UintMod(PULSO_MOD) /\ s_last_pulsos[c] \in UintMod(PULSO_MOD)
         /\ s_ativo[c] \in BOOLEAN
         /\ Corrida(c) /\ FluxoInv'
<1>1. h_corrida[c] \in Nat /\ h_corrida'[c] \in Nat /\ Corrida(c)
  BY CorridaAnda DEF CorridaInv, Corrida
<1>2. Inteiros \in Int /\ Inteiros = agora - MedidoEmBar - 1 - EXEC_MAX
  BY Numeros, Constantes DEF Inteiros
<1>3. FluxoInv'
  BY PassoDoMedidor, FluxoNextInv DEF DInv, HNext, hvars
<1>4. /\ s_pulsos[c] \in UintMod(PULSO_MOD) /\ s_last_pulsos[c] \in UintMod(PULSO_MOD)
      /\ p[c] \in UintMod(PULSO_MOD) /\ s_ativo[c] \in BOOLEAN
      /\ s_pulsos'[c] \in UintMod(PULSO_MOD) /\ s_last_pulsos'[c] \in UintMod(PULSO_MOD)
  BY <1>3 DEF DInv, FluxoInv, FluxoTypeOK
<1>5. /\ SubMod(s_pulsos[c], s_last_pulsos[c], PULSO_MOD) \in UintMod(PULSO_MOD)
      /\ SubMod(s_pulsos'[c], s_last_pulsos'[c], PULSO_MOD) \in UintMod(PULSO_MOD)
      /\ SubMod(p[c], s_last_pulsos[c], PULSO_MOD) \in UintMod(PULSO_MOD)
  BY <1>4, FluxoAssumption, SubModTipo
<1>6. \A x \in UintMod(PULSO_MOD) : x \in Nat
  BY FluxoAssumption DEF UintMod
<1> QED
  BY <1>1, <1>2, <1>3, <1>4, <1>5, <1>6 DEF Pendentes

LEMMA CorridaParado ==
  ASSUME DInv, CorridaInv, [HNext]_hvars, UNCHANGED <<agora, fluxoVars>>, NEW c \in Circuitos
  PROVE  Corrida(c)'
<1>1. /\ s_pulsos'[c] = s_pulsos[c] /\ s_last_pulsos'[c] = s_last_pulsos[c] /\ p'[c] = p[c]
      /\ s_ativo'[c] = s_ativo[c] /\ s_last_update_us' = s_last_update_us /\ dt_us' = dt_us
      /\ MedidoEmBar' = MedidoEmBar /\ Carregado(c)' = Carregado(c) /\ agora' = agora
  BY MedidorParado
<1>2. h_corrida'[c] = h_corrida[c] /\ (h_molhado'[c] <=> h_molhado[c])
  <2>1. h_corrida \in [Circuitos -> Nat] /\ h_molhado \in [Circuitos -> BOOLEAN]
    BY DEF CorridaInv
  <2> QED
    BY <1>1, <2>1, CorridaAnda
<1> QED
  BY <1>1, <1>2, CorridaTipos DEF Corrida, Pendentes, Inteiros

LEMMA CorridaTick ==
  ASSUME DInv, CorridaInv, [HNext]_hvars, Tick, NEW c \in Circuitos
  PROVE  Corrida(c)'
<1> DEFINE d == SubMod(p[c], s_last_pulsos[c], PULSO_MOD)
<1>1. /\ s_pulsos'[c] = s_pulsos[c] /\ s_last_pulsos'[c] = s_last_pulsos[c] /\ p'[c] = p[c]
      /\ s_ativo'[c] = s_ativo[c] /\ s_last_update_us' = s_last_update_us /\ dt_us' = dt_us
      /\ MedidoEmBar' = MedidoEmBar /\ Carregado(c)' = Carregado(c) /\ agora' = agora + 1
  BY MedidorParado DEF Tick
<1>2. /\ ~h_molhado'[c] /\ h_corrida'[c] <= h_corrida[c] + 1
      /\ ~h_molhado[c] => h_corrida'[c] = 0
  <2>1. h_corrida \in [Circuitos -> Nat] /\ h_molhado \in [Circuitos -> BOOLEAN] /\ agora' # agora
    BY <1>1, Numeros DEF CorridaInv
  <2> QED
    BY <2>1, CorridaAnda
<1>3. /\ Pendentes(c)' = Pendentes(c) /\ SubMod(p'[c], s_last_pulsos'[c], PULSO_MOD) = d
      /\ Inteiros' = Inteiros + 1
  BY <1>1, Numeros, Constantes DEF Pendentes, Inteiros
<1>4. Pendentes(c) >= Menor(h_corrida'[c], Inteiros + 1)
  <2>1. CASE h_molhado[c] /\ Inteiros >= 0
    BY <1>2, <2>1, CorridaTipos DEF Corrida, Menor
  <2>2. CASE ~h_molhado[c]
    BY <1>2, <2>2, CorridaTipos DEF Menor
  <2>3. CASE Inteiros < 0
    BY <2>3, CorridaTipos DEF Menor
  <2> QED
    BY <2>1, <2>2, <2>3, CorridaTipos
<1>5. /\ MedidoEmBar' = MedidoEmBar /\ agora' = agora + 1 /\ agora \in Nat /\ MedidoEmBar \in Nat
      /\ s_last_update_us' = s_last_update_us /\ dt_us' = dt_us
      /\ s_last_update_us \in Nat /\ dt_us \in Nat /\ h_corrida'[c] \in Nat /\ h_corrida[c] \in Nat
  BY <1>1, Numeros, CorridaTipos
<1>6. h_corrida'[c] <= h_corrida[c] + 1
  BY <1>2
<1>7. Corrida(c)
  BY CorridaTipos
<1>8. Carregado(c)' => SubMod(p'[c], s_last_pulsos'[c], PULSO_MOD)
        >= Menor(h_corrida'[c] - (agora' - s_last_update_us'), dt_us' - 1 - EXEC_MAX)
  <2> SUFFICES ASSUME Carregado(c)
               PROVE  SubMod(p'[c], s_last_pulsos'[c], PULSO_MOD)
                        >= Menor(h_corrida'[c] - (agora' - s_last_update_us'), dt_us' - 1 - EXEC_MAX)
    BY <1>1, Zenon
  <2>1. d >= Menor(h_corrida[c] - (agora - s_last_update_us), dt_us - 1 - EXEC_MAX)
    BY <1>7 DEF Corrida
  <2>2. d \in Nat /\ SubMod(p'[c], s_last_pulsos'[c], PULSO_MOD) = d
    BY <1>3, CorridaTipos
  <2> HIDE DEF d
  <2> QED
    BY <1>5, <1>6, <2>1, <2>2, Constantes DEF Menor
<1>9. s_ativo'[c] \/ MedidoEmBar' <= PrimeiraJanela
                  \/ h_corrida'[c] <= agora' - MedidoEmBar' + JanelaMax - 2
  <2>1. s_ativo[c] \/ MedidoEmBar <= PrimeiraJanela
                   \/ h_corrida[c] <= agora - MedidoEmBar + JanelaMax - 2
    BY <1>7, Zenon DEF Corrida
  <2>2. CASE s_ativo[c]
    BY <1>1, <2>2, Zenon
  <2>3. CASE MedidoEmBar <= PrimeiraJanela
    BY <1>5, <2>3
  <2>4. CASE h_corrida[c] <= agora - MedidoEmBar + JanelaMax - 2
    <3>1. h_corrida'[c] <= agora' - MedidoEmBar' + JanelaMax - 2
      BY <1>5, <1>6, <2>4, Constantes
    <3> QED
      BY <3>1
  <2> QED
    BY <2>1, <2>2, <2>3, <2>4
<1>10. Pendentes(c)' >= Menor(h_corrida'[c], Inteiros') /\ ~h_molhado'[c]
  BY <1>2, <1>3, <1>4
<1> QED
  BY <1>8, <1>9, <1>10, Zenon DEF Corrida

LEMMA CorridaPulso ==
  ASSUME DInv, CorridaInv, [HNext]_hvars, NEW d \in Circuitos, isr_fluxo(d), NEW c \in Circuitos
  PROVE  Corrida(c)'
<1>1. /\ s_last_pulsos' = s_last_pulsos /\ p' = p /\ s_ativo' = s_ativo /\ agora' = agora
      /\ s_last_update_us' = s_last_update_us /\ dt_us' = dt_us /\ MedidoEmBar' = MedidoEmBar
      /\ Carregado(c)' = Carregado(c)
  BY DEF isr_fluxo, MedidoEmBar, Carregado
<1>2. /\ h_corrida'[c] = h_corrida[c]
      /\ s_pulsos'[c] = s_pulsos[c] => (h_molhado'[c] <=> h_molhado[c])
  <2>1. h_corrida \in [Circuitos -> Nat] /\ h_molhado \in [Circuitos -> BOOLEAN]
    BY DEF CorridaInv
  <2> QED
    BY <1>1, <2>1, CorridaAnda
<1>3. Inteiros' = Inteiros
  BY <1>1 DEF Inteiros
<1>4. /\ Pendentes(c)' >= Menor(h_corrida[c], Inteiros)
      /\ h_molhado'[c] /\ Inteiros >= 0 => Pendentes(c)' >= 1 + Menor(h_corrida[c], Inteiros)
  <2>1. CASE c = d
    <3>1. s_pulsos'[c] = IncMod(s_pulsos[c], PULSO_MOD) /\ Pendentes(c) < PULSO_MOD - 1
      BY <2>1 DEF isr_fluxo, DInv, FluxoInv, FluxoTypeOK
    <3>2. Pendentes(c)' = Pendentes(c) + 1
      BY <1>1, <3>1, CorridaTipos, FluxoAssumption, SubModInc DEF Pendentes
    <3>3. Menor(h_corrida[c], Inteiros) \in Int /\ Pendentes(c) >= Menor(h_corrida[c], Inteiros)
      <4>1. Corrida(c) /\ h_corrida[c] \in Int /\ Inteiros \in Int
        BY CorridaTipos
      <4>2. Pendentes(c) >= Menor(h_corrida[c], Inteiros)
        BY <4>1, Zenon DEF Corrida
      <4> QED
        BY <4>1, <4>2, MenorTipo
    <3>4. /\ Pendentes(c)' >= Menor(h_corrida[c], Inteiros)
          /\ Pendentes(c)' >= 1 + Menor(h_corrida[c], Inteiros)
      BY <3>2, <3>3, CorridaTipos
    <3> QED
      BY <3>4, Zenon
  <2>2. CASE c # d
    <3>1. s_pulsos'[c] = s_pulsos[c] /\ Pendentes(c)' = Pendentes(c)
      BY <1>1, <2>2 DEF isr_fluxo, Pendentes, DInv, FluxoInv, FluxoTypeOK
    <3> QED
      BY <1>2, <3>1, CorridaTipos DEF Corrida
  <2> QED
    BY <2>1, <2>2
<1> QED
  BY <1>1, <1>2, <1>3, <1>4, CorridaTipos DEF Corrida

LEMMA CorridaJanela ==
  ASSUME DInv, CorridaInv, [HNext]_hvars, FluxoJanela, NEW c \in Circuitos
  PROVE  Corrida(c)'
<1>1. /\ s_pulsos' = s_pulsos /\ s_last_pulsos' = s_last_pulsos /\ s_ativo' = s_ativo
      /\ agora' = agora /\ upc' \in {"fora", "carrega_frio"}
  BY DEF FluxoJanela
<1>2. MedidoEmBar' = MedidoEmBar
  BY Numeros DEF FluxoJanela, MedidoEmBar
<1>3. ~Carregado(c)'
  BY <1>1 DEF Carregado
<1>4. h_corrida'[c] = h_corrida[c] /\ (h_molhado'[c] <=> h_molhado[c])
  <2>1. h_corrida \in [Circuitos -> Nat] /\ h_molhado \in [Circuitos -> BOOLEAN]
    BY DEF CorridaInv
  <2> QED
    BY <1>1, <2>1, CorridaAnda
<1>5. Pendentes(c)' = Pendentes(c) /\ Inteiros' = Inteiros
  BY <1>1, <1>2 DEF Pendentes, Inteiros
<1> QED
  BY <1>1, <1>2, <1>3, <1>4, <1>5, CorridaTipos DEF Corrida

LEMMA CorridaCarrega ==
  ASSUME DInv, CorridaInv, [HNext]_hvars, FluxoCarrega, NEW c \in Circuitos
  PROVE  Corrida(c)'
<1>1. /\ s_pulsos' = s_pulsos /\ s_last_pulsos' = s_last_pulsos /\ s_ativo' = s_ativo
      /\ agora' = agora /\ s_last_update_us' = s_last_update_us /\ dt_us' = dt_us
      /\ upc # "fora"
  BY DEF FluxoCarrega
<1>2. MedidoEmBar' = MedidoEmBar
  BY DEF FluxoCarrega, MedidoEmBar
<1>3. Carregado(c)' => p'[c] = s_pulsos[c] \/ (Carregado(c) /\ p'[c] = p[c])
  BY DEF FluxoCarrega, Carregado, DInv, FluxoInv, FluxoTypeOK, Circuitos
<1>4. h_corrida'[c] = h_corrida[c] /\ (h_molhado'[c] <=> h_molhado[c])
  <2>1. h_corrida \in [Circuitos -> Nat] /\ h_molhado \in [Circuitos -> BOOLEAN]
    BY DEF CorridaInv
  <2> QED
    BY <1>1, <2>1, CorridaAnda
<1>5. Pendentes(c)' = Pendentes(c) /\ Inteiros' = Inteiros
  BY <1>1, <1>2 DEF Pendentes, Inteiros
<1>6. Pendentes(c) >= Menor(h_corrida[c] - (agora - s_last_update_us), dt_us - 1 - EXEC_MAX)
  <2>1. Inteiros >= dt_us - 1 - EXEC_MAX
    BY <1>1, Numeros, Constantes, CorridaTipos
  <2> QED
    BY <2>1, Numeros, Constantes, CorridaTipos DEF Corrida, Menor
<1>7. Carregado(c)' => SubMod(p'[c], s_last_pulsos'[c], PULSO_MOD)
        >= Menor(h_corrida'[c] - (agora' - s_last_update_us'), dt_us' - 1 - EXEC_MAX)
  <2>1. CASE p'[c] = s_pulsos[c]
    BY <1>1, <1>4, <1>6, <2>1 DEF Pendentes
  <2>2. CASE Carregado(c) /\ p'[c] = p[c]
    BY <1>1, <1>4, <2>2, CorridaTipos DEF Corrida
  <2> QED
    BY <1>3, <2>1, <2>2
<1> QED
  BY <1>1, <1>2, <1>4, <1>5, <1>7, CorridaTipos DEF Corrida

LEMMA CorridaCalcula ==
  ASSUME 100 * (JANELA - 1 - EXEC_MAX) * TICKS_POR_S > 66 * JANELA,
         DInv, CorridaInv, [HNext]_hvars, FluxoCalcula, NEW c \in Circuitos
  PROVE  Corrida(c)'
<1> DEFINE fim == s_last_update_us
           d == SubMod(p[c], s_last_pulsos[c], PULSO_MOD)
<1>1. /\ agora' = agora /\ MedidoEmBar' = fim /\ upc = "calcula" /\ upc' = "fora"
      /\ s_ativo'[c] = FluxoAtivo(d, dt_us)
      /\ s_pulsos' = s_pulsos
  BY DEF FluxoCalcula, MedidoEmBar
<1>2. cpc = "fluxo" /\ agora = now + gasto /\ gasto <= EXEC_MAX /\ now <= fim
  BY <1>1 DEF DInv, SecoesInv, JanelaInv, Decisao
<1>3. /\ now - MedidoEmBar < JANELA + Volta \/ (MedidoEmBar = 0 /\ now <= BOOT_MAX)
      /\ dt_us = fim - MedidoEmBar /\ fim <= agora
  BY <1>1, <1>2, Numeros DEF DInv, JanelaInv
<1>4. dt_us >= JANELA
  BY <1>1 DEF DInv, FluxoInv
<1>5. h_corrida'[c] = h_corrida[c]
  <2>1. h_corrida \in [Circuitos -> Nat] /\ h_molhado \in [Circuitos -> BOOLEAN]
    BY DEF CorridaInv
  <2> QED
    BY <1>1, <2>1, CorridaAnda
<1>6. ~Carregado(c)' /\ Inteiros' < 0 /\ Inteiros' \in Int
  BY <1>1, <1>2, Numeros, Constantes DEF Carregado, Inteiros
<1>7. Pendentes(c)' >= Menor(h_corrida'[c], Inteiros')
  BY <1>6, CorridaTipos DEF Menor
<1>8. ~s_ativo'[c] => h_corrida[c] <= agora - fim + dt_us - 2
  <2> SUFFICES ASSUME ~s_ativo'[c] PROVE h_corrida[c] <= agora - fim + dt_us - 2
    OBVIOUS
  <2>1. d \in Nat /\ ~FluxoAtivo(d, dt_us)
    BY <1>1, CorridaTipos
  <2>2. d < dt_us - 1 - EXEC_MAX
    <3> HIDE DEF d
    <3> QED
      BY <1>4, <2>1, Numeros, Constantes, VerditoMolhado
  <2>3. d >= Menor(h_corrida[c] - (agora - fim), dt_us - 1 - EXEC_MAX)
    BY <1>1, CorridaTipos DEF Corrida, Carregado
  <2> HIDE DEF d
  <2> QED
    BY <2>1, <2>2, <2>3, Numeros, Constantes, CorridaTipos DEF Menor
<1>9. dt_us <= JanelaMax \/ fim <= PrimeiraJanela
  BY <1>2, <1>3, Numeros, Constantes
<1>10. s_ativo'[c] \/ fim <= PrimeiraJanela \/ h_corrida[c] <= agora - fim + JanelaMax - 2
  BY <1>8, <1>9, Numeros, Constantes, CorridaTipos
<1> QED
  BY <1>1, <1>5, <1>6, <1>7, <1>10 DEF Corrida

LEMMA CorridaPasso ==
  ASSUME 100 * (JANELA - 1 - EXEC_MAX) * TICKS_POR_S > 66 * JANELA,
         DInv, CorridaInv, [HNext]_hvars
  PROVE  CorridaInv'
<1>1. [FluxoNext]_<<agora, fluxoVars>>
  BY PassoDoMedidor DEF HNext, hvars
<1>2. h_corrida' \in [Circuitos -> Nat] /\ h_molhado' \in [Circuitos -> BOOLEAN]
  BY CorridaAnda DEF CorridaInv
<1>3. ASSUME NEW c \in Circuitos PROVE Corrida(c)'
  <2>1. CASE agora' # agora
    <3>1. Tick
      BY <2>1, Passagem
    <3> QED
      BY <3>1, CorridaTick
  <2>2. CASE agora' = agora
    <3>1. ~FluxoTick
      BY <2>2, Numeros DEF FluxoTick
    <3>2. UNCHANGED <<agora, fluxoVars>> \/ (\E d \in Circuitos : isr_fluxo(d)) \/ fluxo_update
      BY <1>1, <3>1 DEF FluxoNext
    <3> QED
      BY <3>2, CorridaParado, CorridaPulso, CorridaJanela, CorridaCarrega, CorridaCalcula
      DEF fluxo_update
  <2> QED
    BY <2>1, <2>2
<1> QED
  BY <1>2, <1>3 DEF CorridaInv, Corrida

LEMMA Prazos ==
  /\ STARTUP_INHIBIT \in Nat
  /\ Arranque \in Nat
  /\ Arranque >= STARTUP_INHIBIT + Volta + EXEC_MAX
  /\ Arranque >= PrimeiraJanela + JanelaMax
<1>1. STARTUP_INHIBIT \in Nat
  BY ControleAssumption
<1> QED
  BY <1>1, Constantes DEF Arranque

\* A circuit found dry, or inhibited, by the last measurement before the clock of
\* the task.
LEMMA SecaCedo ==
  ASSUME DInv, CorridaInv, NEW c \in Circuitos, now - MedidoEmBar < JANELA,
         ~s_ativo[c] \/ now <= STARTUP_INHIBIT
  PROVE  \/ now + Volta <= Arranque - EXEC_MAX
         \/ h_corrida[c] <= agora - now - Volta + 2 * JanelaMax - 2 - EXEC_MAX
<1>1. CASE now <= STARTUP_INHIBIT
  BY <1>1, Numeros, Constantes, Prazos
<1>2. CASE ~s_ativo[c] /\ MedidoEmBar <= PrimeiraJanela
  BY <1>2, Numeros, Constantes, Prazos
<1>3. CASE h_corrida[c] <= agora - MedidoEmBar + JanelaMax - 2
  <2>1. h_corrida[c] \in Nat
    BY DEF CorridaInv
  <2> QED
    BY <1>3, <2>1, Numeros, Constantes, Prazos
<1>4. s_ativo[c] \/ MedidoEmBar <= PrimeiraJanela
                 \/ h_corrida[c] <= agora - MedidoEmBar + JanelaMax - 2
  BY Zenon DEF CorridaInv
<1> QED
  BY <1>1, <1>2, <1>3, <1>4

\* The clocks, but for the sections of a decision, once the task has read its own.
LEMMA ForaDaDecisao ==
  ASSUME DInv, cpc \notin Decisao, ~Novo
  PROVE  now - MedidoEmBar < JANELA /\ agora - now <= Volta
<1>1. cpc \in {"boot", "le_now", "mostra", "oled", "telemetria", "publica", "espera"} \cup Decisao
  BY DEF DInv, Inv, TypeOK
<1>2. now - MedidoEmBar < JANELA
  BY <1>1 DEF DInv, SecoesInv, JanelaInv, Decisao
<1>3. agora - now <= Volta
  BY <1>1, Numeros, Constantes DEF DInv, SecoesInv
<1> QED
  BY <1>2, <1>3

\* What ParadasInv says of one circuit.
Parada(c) ==
  /\ Acionando /\ ~rele[c] => ~s_ativo[c] \/ now <= STARTUP_INHIBIT
  /\ cpc \in Decisao /\ ~Ligado(c) => Cedo(c)
  /\ cpc \notin Decisao /\ ~Ligado(c) => ~s_ativo[c] \/ now <= STARTUP_INHIBIT

\* Neither time nor the history of the water turns an early state into a late one.
LEMMA CedoFica ==
  ASSUME DInv, CorridaInv, [HNext]_hvars, NEW c \in Circuitos, now' = now, Cedo(c)
  PROVE  Cedo(c)'
<1>1. /\ h_corrida[c] \in Nat /\ h_corrida'[c] \in Nat /\ agora' \in Nat
      /\ h_corrida'[c] <= h_corrida[c] + (agora' - agora)
  <2>1. h_corrida \in [Circuitos -> Nat] /\ h_molhado \in [Circuitos -> BOOLEAN]
    BY DEF CorridaInv
  <2>2. /\ h_corrida' \in [Circuitos -> Nat]
        /\ agora' # agora => h_corrida'[c] <= h_corrida[c] + 1
        /\ agora' = agora => h_corrida'[c] = h_corrida[c]
    BY <2>1, CorridaAnda
  <2> QED
    BY <2>1, <2>2, Passagem, Numeros
<1> QED
  BY <1>1, Numeros, Constantes DEF Cedo

LEMMA ParadaFica ==
  ASSUME DInv, CorridaInv, ParadasInv, [HNext]_hvars, NEW c \in Circuitos,
         UNCHANGED <<nivel, now, rele>>, cpc \in Decisao <=> cpc' \in Decisao,
         Acionando' => Acionando,
         cpc' \notin Decisao \/ Acionando' => s_ativo' = s_ativo
  PROVE  Parada(c)'
<1>1. Parada(c)
  BY DEF ParadasInv, Parada
<1>2. rele'[c] = rele[c] /\ now' = now /\ (Ligado(c)' <=> Ligado(c))
  BY DEF Ligado
<1>3. Cedo(c) => Cedo(c)'
  BY CedoFica
<1>4. cpc' \notin Decisao \/ Acionando' => s_ativo'[c] = s_ativo[c]
  OBVIOUS
<1> QED
  BY <1>1, <1>2, <1>3, <1>4, Zenon DEF Parada

LEMMA ParadaLeNow ==
  ASSUME MaxTempo < MS_MOD, DInv, CorridaInv, ParadasInv, [HNext]_hvars, LeNow, NEW c \in Circuitos
  PROVE  Parada(c)'
<1>1. /\ cpc = "le_now" /\ cpc' = "botao" /\ nivel' = nivel /\ agora' = agora /\ now' = agora
  BY SemVolta DEF LeNow, Segue, relesVars
<1>2. cpc \notin Decisao /\ cpc' \in Decisao /\ ~Acionando' /\ (Ligado(c)' <=> Ligado(c))
  BY <1>1 DEF Acionando, Decisao, Ligado
<1>3. h_corrida[c] \in Nat /\ h_corrida'[c] = h_corrida[c]
  BY <1>1, CorridaAnda DEF CorridaInv
<1>4. ASSUME ~Ligado(c) PROVE Cedo(c)'
  <2>1. CASE Novo
    BY <1>1, <1>3, <2>1, Numeros, Constantes, Prazos DEF Novo, Cedo
  <2>2. CASE ~Novo
    <3>1. now - MedidoEmBar < JANELA /\ agora - now <= Volta
      BY <1>2, <2>2, ForaDaDecisao
    <3>2. ~s_ativo[c] \/ now <= STARTUP_INHIBIT
      BY <1>2, <1>4 DEF ParadasInv
    <3>3. \/ now + Volta <= Arranque - EXEC_MAX
          \/ h_corrida[c] <= agora - now - Volta + 2 * JanelaMax - 2 - EXEC_MAX
      BY <3>1, <3>2, SecaCedo
    <3> QED
      BY <1>1, <1>3, <3>1, <3>3, Numeros, Constantes, Prazos DEF Cedo
  <2> QED
    BY <2>1, <2>2
<1> QED
  BY <1>2, <1>4, Zenon DEF Parada

LEMMA ParadaDecide ==
  ASSUME DInv, CorridaInv, ParadasInv, [HNext]_hvars, Decide, NEW c \in Circuitos
  PROVE  Parada(c)'
<1>1. /\ nivel' = nivel /\ now' = now /\ s_ativo' = s_ativo
      /\ cpc \in Decisao /\ cpc' \in Decisao
  BY MedidorParado DEF Decide, Segue, relesVars, Decisao
<1>2. FluxoTypeOK /\ s_modo \in ModoOperacao /\ s_ativo[c] \in BOOLEAN
  BY DEF DInv, Inv, TypeOK, ModosTypeOK, FluxoTypeOK
<1>3. ASSUME ~rele'[c], ~(now <= STARTUP_INHIBIT) PROVE ~s_ativo[c]
  <2>1. ~Acionamento(s_modo)[c]
    BY <1>3 DEF Decide, Inibido
  <2>2. ~Demanda(c)
    BY <1>2, <2>1, AcionamentoDemanda
  <2> QED
    BY <2>2 DEF Demanda
<1>4. Ligado(c)' <=> Ligado(c)
  BY <1>1 DEF Ligado
<1>5. Cedo(c) => Cedo(c)'
  BY <1>1, CedoFica
<1>6. cpc \in Decisao /\ ~Ligado(c) => Cedo(c)
  BY DEF ParadasInv
<1>7. s_ativo'[c] = s_ativo[c]
  BY <1>1
<1> QED
  BY <1>1, <1>3, <1>4, <1>5, <1>6, <1>7, Zenon DEF Parada

\* A pump that a decision turns off, or leaves off at its end, is off for the
\* reason of that decision.
LEMMA ParadaAciona ==
  ASSUME DInv, CorridaInv, ParadasInv, [HNext]_hvars, AcionaFrio \/ AcionaQuente, NEW c \in Circuitos
  PROVE  Parada(c)'
<1>1. /\ agora' = agora /\ now' = now /\ rele' = rele /\ s_ativo' = s_ativo
      /\ Acionando /\ cpc \in Decisao /\ [Next]_vars /\ Inv
  BY MedidorParado DEF AcionaFrio, AcionaQuente, Segue, Acionando, Decisao, HNext, hvars, DInv
<1>2. ~rele[c] => ~s_ativo[c] \/ now <= STARTUP_INHIBIT
  BY <1>1 DEF ParadasInv
<1>3. rele'[c] = rele[c] /\ s_ativo'[c] = s_ativo[c]
  BY <1>1
<1>4. CASE AcionaFrio
  <2>1. cpc' \in Decisao
    BY <1>4 DEF AcionaFrio, Segue, Decisao
  <2>2. ASSUME ~Ligado(c)' PROVE Cedo(c)'
    <3>1. CASE ~Ligado(c)
      <4>1. Cedo(c)
        BY <1>1, <3>1 DEF ParadasInv
      <4> QED
        BY <1>1, <4>1, CedoFica
    <3>2. CASE Ligado(c)
      <4>1. ~rele[c]
        BY <1>1, <2>2, <3>2, PinoSoNaAcao
      <4>2. now - MedidoEmBar < JANELA
        BY <1>1 DEF DInv, JanelaInv, Acionando
      <4>3. \/ now + Volta <= Arranque - EXEC_MAX
            \/ h_corrida[c] <= agora - now - Volta + 2 * JanelaMax - 2 - EXEC_MAX
        BY <1>2, <4>1, <4>2, SecaCedo
      <4>4. h_corrida[c] \in Nat
        BY DEF CorridaInv
      <4>5. Cedo(c)
        BY <4>3, <4>4, Numeros, Constantes, Prazos DEF Cedo
      <4> QED
        BY <1>1, <4>5, CedoFica
    <3> QED
      BY <3>1, <3>2
  <2> QED
    BY <1>1, <1>2, <1>3, <2>1, <2>2, Zenon DEF Parada
<1>5. CASE AcionaQuente
  <2>1. ~Acionando' /\ cpc' \notin Decisao
    BY <1>5 DEF AcionaQuente, Segue, Acionando, Decisao
  <2>2. Ligado(c)' <=> rele[c]
    BY <1>1, <1>5, DecisaoCompleta
  <2> QED
    BY <1>1, <1>2, <1>3, <2>1, <2>2, Zenon DEF Parada
<1> QED
  BY <1>4, <1>5

LEMMA ParadasPasso ==
  ASSUME MaxTempo < MS_MOD, DInv, CorridaInv, ParadasInv, [HNext]_hvars
  PROVE  ParadasInv'
<1> SUFFICES ASSUME NEW c \in Circuitos PROVE Parada(c)'
  BY DEF ParadasInv, Parada
<1>1. CASE \/ BootTermina \/ AtualizaBotao \/ Mostra \/ OledTermina
           \/ Telemetria \/ PublicaTermina \/ EsperaTermina
  <2>1. UNCHANGED <<nivel, now, rele>> /\ s_ativo' = s_ativo
    BY <1>1, MedidorParado DEF BootTermina, AtualizaBotao, Mostra, OledTermina,
      Telemetria, PublicaTermina, EsperaTermina, relesVars
  <2>2. ~Acionando' /\ (cpc \in Decisao <=> cpc' \in Decisao)
    BY <1>1 DEF BootTermina, AtualizaBotao, Mostra, OledTermina,
      Telemetria, PublicaTermina, EsperaTermina, Segue, Acionando, Decisao
  <2> QED
    BY <2>1, <2>2, ParadaFica
<1>2. CASE AtualizaFluxo
  <2>1. UNCHANGED <<nivel, now, rele>> /\ cpc \in Decisao /\ cpc' \in Decisao /\ ~Acionando'
    BY <1>2 DEF AtualizaFluxo, relesVars, Decisao, Acionando
  <2> QED
    BY <2>1, ParadaFica
<1>3. CASE Tick \/ (\E d \in Circuitos : Pulso(d)) \/ Comando \/ Botao \/ UNCHANGED hvars
  <2>1. UNCHANGED <<nivel, now, rele, cpc>> /\ s_ativo' = s_ativo
    BY <1>3, MedidorParado DEF Tick, Pulso, isr_fluxo, Comando, Botao, hvars, vars, relesVars, tarefaVars
  <2>2. Acionando' = Acionando
    BY <2>1 DEF Acionando
  <2> QED
    BY <2>1, <2>2, ParadaFica
<1> QED
  BY <1>1, <1>2, <1>3, ParadaLeNow, ParadaDecide, ParadaAciona DEF HNext, Next, Tarefa

LEMMA LInicio == HInit => LInv
<1> SUFFICES ASSUME HInit PROVE LInv
  OBVIOUS
<1>1. DInv
  BY DInicio
<1>2. /\ agora = 0 /\ now = 0 /\ cpc = "boot" /\ upc = "fora" /\ s_last_update_us = 0
      /\ MedidoEmBar = 0 /\ s_pulsos = Zero /\ s_last_pulsos = Zero
      /\ h_corrida = [c \in Circuitos |-> 0] /\ h_molhado = [c \in Circuitos |-> FALSE]
  BY DEF HInit, Init, FluxoInit, MedidoEmBar
<1>3. CorridaInv
  <2>1. \A c \in Circuitos : Pendentes(c) = 0
    BY <1>2, FluxoAssumption, SubModZero DEF Pendentes, Zero, UintMod
  <2>2. \A c \in Circuitos : Pendentes(c) >= Menor(h_corrida[c], Inteiros)
    BY <1>2, <2>1, Constantes DEF Menor, Inteiros
  <2>3. h_corrida \in [Circuitos -> Nat] /\ h_molhado \in [Circuitos -> BOOLEAN]
    BY <1>2
  <2>4. \A c \in Circuitos : ~h_molhado[c] /\ ~Carregado(c)
    BY <1>2 DEF Carregado
  <2>5. MedidoEmBar <= PrimeiraJanela
    BY <1>2, Constantes
  <2> QED
    BY <2>2, <2>3, <2>4, <2>5, Zenon DEF CorridaInv
<1>4. ParadasInv
  <2>1. now <= STARTUP_INHIBIT
    BY <1>2, Prazos
  <2>2. ~Acionando /\ cpc \notin Decisao
    BY <1>2 DEF Acionando, Decisao
  <2> QED
    BY <2>1, <2>2, Zenon DEF ParadasInv
<1> QED
  BY <1>1, <1>3, <1>4 DEF LInv

(***************************************************************************)
(* The theorems.                                                           *)
(***************************************************************************)
\* Within one turn of the clock, a pump is off when no circuit has had a pulse
\* for PRAZO_DESLIGA ticks, whatever the windows, the stalls and the modes: the
\* bound is exactly the sum of what the loop may add, unless neither the loop nor
\* the off-delay takes any time (fluxo.cpp, fluxo_update;
\* main.cpp:29-32 and 155-183).
THEOREM RespostaDesliga ==
  ASSUME MaxTempo < MS_MOD, DELAY_OFF + Volta > 0
  PROVE  HSpec => []DesligaNoPrazo
<1>1. DInv /\ [HNext]_hvars => DInv'
  BY DPasso
<1>2. DInv => DesligaNoPrazo
  <2> SUFFICES ASSUME DInv, NEW c \in Circuitos, Ligado(c)
               PROVE  \E d \in Circuitos : ~(h_silencio[d] > PRAZO_DESLIGA)
    BY DEF DesligaNoPrazo
  <2>1. HouvePulso(Folga)
    BY DEF DInv, BombasInv, Folga
  <2>2. Folga <= PRAZO_DESLIGA /\ Folga \in Int /\ PRAZO_DESLIGA \in Int
    <3>1. cpc \in Decisao => agora - now <= EXEC_MAX
      BY Numeros, Constantes DEF DInv, SecoesInv
    <3>2. ~(cpc \in Decisao) => agora - now <= Volta
      <4>1. ~Novo
        BY DEF Novo
      <4>2. cpc \in {"boot", "le_now", "mostra", "oled", "telemetria", "publica", "espera"} \cup Decisao
        BY DEF DInv, Inv, TypeOK
      <4> QED
        BY <4>1, <4>2, Numeros, Constantes DEF DInv, SecoesInv
    <3> QED
      BY <3>1, <3>2, Numeros, Constantes DEF Folga, PRAZO_DESLIGA
  <2>3. PICK d \in Circuitos : h_silencio[d] <= Folga
    BY <2>1 DEF HouvePulso
  <2>4. h_silencio[d] \in Nat
    BY DEF DInv, SilencioInv
  <2> QED
    BY <2>2, <2>3, <2>4
<1> QED
  BY DInicio, <1>1, <1>2, PTL DEF HSpec

\* Within one turn of the clock, water that has run for PRAZO_LIGA ticks powers
\* the pump of its circuit once the start is over, in every mode, whatever the
\* stalls of the loop, if a window that is wet but for its first tick and the
\* longest delay of the loads is over the threshold of the flow (fluxo.cpp,
\* fluxo_update; main.cpp:155-183).
THEOREM RespostaLiga ==
  ASSUME MaxTempo < MS_MOD, DELAY_OFF + Volta > 0,
         100 * (JANELA - 1 - EXEC_MAX) * TICKS_POR_S > 66 * JANELA
  PROVE  HSpec => []LigaNoPrazo
<1>1. LInv /\ [HNext]_hvars => LInv'
  BY DPasso, CorridaPasso, ParadasPasso DEF LInv
<1>2. LInv => LigaNoPrazo
  <2> SUFFICES ASSUME LInv, NEW c \in Circuitos, agora > Arranque, ~Ligado(c)
               PROVE  h_corrida[c] # PRAZO_LIGA
    BY DEF LigaNoPrazo
  <2>1. /\ DInv /\ CorridaInv /\ h_corrida[c] \in Nat
        /\ cpc \in Decisao => Cedo(c)
        /\ cpc \notin Decisao => ~s_ativo[c] \/ now <= STARTUP_INHIBIT
    BY DEF LInv, CorridaInv, ParadasInv
  <2>2. CASE cpc \in Decisao
    <3>1. agora - now <= EXEC_MAX
      BY <2>1, <2>2, Numeros, Constantes DEF DInv, SecoesInv
    <3> QED
      BY <2>1, <2>2, <3>1, Numeros, Constantes, Prazos DEF Cedo, PRAZO_LIGA
  <2>3. CASE cpc \notin Decisao
    <3>1. ~Novo
      BY <2>1, Numeros, Constantes, Prazos DEF Novo
    <3>2. now - MedidoEmBar < JANELA /\ agora - now <= Volta
      BY <2>1, <2>3, <3>1, ForaDaDecisao
    <3>3. \/ now + Volta <= Arranque - EXEC_MAX
          \/ h_corrida[c] <= agora - now - Volta + 2 * JanelaMax - 2 - EXEC_MAX
      BY <2>1, <2>3, <3>2, SecaCedo
    <3> QED
      BY <2>1, <3>2, <3>3, Numeros, Constantes, Prazos DEF PRAZO_LIGA
  <2> QED
    BY <2>2, <2>3
<1> QED
  BY LInicio, <1>1, <1>2, PTL DEF HSpec
=============================================================================
