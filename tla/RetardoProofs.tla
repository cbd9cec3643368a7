---------------------------- MODULE RetardoProofs ---------------------------
(***************************************************************************)
(* Theorems about the off-delay, for every delay, period and stall, every  *)
(* use of the button and of the broker, and every horizon shorter than one *)
(* turn of the millisecond clock (49.7 days from the start).               *)
(***************************************************************************)
EXTENDS ControleRetardo, ControleProofs

(***************************************************************************)
(* The invariant.  Without a wrap the stop stamp is the history h_parou,   *)
(* and it is never 0; the clock of a decision is gasto ticks old; what the *)
(* decision saw of a demand is granted; a circuit that was just denied has *)
(* no falling edge left for the next decision to miss; and no pump that    *)
(* runs was started inside the inhibition, nor can be cut by it.           *)
(***************************************************************************)
\* A stop the decision can see, on the clock it has read.
RetardoVisto(c) ==
  h_parou[c] # NUNCA /\ h_parou[c] <= now /\ now - h_parou[c] < DELAY_OFF

RelogioInv ==
  /\ agora <= MaxTempo
  /\ cpc \in Decisao => agora = now + gasto /\ gasto <= EXEC_MAX

ParouInv ==
  /\ h_parou \in [Circuitos -> Nat \cup {NUNCA}]
  /\ \A c \in Circuitos :
       /\ h_parou[c] # NUNCA => 0 < h_parou[c] /\ h_parou[c] <= agora
       /\ s_last_stop_ms[c] = IF h_parou[c] = NUNCA THEN 0 ELSE h_parou[c]

DecisaoInv ==
  Acionando => \A c \in Circuitos :
    /\ ~Inibido /\ (s_ativo[c] \/ RetardoVisto(c)) => rele[c]
    /\ rele[c] => ~Inibido /\ \E d \in Circuitos :
         s_ativo[d] \/ (h_parou[d] # NUNCA /\ now - h_parou[d] < DELAY_OFF)

FalhasInv ==
  /\ h_falhas \in [Circuitos -> {0, 1}]
  /\ \A c \in Circuitos : h_falhas[c] = 1 =>
       /\ cpc \in Decisao => h_parou[c] <= now
       /\ cpc \in {"decide", "rele_frio", "rele_quente"} \/ ~s_ativo[c]

\* The inhibition is over for a pump that runs: the clock of the task only grows.
LigadoInv == \A c \in Circuitos : Ligado(c) => ~Inibido

RInv == Inv /\ FluxoInv /\ RelogioInv /\ ParouInv /\ DecisaoInv /\ FalhasInv /\ LigadoInv

LEMMA HInitInv == HInit => RInv
<1> SUFFICES ASSUME HInit PROVE RInv
  OBVIOUS
<1>1. Inv /\ FluxoInv
  BY InitInv, FluxoInitInv DEF HInit, Init
<1> QED
  BY <1>1, PlacaAssumption
  DEF RInv, RelogioInv, ParouInv, DecisaoInv, FalhasInv, HInit, Init, FluxoInit,
      Acionando, Decisao, NUNCA, Zero, LigadoInv, Inv, PinosFieis, reles_init

LEMMA RelogioPasso ==
  ASSUME MaxTempo < MS_MOD, RInv, [HNext]_hvars
  PROVE  RelogioInv'
<1>0. /\ agora \in Nat /\ gasto \in Nat /\ now \in Nat
      /\ MaxTempo \in Nat /\ MS_MOD \in Nat /\ EXEC_MAX \in Nat
      /\ agora <= MaxTempo
  BY PlacaAssumption, ControleAssumption
  DEF RInv, Inv, TypeOK, FluxoTypeOK, UintMod, RelogioInv
<1>1. millis32 = agora
  BY <1>0 DEF millis32
<1>2. CASE LeNow
  BY <1>0, <1>1, <1>2 DEF LeNow, Segue, RelogioInv
<1>3. CASE Tick
  BY <1>0, <1>3 DEF Tick, RelogioInv, RInv, Limite, Decisao
<1>4. CASE Tarefa /\ ~LeNow
  <2>1. agora' = agora
    BY <1>4
    DEF Tarefa, BootTermina, LeNow, AtualizaBotao, AtualizaFluxo, Decide, AcionaFrio,
        AcionaQuente, Mostra, OledTermina, Telemetria, PublicaTermina, EsperaTermina,
        fluxo_update, FluxoJanela, FluxoCarrega, FluxoCalcula
  <2>2. cpc' \in Decisao => cpc \in Decisao /\ UNCHANGED <<now, gasto>>
    BY <1>4
    DEF Tarefa, BootTermina, LeNow, AtualizaBotao, AtualizaFluxo, Decide, AcionaFrio,
        AcionaQuente, Mostra, OledTermina, Telemetria, PublicaTermina, EsperaTermina,
        Segue, Decisao
  <2> QED
    BY <1>0, <2>1, <2>2 DEF RelogioInv, RInv
<1>5. CASE (\E c \in Circuitos : Pulso(c)) \/ Comando \/ Botao \/ UNCHANGED hvars
  BY <1>5 DEF RInv, RelogioInv, Pulso, isr_fluxo, Comando, Botao, hvars, vars, tarefaVars
<1> QED
  BY <1>2, <1>3, <1>4, <1>5 DEF HNext, Next

LEMMA ParouPasso ==
  ASSUME MaxTempo < MS_MOD, RInv, FluxoInv', [HNext]_hvars
  PROVE  ParouInv'
<1>0. /\ agora \in Nat /\ agora' \in Nat /\ agora <= MaxTempo /\ agora <= agora'
      /\ MaxTempo \in Nat /\ MS_MOD \in Nat
  <2>1. agora \in Nat /\ agora' \in Nat
    BY DEF RInv, FluxoInv, FluxoTypeOK
  <2>2. [FluxoNext]_<<agora, fluxoVars>>
    BY PassoDoMedidor DEF HNext, hvars
  <2>3. agora <= agora'
    BY <2>1, <2>2 DEF FluxoNext, FluxoTick, isr_fluxo, fluxo_update, FluxoJanela,
                      FluxoCarrega, FluxoCalcula
  <2> QED
    BY <2>1, <2>3, PlacaAssumption DEF RInv, RelogioInv
<1>1. CASE s_ativo' = s_ativo /\ s_last_stop_ms' = s_last_stop_ms
  BY <1>0, <1>1 DEF HNext, hvars, RInv, ParouInv, NUNCA
<1>2. CASE FluxoCalcula
  <2>1. millis32 = agora /\ agora' = agora
    BY <1>0, <1>2 DEF millis32, FluxoCalcula
  <2>2. 0 < agora
    BY <1>0, <1>2, FluxoAssumption DEF RInv, FluxoInv, FluxoTypeOK, FluxoCalcula
  <2>3. h_parou' = [c \in Circuitos |-> IF Parou(c) THEN agora ELSE h_parou[c]]
    <3>1. CASE HNext
      BY <3>1 DEF HNext, Parou
    <3>2. CASE UNCHANGED hvars
      BY <3>2 DEF hvars, vars, fluxoVars, Parou, RInv, ParouInv
    <3> QED
      BY <3>1, <3>2
  <2>4. s_last_stop_ms' = [c \in Circuitos |->
                             IF Parou(c) THEN agora ELSE s_last_stop_ms[c]]
    BY <1>2, <2>1 DEF FluxoCalcula
  <2> QED
    BY <1>0, <2>1, <2>2, <2>3, <2>4 DEF RInv, ParouInv, NUNCA
<1> QED
  <2>1. [FluxoNext]_<<agora, fluxoVars>>
    BY PassoDoMedidor DEF HNext, hvars
  <2>2. FluxoCalcula \/ (s_ativo' = s_ativo /\ s_last_stop_ms' = s_last_stop_ms)
    BY <2>1 DEF FluxoNext, FluxoTick, isr_fluxo, fluxo_update, FluxoJanela,
                FluxoCarrega, fluxoVars
  <2> QED
    BY <1>1, <1>2, <2>2

\* What hold_off_active says of a stop, in terms of the history.  A stamp ahead
\* of the clock looks nearly one turn old.
LEMMA HoldOff ==
  ASSUME MaxTempo < MS_MOD, RInv, NEW c \in Circuitos
  PROVE  /\ RetardoVisto(c) => hold_off_active(UltimaParada(c), now)
         /\ hold_off_active(UltimaParada(c), now) =>
              h_parou[c] # NUNCA /\ (h_parou[c] <= now => now - h_parou[c] < DELAY_OFF)
<1>1. /\ s_last_stop_ms[c] = IF h_parou[c] = NUNCA THEN 0 ELSE h_parou[c]
      /\ h_parou[c] # NUNCA => h_parou[c] \in Nat /\ 0 < h_parou[c]
      /\ now \in Nat /\ DELAY_OFF \in Nat /\ MS_MOD \in Nat
  BY PlacaAssumption, ControleAssumption DEF RInv, ParouInv, Inv, TypeOK, UintMod
<1> QED
  BY <1>1 DEF RetardoVisto, hold_off_active, UltimaParada, Idade, SubMod

\* Only Decide enters the section that drives the relays, and nothing in that
\* section changes what the decision was made from.
LEMMA SecaoDeAcionamento ==
  ASSUME RInv, [HNext]_hvars, Acionando'
  PROVE  \/ Decide
         \/ Acionando /\ UNCHANGED <<now, rele, s_ativo, h_parou>>
<1>0. h_parou' = [c \in Circuitos |-> IF Parou(c) THEN agora ELSE h_parou[c]]
         \/ h_parou' = h_parou
  BY DEF HNext, hvars, Parou
<1>1. s_ativo' = s_ativo => h_parou' = h_parou
  BY <1>0 DEF HNext, hvars, RInv, ParouInv, Parou
<1>2. CASE Tarefa /\ ~Decide
  BY <1>1, <1>2
  DEF Tarefa, BootTermina, LeNow, AtualizaBotao, AtualizaFluxo, AcionaFrio,
      AcionaQuente, Mostra, OledTermina, Telemetria, PublicaTermina, EsperaTermina,
      Segue, Acionando, fluxoVars
<1>3. CASE Tick \/ (\E c \in Circuitos : Pulso(c)) \/ Comando \/ Botao \/ UNCHANGED hvars
  BY <1>1, <1>3 DEF Tick, Pulso, isr_fluxo, Comando, Botao, hvars, vars, tarefaVars,
                    fluxoVars, Acionando
<1> QED
  BY <1>2, <1>3 DEF HNext, Next

LEMMA DecisaoPasso ==
  ASSUME MaxTempo < MS_MOD, RInv, [HNext]_hvars
  PROVE  DecisaoInv'
<1> SUFFICES ASSUME Acionando'
             PROVE  \A c \in Circuitos :
               /\ (~Inibido /\ (s_ativo[c] \/ RetardoVisto(c)) => rele[c])'
               /\ (rele[c] => ~Inibido /\ \E d \in Circuitos :
                     s_ativo[d] \/ (h_parou[d] # NUNCA /\ now - h_parou[d] < DELAY_OFF))'
  BY DEF DecisaoInv
<1>1. CASE Acionando /\ UNCHANGED <<now, rele, s_ativo, h_parou>>
  BY <1>1 DEF RInv, DecisaoInv, Inibido, RetardoVisto
<1>2. CASE Decide
  <2>1. UNCHANGED <<now, s_ativo, h_parou>>
    <3>1. UNCHANGED <<now, s_ativo>>
      BY <1>2 DEF Decide, fluxoVars
    <3>2. h_parou' = h_parou
      BY <3>1 DEF HNext, hvars, RInv, ParouInv
    <3> QED
      BY <3>1, <3>2
  <2>2. FluxoTypeOK /\ s_modo \in ModoOperacao
    BY DEF RInv, Inv, TypeOK, ModosTypeOK
  <2>3. \A c \in Circuitos : h_parou[c] # NUNCA /\ ~(h_parou[c] <= now)
                               => now - h_parou[c] < DELAY_OFF
    BY ControleAssumption, PlacaAssumption
    DEF RInv, ParouInv, Inv, TypeOK, UintMod
  <2>4. CASE Inibido
    BY <1>2, <2>1, <2>4 DEF Decide, Inibido
  <2>5. CASE ~Inibido
    <3> TAKE c \in Circuitos
    <3>1. rele' = Acionamento(s_modo)
      BY <1>2, <2>5 DEF Decide
    <3>2. s_ativo[c] \/ RetardoVisto(c) => rele'[c]
      BY <2>2, <3>1, HoldOff, AcionamentoDemanda DEF Demanda
    <3>3. rele'[c] => \E d \in Circuitos :
            s_ativo[d] \/ (h_parou[d] # NUNCA /\ now - h_parou[d] < DELAY_OFF)
      BY <2>2, <2>3, <3>1, HoldOff, AcionamentoDemanda DEF Demanda
    <3> QED
      BY <2>1, <2>5, <3>2, <3>3 DEF Inibido, RetardoVisto
  <2> QED
    BY <2>4, <2>5
<1> QED
  BY <1>1, <1>2, SecaoDeAcionamento

LEMMA FalhasPasso ==
  ASSUME MaxTempo < MS_MOD, RInv, [HNext]_hvars
  PROVE  FalhasInv'
<1>0. /\ agora \in Nat /\ now \in Nat /\ now <= agora /\ DELAY_OFF \in Nat
      /\ \A c \in Circuitos : h_parou[c] \in Nat \/ h_parou[c] = -1
      /\ \A c \in Circuitos : h_parou[c] <= agora
  BY ControleAssumption, PlacaAssumption
  DEF RInv, Inv, TypeOK, FluxoTypeOK, UintMod, ParouInv, NUNCA
<1>1. CASE AcionaQuente /\ HNext
  <2>1. /\ cpc = "rele_quente" /\ cpc' = "mostra"
        /\ UNCHANGED <<agora, now, s_ativo>>
    BY <1>1 DEF AcionaQuente, Segue, fluxoVars
  <2>2. h_falhas' = [c \in Circuitos |-> IF ~Falha(c) THEN 0
                       ELSE IF h_falhas[c] = 2 THEN 2 ELSE h_falhas[c] + 1]
    BY <1>1, <2>1 DEF HNext
  <2>3. ASSUME NEW c \in Circuitos, Falha(c)
        PROVE  h_falhas[c] = 0 /\ ~s_ativo[c]
    <3>1. ~rele[c]
      BY <1>1, <2>3, DecisaoCompleta DEF Falha, RInv
    <3>2. ~s_ativo[c] /\ ~RetardoVisto(c)
      BY <2>1, <2>3, <3>1 DEF Falha, RInv, DecisaoInv, Acionando
    <3>3. h_parou[c] # NUNCA /\ agora - h_parou[c] < DELAY_OFF
      BY <2>3, <3>2 DEF Falha, DemandaReal, ParouHaMenosDe
    <3>4. ~(h_parou[c] <= now)
      BY <1>0, <3>2, <3>3 DEF RetardoVisto
    <3> QED
      BY <2>1, <3>2, <3>4 DEF RInv, FalhasInv, Decisao
  <2> QED
    BY <2>1, <2>2, <2>3 DEF FalhasInv, Decisao
<1>2. CASE ~AcionaQuente \/ UNCHANGED hvars
  <2>1. h_falhas' = h_falhas
    <3>1. ASSUME cpc = "rele_quente", cpc' = "mostra", Next PROVE AcionaQuente
      BY <3>1
      DEF Next, Tarefa, BootTermina, LeNow, AtualizaBotao, AtualizaFluxo, Decide,
          AcionaFrio, Mostra, OledTermina, Telemetria, PublicaTermina,
          EsperaTermina, Segue, Tick, Pulso, Comando, Botao, tarefaVars
    <3> QED
      BY <1>2, <3>1 DEF HNext, hvars
  <2> SUFFICES ASSUME NEW c \in Circuitos, h_falhas[c] = 1
               PROVE  /\ cpc' \in Decisao => h_parou'[c] <= now'
                      /\ cpc' \in {"decide", "rele_frio", "rele_quente"} \/ ~s_ativo'[c]
    BY <2>1 DEF RInv, FalhasInv
  <2>2. /\ cpc \in Decisao => h_parou[c] <= now
        /\ cpc \in {"decide", "rele_frio", "rele_quente"} \/ ~s_ativo[c]
    BY DEF RInv, FalhasInv
  <2>3. ~s_ativo[c] \/ s_ativo'[c] = s_ativo[c] => h_parou'[c] = h_parou[c]
    BY DEF HNext, hvars, RInv, ParouInv
  <2>4. CASE s_ativo' = s_ativo
    <3>1. h_parou'[c] = h_parou[c]
      BY <2>3, <2>4
    <3>2. CASE LeNow
      <4>1. now' = agora
        BY <1>0, <3>2, PlacaAssumption DEF LeNow, millis32, RInv, RelogioInv
      <4> QED
        BY <1>0, <2>2, <2>4, <3>1, <3>2, <4>1 DEF LeNow, Segue
    <3>3. CASE ~LeNow
      <4>1. now' = now
        BY <3>3 DEF HNext, hvars, vars, Next, Tarefa, BootTermina, AtualizaBotao,
          AtualizaFluxo, Decide, AcionaFrio, AcionaQuente, Mostra, OledTermina,
          Telemetria, PublicaTermina, EsperaTermina, Tick, Pulso, Comando, Botao,
          tarefaVars
      <4>2. /\ cpc' \in Decisao => cpc \in Decisao
            /\ cpc \in {"decide", "rele_frio", "rele_quente"} =>
                 cpc' \in {"decide", "rele_frio", "rele_quente"}
        BY <1>2, <3>3 DEF HNext, hvars, vars, Next, Tarefa, BootTermina, AtualizaBotao,
          AtualizaFluxo, Decide, AcionaFrio, Mostra, OledTermina,
          Telemetria, PublicaTermina, EsperaTermina, Tick, Pulso, Comando, Botao,
          tarefaVars, Segue, Decisao
      <4> QED
        BY <2>2, <2>4, <3>1, <4>1, <4>2
    <3> QED
      BY <3>2, <3>3
  <2>5. CASE s_ativo' # s_ativo
    <3>1. AtualizaFluxo /\ FluxoCalcula
      BY <2>5 DEF HNext, hvars, vars, Next, Tarefa, BootTermina, LeNow, AtualizaBotao,
          AtualizaFluxo, Decide, AcionaFrio, AcionaQuente, Mostra, OledTermina,
          Telemetria, PublicaTermina, EsperaTermina, Tick, Pulso, isr_fluxo, Comando,
          Botao, fluxoVars, fluxo_update, FluxoJanela, FluxoCarrega
    <3>2. cpc = "fluxo" /\ cpc' = "decide" /\ now' = now
      BY <3>1 DEF AtualizaFluxo, FluxoCalcula
    <3>3. ~s_ativo[c] /\ h_parou[c] <= now
      BY <2>2, <3>2 DEF Decisao
    <3> QED
      BY <2>3, <3>2, <3>3
  <2> QED
    BY <2>4, <2>5
<1> QED
  BY <1>1, <1>2 DEF HNext

LEMMA LigadoPasso ==
  ASSUME MaxTempo < MS_MOD, RInv, [HNext]_hvars
  PROVE  LigadoInv'
<1> SUFFICES ASSUME NEW c \in Circuitos, Ligado(c)'
             PROVE  ~Inibido'
  BY DEF LigadoInv
<1>0. /\ now \in Nat /\ agora \in Nat /\ MaxTempo \in Nat /\ MS_MOD \in Nat
      /\ now <= agora /\ agora <= MaxTempo /\ STARTUP_INHIBIT \in Nat
  BY ControleAssumption, PlacaAssumption
  DEF RInv, RelogioInv, Inv, TypeOK, FluxoTypeOK, UintMod
<1>1. ~Inibido
  <2>1. CASE Ligado(c)
    BY <2>1 DEF RInv, LigadoInv
  <2>2. CASE ~Ligado(c)
    <3>1. Acionando /\ rele[c]
      BY <2>2, PinoSoNaAcao DEF RInv, HNext, hvars
    <3> QED
      BY <3>1 DEF RInv, DecisaoInv
  <2> QED
    BY <2>1, <2>2
<1>2. now' = now \/ now' = agora
  <2>1. CASE LeNow
    BY <1>0, <2>1 DEF LeNow, millis32
  <2>2. CASE ~LeNow
    BY <2>2 DEF HNext, hvars, vars, Next, Tarefa, BootTermina, AtualizaBotao,
      AtualizaFluxo, Decide, AcionaFrio, AcionaQuente, Mostra, OledTermina,
      Telemetria, PublicaTermina, EsperaTermina, Tick, Pulso, Comando, Botao,
      tarefaVars
  <2> QED
    BY <2>1, <2>2
<1> QED
  BY <1>0, <1>1, <1>2 DEF Inibido

LEMMA HNextInv ==
  ASSUME MaxTempo < MS_MOD, RInv, [HNext]_hvars
  PROVE  RInv'
<1>1. Inv'
  BY NextInv DEF RInv, HNext, hvars
<1>2. FluxoInv'
  BY PassoDoMedidor, FluxoNextInv DEF RInv, HNext, hvars
<1>3. ParouInv'
  BY <1>2, ParouPasso
<1> QED
  BY <1>1, <1>2, <1>3, RelogioPasso, DecisaoPasso, FalhasPasso, LigadoPasso DEF RInv

LEMMA HSpecInv ==
  ASSUME MaxTempo < MS_MOD
  PROVE  HSpec => []RInv
<1>1. RInv /\ [HNext]_hvars => RInv'
  BY HNextInv
<1> QED
  BY HInitInv, <1>1, PTL DEF HSpec

(***************************************************************************)
(* The theorems.                                                           *)
(***************************************************************************)
\* Within one turn of the clock, a decision that denies a circuit its demand is
\* corrected by the next one, however late each is and whatever the modes do
\* (main.cpp:139 and 158, fluxo.cpp:97).
THEOREM UmaFalhaSo ==
  ASSUME MaxTempo < MS_MOD
  PROVE  HSpec => []FalhaUmaVezSo
<1>1. RInv => FalhaUmaVezSo
  BY DEF RInv, FalhasInv, FalhaUmaVezSo
<1> QED
  BY HSpecInv, <1>1, PTL

\* Within one turn of the clock a pump is switched on only for water that runs
\* or stopped within the off-delay as the decision saw it (main.cpp:29-32).
THEOREM LigaSomenteComDemanda ==
  ASSUME MaxTempo < MS_MOD
  PROVE  HSpec => LigaSoComDemanda
<1> DEFINE Liga == \A c \in Circuitos : ~Ligado(c) /\ Ligado(c)' =>
      \E d \in Circuitos : s_ativo[d] \/ ParouHaMenosDe(d, DELAY_OFF + EXEC_MAX)
<1>1. ASSUME RInv, [HNext]_hvars PROVE Liga
  <2> SUFFICES ASSUME NEW c \in Circuitos, ~Ligado(c), Ligado(c)'
               PROVE  \E d \in Circuitos :
                        s_ativo[d] \/ ParouHaMenosDe(d, DELAY_OFF + EXEC_MAX)
    OBVIOUS
  <2>1. Acionando /\ rele[c]
    BY <1>1, PinoSoNaAcao DEF RInv, HNext, hvars
  <2>2. agora = now + gasto /\ gasto <= EXEC_MAX
    BY <1>1, <2>1 DEF RInv, RelogioInv, Acionando, Decisao
  <2>3. PICK d \in Circuitos :
          s_ativo[d] \/ (h_parou[d] # NUNCA /\ now - h_parou[d] < DELAY_OFF)
    BY <1>1, <2>1 DEF RInv, DecisaoInv
  <2>4. /\ now \in Nat /\ gasto \in Nat /\ DELAY_OFF \in Nat /\ EXEC_MAX \in Nat
        /\ h_parou[d] \in Nat \/ h_parou[d] = -1
    BY <1>1, ControleAssumption, PlacaAssumption
    DEF RInv, Inv, TypeOK, UintMod, ParouInv, NUNCA
  <2> QED
    BY <2>2, <2>3, <2>4 DEF ParouHaMenosDe
<1>2. RInv /\ [HNext]_hvars => [Liga]_hvars
  BY <1>1
<1>3. HSpec => [][Liga]_hvars
  BY HSpecInv, <1>2, PTL DEF HSpec
<1> QED
  BY <1>3 DEF LigaSoComDemanda

\* Within one turn of the clock, and however long a decision is preempted, a
\* pump is never cut while its water runs, and inside its off-delay only by the
\* decision that itself found the flow stopped, after it had read its clock
\* (main.cpp:139 and 155-183, fluxo.cpp:97).  That the exception does happen is
\* the run retardo_relogio.
THEOREM CortaSomenteNaParada ==
  ASSUME MaxTempo < MS_MOD
  PROVE  HSpec => CortaSoNaParada
<1> DEFINE Corta == \A c \in Circuitos : Ligado(c) /\ ~Ligado(c)' =>
      ~s_ativo[c] /\ (ParouHaMenosDe(c, DELAY_OFF) => h_parou[c] > now)
<1>1. ASSUME RInv, [HNext]_hvars PROVE Corta
  <2> SUFFICES ASSUME NEW c \in Circuitos, Ligado(c), ~Ligado(c)'
               PROVE  /\ ~s_ativo[c]
                      /\ ParouHaMenosDe(c, DELAY_OFF) => h_parou[c] > now
    OBVIOUS
  <2>1. Acionando /\ ~rele[c]
    BY <1>1, PinoSoNaAcao DEF RInv, HNext, hvars
  <2>2. ~Inibido
    BY <1>1 DEF RInv, LigadoInv
  <2>3. ~s_ativo[c] /\ ~RetardoVisto(c)
    BY <1>1, <2>1, <2>2 DEF RInv, DecisaoInv
  <2>4. /\ now \in Nat /\ gasto \in Nat /\ DELAY_OFF \in Nat
        /\ h_parou[c] \in Nat \/ h_parou[c] = -1
    BY <1>1, ControleAssumption, PlacaAssumption
    DEF RInv, Inv, TypeOK, UintMod, ParouInv, NUNCA
  <2>5. agora = now + gasto
    BY <1>1, <2>1 DEF RInv, RelogioInv, Acionando, Decisao
  <2> QED
    BY <2>3, <2>4, <2>5 DEF ParouHaMenosDe, RetardoVisto
<1>2. RInv /\ [HNext]_hvars => [Corta]_hvars
  BY <1>1
<1>3. HSpec => [][Corta]_hvars
  BY HSpecInv, <1>2, PTL DEF HSpec
<1> QED
  BY <1>3 DEF CortaSoNaParada
=============================================================================
