----------------------------- MODULE PartesProofs -----------------------------
(***************************************************************************)
(* Theorems about the parts of the firmware that work on data of their     *)
(* own: the time stamps of a payload, for every limit and horizon of the   *)
(* clock; the start of the display and its frames, for every size of the   *)
(* memory and any number of lost commands and of restarts, and its lines,  *)
(* for any ends; and the Wi-Fi station, for any set of addresses.          *)
(***************************************************************************)
EXTENDS TimeKeeper, Oled, Linha, Rede, SequenceTheorems, TLAPS

(***************************************************************************)
(* The time keeper.  A clock that was once beyond the limit stays there,   *)
(* and the flag and the two times are evidence that it was.                *)
(***************************************************************************)
TempoTipos ==
  /\ relogio \in Nat /\ carimbo \in Nat /\ epoch \in Nat
  /\ s_synced \in BOOLEAN /\ recuou \in BOOLEAN
  /\ sntp \in {"espera", "avisa"}
  /\ tpc \in {"fora", "carimbo", "epoch", "epoch2", "pronto"}

\* Each of these is evidence that the clock was set.
Evidencia ==
  /\ s_synced => relogio > LIMITE
  /\ sntp = "avisa" => relogio > LIMITE
  /\ tpc \in {"carimbo", "epoch2"} => relogio > LIMITE
  /\ carimbo # SEM => relogio > LIMITE

\* The clock at the second reading, against the first.
EmOrdem ==
  /\ tpc = "carimbo" => carimbo = SEM
  /\ tpc \in {"epoch", "epoch2"} /\ carimbo # SEM => relogio >= carimbo \/ recuou

TempoInv == TempoTipos /\ Evidencia /\ EmOrdem /\ CarimboCoerente

LEMMA TempoInicio == TempoInit => TempoInv
<1> SUFFICES ASSUME TempoInit PROVE TempoInv
  OBVIOUS
<1>1. TempoTipos
  <2>1. relogio \in Nat
    BY TempoAssumption DEF TempoInit
  <2> QED
    BY <2>1 DEF TempoInit, TempoTipos, SEM
<1>2. s_synced = FALSE /\ sntp = "espera" /\ tpc = "fora" /\ carimbo = SEM
  BY DEF TempoInit
<1>3. EmOrdem
  BY DEF TempoInit, EmOrdem
<1>4. CarimboCoerente
  BY DEF TempoInit, CarimboCoerente
<1> QED
  BY <1>1, <1>2, <1>3, <1>4 DEF TempoInv, Evidencia

LEMMA TempoPasso == TempoInv /\ [TempoNext]_tempoVars => TempoInv'
<1> SUFFICES ASSUME TempoInv, [TempoNext]_tempoVars PROVE TempoInv'
  OBVIOUS
<1> USE TempoAssumption DEF TempoInv, SEM
<1>1. CASE Passa
  <2> USE <1>1 DEF Passa
  <2>1. TempoTipos'
    BY DEF TempoTipos
  <2>2. Evidencia'
    BY DEF TempoTipos, Evidencia
  <2>3. EmOrdem'
    BY DEF TempoTipos, EmOrdem
  <2>4. CarimboCoerente'
    BY DEF TempoTipos, Evidencia, EmOrdem, CarimboCoerente
  <2> QED
    BY <2>1, <2>2, <2>3, <2>4
<1>2. CASE Sincroniza
  <2> USE <1>2 DEF Sincroniza
  <2>1. TempoTipos'
    BY DEF TempoTipos
  <2>2. Evidencia'
    BY DEF TempoTipos, Evidencia
  <2>3. EmOrdem'
    <3>1. UNCHANGED <<tpc, carimbo>> /\ relogio' \in Nat
      BY DEF TempoTipos
    <3>2. CASE relogio' < relogio
      <4>1. recuou'
        BY <3>2
      <4> QED
        BY <3>1, <4>1 DEF EmOrdem
    <3>3. CASE relogio <= relogio'
      <4>1. recuou => recuou'
        OBVIOUS
      <4>2. relogio >= carimbo => relogio' >= carimbo
        BY <3>1, <3>3 DEF TempoTipos
      <4> QED
        BY <3>1, <4>1, <4>2 DEF EmOrdem
    <3> QED
      BY <3>1, <3>2, <3>3 DEF TempoTipos
  <2>4. CarimboCoerente'
    BY DEF TempoTipos, Evidencia, EmOrdem, CarimboCoerente
  <2> QED
    BY <2>1, <2>2, <2>3, <2>4
<1>3. CASE time_sync_cb
  <2> USE <1>3 DEF time_sync_cb
  <2>1. TempoTipos'
    BY DEF TempoTipos
  <2>2. Evidencia'
    BY DEF TempoTipos, Evidencia
  <2>3. EmOrdem'
    BY DEF TempoTipos, EmOrdem
  <2>4. CarimboCoerente'
    BY DEF TempoTipos, Evidencia, EmOrdem, CarimboCoerente
  <2> QED
    BY <2>1, <2>2, <2>3, <2>4
<1>4. CASE timekeeper_get_timestamp
  <2> USE <1>4 DEF timekeeper_get_timestamp, timekeeper_is_synced, Sincronizado
  <2>1. TempoTipos'
    <3>1. s_synced' \in BOOLEAN /\ recuou' \in BOOLEAN
      BY DEF TempoTipos
    <3> QED
      BY <3>1 DEF TempoTipos
  <2>2. Evidencia'
    BY DEF TempoTipos, Evidencia
  <2>3. EmOrdem'
    BY DEF TempoTipos, EmOrdem
  <2>4. CarimboCoerente'
    BY DEF TempoTipos, Evidencia, EmOrdem, CarimboCoerente
  <2> QED
    BY <2>1, <2>2, <2>3, <2>4
<1>5. CASE timekeeper_get_epoch
  <2> USE <1>5 DEF timekeeper_get_epoch, timekeeper_is_synced, Sincronizado
  <2>1. TempoTipos'
    BY DEF TempoTipos
  <2>2. Evidencia'
    BY DEF TempoTipos, Evidencia
  <2>3. EmOrdem'
    BY DEF TempoTipos, EmOrdem
  <2>4. CarimboCoerente'
    BY DEF TempoTipos, Evidencia, EmOrdem, CarimboCoerente
  <2> QED
    BY <2>1, <2>2, <2>3, <2>4
<1>6. CASE UNCHANGED tempoVars
  BY <1>6 DEF tempoVars, TempoTipos, Evidencia, EmOrdem, CarimboCoerente
<1> QED
  BY <1>1, <1>2, <1>3, <1>4, <1>5, <1>6 DEF TempoNext

\* The two times of one payload never contradict each other, whenever the clock
\* is set (timekeeper.cpp:38-75, mqttclient.cpp:417-425).
THEOREM TempoCoerente == TempoSpec => []CarimboCoerente
<1>1. TempoInv => CarimboCoerente
  BY DEF TempoInv
<1> QED
  BY <1>1, TempoInicio, TempoPasso, PTL DEF TempoSpec

(***************************************************************************)
(* The display: its controller.                                            *)
(***************************************************************************)
ChipTipos ==
  /\ tela \in [Lugares -> Lugares \cup {ANTIGO}]
  /\ ponteiro \in Lugares
  /\ ajustes \in [REGISTROS -> Nat]
  /\ espera \in ARGUMENTADOS \cup {NENHUM}
  /\ obedece \in BOOLEAN

LEMMA Tamanhos ==
  /\ PAGINAS \in Nat \ {0} /\ PEDACOS \in Nat \ {0} /\ PEDACO \in Nat \ {0}
  /\ 0 \in Paginas /\ 0 \in Pecas /\ 0 \in Colunas /\ ORIGEM \in Lugares
  /\ \A p \in Paginas : p \in Nat /\ p < PAGINAS /\ p <= 7 /\ (p < PAGINAS - 1 => p + 1 \in Paginas)
  /\ \A c \in Pecas : c \in Nat /\ c < PEDACOS /\ (c < PEDACOS - 1 => c + 1 \in Pecas)
  /\ \A b \in Colunas : b \in Nat /\ b < PEDACO /\ (b < PEDACO - 1 => b + 1 \in Colunas)
BY OledAssumption DEF Paginas, Pecas, Colunas, Lugares, ORIGEM

LEMMA Registros ==
  /\ \A b \in Nat : Registro(b) # NENHUM => Registro(b) \in REGISTROS /\ Registro(b) # \h20
  /\ ARGUMENTADOS \subseteq REGISTROS /\ NENHUM \notin ARGUMENTADOS
  /\ \h20 \in ARGUMENTADOS
BY DEF Registro, REGISTROS, ARGUMENTADOS, NENHUM

LEMMA ApontaTipo ==
  ASSUME ponteiro \in Lugares, NEW b \in Nat, Aponta(b)
  PROVE  ponteiro' \in Lugares
<1>1. PICK p \in Paginas, c \in Pecas, k \in Colunas : ponteiro = <<p, c, k>>
  BY DEF Lugares
<1>2. CASE ponteiro' = ponteiro
  BY <1>2
<1>3. CASE ponteiro' = <<p, c, b % PEDACO>>
  <2>1. b % PEDACO \in Colunas
    BY OledAssumption DEF Colunas
  <2> QED
    BY <1>3, <2>1 DEF Lugares
<1>4. CASE b \in \h10 .. \h1F /\ ponteiro' = <<p, (b - \h10) % PEDACOS, k>>
  <2>1. (b - \h10) % PEDACOS \in Pecas
    BY <1>4, OledAssumption DEF Pecas
  <2> QED
    BY <1>4, <2>1 DEF Lugares
<1>5. CASE b \in \hB0 .. \hB0 + PAGINAS - 1 /\ ponteiro' = <<b - \hB0, c, k>>
  <2>1. b - \hB0 \in Paginas
    BY <1>5, OledAssumption DEF Paginas
  <2> QED
    BY <1>5, <2>1 DEF Lugares
<1> QED
  BY <1>1, <1>2, <1>3, <1>4, <1>5 DEF Aponta

\* What a command that is obeyed may do.
LEMMA ComandaTipo ==
  ASSUME ChipTipos, NEW b \in Nat, Comanda(b)
  PROVE  /\ ponteiro' \in Lugares /\ ajustes' \in [REGISTROS -> Nat]
         /\ espera' \in ARGUMENTADOS \cup {NENHUM}
<1>1. CASE espera # NENHUM /\ ajustes' = [ajustes EXCEPT ![espera] = b] /\ espera' = NENHUM /\ UNCHANGED ponteiro
  BY <1>1, Registros DEF ChipTipos
<1>2. CASE espera' = b /\ b \in ARGUMENTADOS /\ UNCHANGED <<ajustes, ponteiro>>
  BY <1>2 DEF ChipTipos
<1>3. CASE Registro(b) # NENHUM /\ ajustes' = [ajustes EXCEPT ![Registro(b)] = b] /\ UNCHANGED <<espera, ponteiro>>
  BY <1>3, Registros DEF ChipTipos
<1>4. CASE Aponta(b) /\ UNCHANGED <<ajustes, espera>>
  BY <1>4, ApontaTipo DEF ChipTipos
<1> QED
  BY <1>1, <1>2, <1>3, <1>4 DEF Comanda

LEMMA AvancaTipo ==
  ASSUME ponteiro \in Lugares
  PROVE  Avanca \in Lugares
<1>1. PICK p \in Paginas, c \in Pecas, k \in Colunas : ponteiro = <<p, c, k>>
  BY DEF Lugares
<1>2. ColunaSeguinte(c, k) \in Pecas \X Colunas
  <2>1. CASE k < PEDACO - 1
    BY <2>1, Tamanhos DEF ColunaSeguinte
  <2>2. CASE ~(k < PEDACO - 1) /\ c < PEDACOS - 1
    BY <2>2, Tamanhos DEF ColunaSeguinte
  <2>3. CASE ~(k < PEDACO - 1) /\ ~(c < PEDACOS - 1)
    BY <2>3, Tamanhos DEF ColunaSeguinte
  <2> QED
    BY <2>1, <2>2, <2>3
<1>3. PICK i \in Pecas, n \in Colunas : ColunaSeguinte(c, k) = <<i, n>>
  BY <1>2
<1>4. (p + 1) % PAGINAS \in Paginas
  BY OledAssumption DEF Paginas
<1>5. CASE Avanca = <<p, i, n>> \/ Avanca = <<(p + 1) % PAGINAS, i, n>> \/ Avanca = <<0, i, n>>
  BY <1>4, <1>5, Tamanhos DEF Lugares
<1>6. CASE p < PAGINAS - 1 /\ Avanca = <<p + 1, c, k>>
  BY <1>6, Tamanhos DEF Lugares
<1> QED
  BY <1>1, <1>3, <1>5, <1>6 DEF Avanca

\* One byte stored changes one place of the memory.
LEMMA EscreveLugar ==
  ASSUME ChipTipos, NEW d \in Lugares, Escreve(d)
  PROVE  /\ tela' \in [Lugares -> Lugares \cup {ANTIGO}]
         /\ tela'[ponteiro] = d
         /\ \A l \in Lugares : l # ponteiro => tela'[l] = tela[l]
         /\ ponteiro' = Avanca /\ ponteiro' \in Lugares
BY AvancaTipo DEF ChipTipos, Escreve

LEMMA ModoFica ==
  ASSUME ajustes'[\h20] = ajustes[\h20]
  PROVE  Modo' = Modo
BY DEF Modo

\* Only an argument of 0x20 changes the mode.
LEMMA ModoComanda ==
  ASSUME ChipTipos, NEW b \in Nat, Comanda(b), espera # \h20
  PROVE  Modo' = Modo
<1>1. ajustes'[\h20] = ajustes[\h20]
  BY Registros DEF ChipTipos, Comanda
<1> QED
  BY <1>1, ModoFica

(***************************************************************************)
(* The display: types, and the cost of a flush.                            *)
(***************************************************************************)
FlushTipos ==
  /\ opc \in {"bus", "device", "comandos", "cmd", "dados", "mostra", "parado"}
  /\ pagina \in Paginas /\ pedaco \in Pecas /\ byte \in Colunas
  /\ opc = "comandos" => etapa \in 1 .. 28
  /\ opc = "cmd" => etapa \in 1 .. 3 /\ pedaco = 0 /\ byte = 0
  /\ falhas_q \in Nat
  /\ perdeu \in BOOLEAN /\ engoliu \in BOOLEAN /\ fora \in BOOLEAN
  /\ ~fora => falhas_q = 0

\* What each step of a flush may still add to the failures of the ones before.
Custo ==
  /\ opc \in {"bus", "device", "comandos", "parado"} => falhas_q = 0
  /\ opc = "cmd"    => falhas_q <= 4 * pagina + etapa - 1
  /\ opc = "dados"  => falhas_q <= 4 * pagina + 3
  /\ opc = "mostra" => falhas_q <= 4 * PAGINAS

AtrasoInv == ChipTipos /\ FlushTipos /\ Custo

LEMMA Comandos ==
  /\ Len(INIT_CMDS) = 28
  /\ \A e \in 1 .. 28 : INIT_CMDS[e] \in Nat
  /\ \A e \in 3 .. 28 : INIT_CMDS[e] # \h20
BY DEF INIT_CMDS

LEMMA ComandosPagina ==
  ASSUME pagina \in Paginas, NEW e \in 1 .. 3
  PROVE  /\ CMD_PAGINA(e) \in Nat /\ CMD_PAGINA(e) \notin ARGUMENTADOS
         /\ Registro(CMD_PAGINA(e)) = NENHUM
<1>1. pagina \in Nat /\ pagina <= 7
  BY Tamanhos
<1>2. CASE e = 1
  BY <1>1, <1>2 DEF CMD_PAGINA, ARGUMENTADOS, Registro
<1>3. CASE e # 1
  BY <1>3 DEF CMD_PAGINA, ARGUMENTADOS, Registro
<1> QED
  BY <1>2, <1>3

LEMMA VelhaTipo == Velha \in [Lugares -> Lugares \cup {ANTIGO}]
BY DEF Velha

\* A new frame.
LEMMA QuadroTipos ==
  ASSUME AtrasoInv, Quadro, ponteiro' \in Lugares, ajustes' \in [REGISTROS -> Nat],
         espera' \in ARGUMENTADOS \cup {NENHUM}, UNCHANGED <<fora, obedece>>, perdeu' \in BOOLEAN
  PROVE  AtrasoInv'
<1>1. ChipTipos'
  BY VelhaTipo DEF Quadro, AtrasoInv, ChipTipos
<1>2. FlushTipos'
  <2>1. pagina' \in Paginas /\ pedaco' \in Pecas /\ byte' \in Colunas
    BY Tamanhos DEF Quadro
  <2>2. opc' = "cmd" /\ etapa' = 1 /\ pedaco' = 0 /\ byte' = 0 /\ falhas_q' = 0
    BY DEF Quadro
  <2>3. fora' \in BOOLEAN /\ engoliu' \in BOOLEAN /\ perdeu' \in BOOLEAN
    BY DEF Quadro, AtrasoInv, FlushTipos
  <2> QED
    BY <2>1, <2>2, <2>3 DEF FlushTipos
<1>3. Custo'
  BY Tamanhos DEF Quadro, Custo
<1> QED
  BY <1>1, <1>2, <1>3 DEF AtrasoInv

\* The end of a page, with what its data may have cost.
LEMMA PaginaSegue ==
  ASSUME AtrasoInv, opc = "dados", ProximaPagina, falhas_q' <= falhas_q + 1, falhas_q' \in Nat
  PROVE  /\ opc' \in {"cmd", "mostra"} /\ pagina' \in Paginas /\ pedaco' = 0 /\ byte' = 0
         /\ opc' = "cmd" => etapa' = 1 /\ pagina' = pagina + 1
         /\ Custo'
<1>1. pagina \in Nat /\ pagina \in Paginas /\ falhas_q \in Nat /\ falhas_q <= 4 * pagina + 3
  BY Tamanhos DEF AtrasoInv, FlushTipos, Custo
<1>2. CASE pagina < PAGINAS - 1
  <2>1. opc' = "cmd" /\ pagina' = pagina + 1 /\ etapa' = 1 /\ pedaco' = 0 /\ byte' = 0
    BY <1>2 DEF ProximaPagina
  <2>2. falhas_q' <= 4 * pagina' + etapa' - 1
    BY <1>1, <2>1
  <2> QED
    BY <1>1, <1>2, <2>1, <2>2, Tamanhos DEF Custo
<1>3. CASE ~(pagina < PAGINAS - 1)
  <2>1. opc' = "mostra" /\ pagina' = pagina /\ pedaco' = 0 /\ byte' = 0
    BY <1>3 DEF ProximaPagina
  <2>2. falhas_q' <= 4 * PAGINAS
    BY <1>1, <1>3, Tamanhos
  <2> QED
    BY <1>1, <2>1, <2>2 DEF Custo
<1> QED
  BY <1>2, <1>3

LEMMA FalhasTipo ==
  ASSUME FlushTipos, Deu \/ Falhou
  PROVE  /\ falhas_q' \in Nat /\ falhas_q' <= falhas_q + 1 /\ fora' \in BOOLEAN
         /\ ~fora' => falhas_q' = 0
<1>1. falhas_q \in Nat /\ (Deu \/ falhas_q' = falhas_q + 1)
  BY DEF FlushTipos, Falhou
<1>2. fora' \in BOOLEAN /\ (~fora' => falhas_q' = 0)
  BY DEF FlushTipos, Deu, Falhou
<1> QED
  BY <1>1, <1>2 DEF Deu

LEMMA AtrasoInicio == OledInit => AtrasoInv
<1> SUFFICES ASSUME OledInit PROVE AtrasoInv
  OBVIOUS
<1>1. DE_FABRICA \in [REGISTROS -> Nat]
  BY DEF DE_FABRICA, REGISTROS, ARGUMENTADOS
<1>2. ChipTipos
  BY <1>1, VelhaTipo, Tamanhos DEF OledInit, ChipInit, ChipTipos
<1>3. FlushTipos /\ Custo
  BY Tamanhos DEF OledInit, FlushTipos, Custo
<1> QED
  BY <1>2, <1>3 DEF AtrasoInv

LEMMA AtrasoComandos == AtrasoInv /\ oled_init_cmds => AtrasoInv'
<1> SUFFICES ASSUME AtrasoInv, oled_init_cmds PROVE AtrasoInv'
  OBVIOUS
<1>1. opc = "comandos" /\ etapa \in 1 .. 28 /\ perdeu' \in BOOLEAN /\ UNCHANGED <<s_ok, fora, obedece>>
  BY DEF oled_init_cmds, AtrasoInv, FlushTipos
<1>2. /\ ponteiro' \in Lugares /\ ajustes' \in [REGISTROS -> Nat]
      /\ espera' \in ARGUMENTADOS \cup {NENHUM}
  <2>1. CASE Comanda(INIT_CMDS[etapa])
    BY <1>1, <2>1, Comandos, ComandaTipo DEF AtrasoInv
  <2>2. CASE Ignora
    BY <2>2 DEF Ignora, AtrasoInv, ChipTipos
  <2> QED
    BY <2>1, <2>2 DEF oled_init_cmds
<1>3. CASE Quadro
  BY <1>1, <1>2, <1>3, QuadroTipos
<1>4. CASE etapa < 28 /\ etapa' = etapa + 1 /\ UNCHANGED <<opc, vezVars, falhas_q, engoliu, tela>>
  <2>1. ChipTipos'
    BY <1>1, <1>2, <1>4 DEF AtrasoInv, ChipTipos
  <2>2. FlushTipos'
    BY <1>1, <1>4 DEF AtrasoInv, FlushTipos, vezVars
  <2>3. Custo'
    BY <1>1, <1>4 DEF AtrasoInv, Custo
  <2> QED
    BY <2>1, <2>2, <2>3 DEF AtrasoInv
<1> QED
  BY <1>1, <1>3, <1>4, Comandos DEF oled_init_cmds

LEMMA AtrasoCmd == AtrasoInv /\ oled_write_cmd => AtrasoInv'
<1> SUFFICES ASSUME AtrasoInv, oled_write_cmd PROVE AtrasoInv'
  OBVIOUS
<1>1. /\ opc = "cmd" /\ etapa \in 1 .. 3 /\ pagina \in Paginas /\ pagina \in Nat
      /\ UNCHANGED <<vezVars, perdeu, tela, obedece>> /\ pedaco = 0 /\ byte = 0
      /\ falhas_q \in Nat /\ falhas_q <= 4 * pagina + etapa - 1 /\ engoliu' \in BOOLEAN
  BY Tamanhos DEF oled_write_cmd, AtrasoInv, FlushTipos, Custo
<1>2. falhas_q' \in Nat /\ falhas_q' <= falhas_q + 1 /\ fora' \in BOOLEAN /\ (~fora' => falhas_q' = 0)
  BY FalhasTipo DEF oled_write_cmd, AtrasoInv
<1>3. ChipTipos'
  <2>1. CASE Comanda(CMD_PAGINA(etapa))
    BY <1>1, <2>1, ComandosPagina, ComandaTipo DEF AtrasoInv, ChipTipos
  <2>2. CASE Ignora
    BY <1>1, <2>2 DEF Ignora, AtrasoInv, ChipTipos
  <2> QED
    BY <2>1, <2>2 DEF oled_write_cmd
<1>4. CASE etapa < 3
  <2>1. opc' = "cmd" /\ etapa' = etapa + 1
    BY <1>1, <1>4 DEF oled_write_cmd
  <2>2. FlushTipos'
    BY <1>1, <1>2, <1>4, <2>1 DEF AtrasoInv, FlushTipos, vezVars
  <2>3. Custo'
    BY <1>1, <1>2, <1>4, <2>1 DEF Custo, vezVars
  <2> QED
    BY <1>3, <2>2, <2>3 DEF AtrasoInv
<1>5. CASE ~(etapa < 3)
  <2>1. opc' = "dados" /\ etapa = 3
    BY <1>1, <1>5 DEF oled_write_cmd
  <2>2. FlushTipos'
    BY <1>1, <1>2, <2>1 DEF AtrasoInv, FlushTipos, vezVars
  <2>3. Custo'
    BY <1>1, <1>2, <2>1 DEF Custo, vezVars
  <2> QED
    BY <1>3, <2>2, <2>3 DEF AtrasoInv
<1> QED
  BY <1>4, <1>5

LEMMA AtrasoDados == AtrasoInv /\ oled_write_data => AtrasoInv'
<1> SUFFICES ASSUME AtrasoInv, oled_write_data PROVE AtrasoInv'
  OBVIOUS
<1>1. /\ opc = "dados" /\ pagina \in Paginas /\ pedaco \in Pecas /\ byte \in Colunas /\ falhas_q \in Nat
      /\ ChipTipos /\ UNCHANGED <<perdeu, engoliu, ajustes, espera, obedece>>
  BY DEF oled_write_data, AtrasoInv, FlushTipos
<1>2. falhas_q' \in Nat /\ falhas_q' <= falhas_q + 1 /\ fora' \in BOOLEAN /\ (~fora' => falhas_q' = 0)
  BY FalhasTipo DEF oled_write_data, AtrasoInv
<1>3. ChipTipos'
  <2>1. Vez \in Lugares
    BY <1>1 DEF Vez, Lugares
  <2>2. Escreve(Vez) \/ UNCHANGED <<tela, ponteiro>>
    BY DEF oled_write_data
  <2> QED
    BY <1>1, <2>1, <2>2, EscreveLugar DEF ChipTipos
<1>4. CASE ProximaPagina
  <2>1. /\ opc' \in {"cmd", "mostra"} /\ pagina' \in Paginas /\ pedaco' = 0 /\ byte' = 0
        /\ (opc' = "cmd" => etapa' = 1) /\ Custo'
    BY <1>1, <1>2, <1>4, PaginaSegue
  <2>2. FlushTipos'
    BY <1>1, <1>2, <2>1, Tamanhos DEF AtrasoInv, FlushTipos
  <2> QED
    BY <1>3, <2>1, <2>2 DEF AtrasoInv
<1>5. CASE /\ Deu /\ UNCHANGED <<opc, s_ok, etapa, pagina>>
           /\ \/ byte < PEDACO - 1 /\ byte' = byte + 1 /\ pedaco' = pedaco
              \/ pedaco < PEDACOS - 1 /\ pedaco' = pedaco + 1 /\ byte' = 0
  <2>1. pedaco' \in Pecas /\ byte' \in Colunas
    BY <1>1, <1>5, Tamanhos
  <2>2. FlushTipos'
    BY <1>1, <1>2, <1>5, <2>1 DEF AtrasoInv, FlushTipos
  <2>3. Custo'
    BY <1>1, <1>5 DEF AtrasoInv, Custo, Deu
  <2> QED
    BY <1>3, <2>2, <2>3 DEF AtrasoInv
<1> QED
  BY <1>4, <1>5 DEF oled_write_data, ProximoByte, ProximoPedaco

LEMMA AtrasoReinicia == AtrasoInv /\ Reinicia => AtrasoInv'
<1> SUFFICES ASSUME AtrasoInv, Reinicia PROVE AtrasoInv'
  OBVIOUS
<1>1. ChipTipos'
  BY VelhaTipo DEF Reinicia, AtrasoInv, ChipTipos
<1>2. FlushTipos' /\ Custo'
  BY Tamanhos DEF Reinicia, AtrasoInv, FlushTipos, Custo
<1> QED
  BY <1>1, <1>2 DEF AtrasoInv

LEMMA AtrasoOutros ==
  AtrasoInv /\ (oled_init_bus \/ oled_init_device \/ oled_show_status \/ UNCHANGED telaVars) => AtrasoInv'
<1> SUFFICES ASSUME AtrasoInv, oled_init_bus \/ oled_init_device \/ oled_show_status \/ UNCHANGED telaVars
             PROVE  AtrasoInv'
  OBVIOUS
<1>1. CASE oled_init_bus \/ oled_init_device
  <2>1. /\ opc \in {"bus", "device"} /\ opc' \in {"device", "comandos", "parado"}
        /\ opc' = "comandos" => etapa' = 1
        /\ UNCHANGED <<vezVars, perdeu, falhas_q, engoliu, fora, chipVars>>
    BY <1>1 DEF oled_init_bus, oled_init_device
  <2>2. ChipTipos'
    BY <2>1 DEF AtrasoInv, ChipTipos, chipVars
  <2>3. FlushTipos' /\ Custo'
    BY <2>1 DEF AtrasoInv, FlushTipos, Custo, vezVars
  <2> QED
    BY <2>2, <2>3 DEF AtrasoInv
<1>2. CASE oled_show_status
  <2>1. Quadro /\ UNCHANGED <<perdeu, fora, ponteiro, ajustes, espera, obedece>>
    BY <1>2 DEF oled_show_status
  <2> QED
    BY <2>1, QuadroTipos DEF AtrasoInv, ChipTipos, FlushTipos
<1>3. CASE UNCHANGED telaVars
  BY <1>3 DEF telaVars, vezVars, chipVars, AtrasoInv, ChipTipos, FlushTipos, Custo
<1> QED
  BY <1>1, <1>2, <1>3

\* A display that never answers costs the control task four transfers that time
\* out in each page, whatever the sizes (oled.cpp:27-45, 214-221).
THEOREM OledAtraso == OledSpec => []AtrasoLimitado
<1>1. AtrasoInv /\ [OledNext]_telaVars => AtrasoInv'
  BY AtrasoComandos, AtrasoCmd, AtrasoDados, AtrasoReinicia, AtrasoOutros DEF OledNext, oled_show_status_nada
<1>2. AtrasoInv => AtrasoLimitado
  <2> SUFFICES ASSUME AtrasoInv PROVE AtrasoLimitado
    OBVIOUS
  <2>1. pagina \in Nat /\ pagina <= PAGINAS - 1 /\ falhas_q \in Nat /\ (opc = "cmd" => etapa \in 1 .. 3)
    <3>1. pagina \in Paginas /\ falhas_q \in Nat /\ (opc = "cmd" => etapa \in 1 .. 3)
      BY DEF AtrasoInv, FlushTipos
    <3> QED
      BY <3>1, Tamanhos
  <2> QED
    BY <2>1, Tamanhos DEF AtrasoInv, FlushTipos, Custo, AtrasoLimitado
<1> QED
  BY AtrasoInicio, <1>1, <1>2, PTL DEF OledSpec

(***************************************************************************)
(* The settings.  Posto says which command of oled_init gives a register   *)
(* its value, Pendente which one waits for its argument before a command;  *)
(* the commands that came after it do not touch a register already set.    *)
(***************************************************************************)
Posto(r) ==
  CASE r = \h20 -> 3  [] r = \hC0 -> 5  [] r = \h40 -> 8  [] r = \h81 -> 10 [] r = \hA0 -> 11
    [] r = \hA6 -> 12 [] r = \hA8 -> 14 [] r = \hA4 -> 15 [] r = \hD3 -> 17 [] r = \hD5 -> 19
    [] r = \hD9 -> 21 [] r = \hDA -> 23 [] r = \hDB -> 25 [] r = \h8D -> 27 [] r = \hAE -> 28

Pendente(e) == IF e \in {3, 10, 14, 17, 19, 21, 23, 25, 27} THEN INIT_CMDS[e - 1] ELSE NENHUM

Postos == \A r \in REGISTROS : Posto(r) < etapa => ajustes[r] = PEDIDOS[r]

AcesaInv ==
  /\ AtrasoInv
  /\ opc = "comandos" /\ ~perdeu => Postos /\ (etapa > 1 => espera = Pendente(etapa))
  /\ opc \in {"cmd", "dados", "mostra"} /\ ~perdeu => espera = NENHUM /\ ajustes = PEDIDOS

\* The register that command e sets, when Pendente(e) waits before it.
Alvo(e) == IF Pendente(e) # NENHUM THEN Pendente(e)
           ELSE IF INIT_CMDS[e] \in ARGUMENTADOS THEN NENHUM ELSE Registro(INIT_CMDS[e])

LEMMA Pendencias ==
  ASSUME NEW e \in 2 .. 28
  PROVE  /\ Pendente(e) # NENHUM \/ INIT_CMDS[e] \notin ARGUMENTADOS => Pendente(e + 1) = NENHUM
         /\ Pendente(e) = NENHUM /\ INIT_CMDS[e] \in ARGUMENTADOS => Pendente(e + 1) = INIT_CMDS[e]
<1>1. CASE e \in 2 .. 14
  BY <1>1 DEF Pendente, INIT_CMDS, NENHUM, ARGUMENTADOS
<1>2. CASE e \in 15 .. 28
  BY <1>2 DEF Pendente, INIT_CMDS, NENHUM, ARGUMENTADOS
<1> QED
  BY <1>1, <1>2

LEMMA AlvoPosto ==
  ASSUME NEW e \in 2 .. 28
  PROVE  \/ Alvo(e) = NENHUM
         \/ Alvo(e) \in REGISTROS /\ Posto(Alvo(e)) = e /\ INIT_CMDS[e] = PEDIDOS[Alvo(e)]
<1>1. PICK b : b = INIT_CMDS[e]
  OBVIOUS
<1>2. CASE e \in {2, 4, 6, 7, 9, 13, 16, 18, 20, 22, 24, 26}
  <2>1. Pendente(e) = NENHUM /\ (b \in ARGUMENTADOS \/ Registro(b) = NENHUM)
    BY <1>1, <1>2 DEF Pendente, INIT_CMDS, NENHUM, ARGUMENTADOS, Registro
  <2> QED
    BY <1>1, <2>1 DEF Alvo
<1>3. CASE e \in {3, 10, 14, 17, 19, 21, 23, 25, 27}
  <2>1. PICK r : r = Pendente(e)
    OBVIOUS
  <2>2. r # NENHUM /\ r \in REGISTROS /\ Posto(r) = e /\ b = PEDIDOS[r]
    BY <1>1, <1>3, <2>1 DEF Pendente, INIT_CMDS, NENHUM, REGISTROS, ARGUMENTADOS, Posto, PEDIDOS
  <2> QED
    BY <1>1, <2>1, <2>2 DEF Alvo
<1>4. CASE e \in {5, 8, 11, 12, 15, 28}
  <2>1. PICK r : r = Registro(b)
    OBVIOUS
  <2>2. Pendente(e) = NENHUM /\ b \notin ARGUMENTADOS
    BY <1>1, <1>4 DEF Pendente, INIT_CMDS, NENHUM, ARGUMENTADOS
  <2>3. \/ (e = 5  /\ b = \hC8) \/ (e = 8  /\ b = \h40) \/ (e = 11 /\ b = \hA1)
        \/ (e = 12 /\ b = \hA6) \/ (e = 15 /\ b = \hA4) \/ (e = 28 /\ b = \hAF)
    BY <1>1, <1>4 DEF INIT_CMDS
  <2>4. \/ (e = 5  /\ r = \hC0) \/ (e = 8  /\ r = \h40) \/ (e = 11 /\ r = \hA0)
        \/ (e = 12 /\ r = \hA6) \/ (e = 15 /\ r = \hA4) \/ (e = 28 /\ r = \hAE)
    BY <2>1, <2>3 DEF Registro
  <2>5. r \in REGISTROS /\ r # NENHUM
    BY <2>4 DEF REGISTROS, NENHUM
  <2>6. Posto(r) = e
    BY <2>4 DEF Posto
  <2>7. b = PEDIDOS[r]
    BY <2>3, <2>4, <2>5 DEF PEDIDOS
  <2> QED
    BY <1>1, <2>1, <2>2, <2>5, <2>6, <2>7 DEF Alvo
<1> QED
  BY <1>2, <1>3, <1>4

LEMMA TodosPostos ==
  ASSUME NEW r \in REGISTROS
  PROVE  Posto(r) \in 3 .. 28 /\ Alvo(Posto(r)) = r
<1>1. PICK e : e = Posto(r)
  OBVIOUS
<1>2. CASE r \in ARGUMENTADOS
  <2>1. \/ (r = \h20 /\ e = 3)  \/ (r = \h81 /\ e = 10) \/ (r = \hA8 /\ e = 14)
        \/ (r = \hD3 /\ e = 17) \/ (r = \hD5 /\ e = 19) \/ (r = \hD9 /\ e = 21)
        \/ (r = \hDA /\ e = 23) \/ (r = \hDB /\ e = 25) \/ (r = \h8D /\ e = 27)
    BY <1>1, <1>2 DEF Posto, ARGUMENTADOS
  <2>2. r = INIT_CMDS[e - 1] /\ e \in 3 .. 28
    BY <2>1 DEF INIT_CMDS
  <2>3. Pendente(e) = r /\ r # NENHUM
    BY <2>1, <2>2 DEF Pendente, NENHUM
  <2> QED
    BY <1>1, <2>2, <2>3 DEF Alvo
<1>3. CASE r \notin ARGUMENTADOS
  <2>1. \/ (r = \hC0 /\ e = 5)  \/ (r = \h40 /\ e = 8)  \/ (r = \hA0 /\ e = 11)
        \/ (r = \hA6 /\ e = 12) \/ (r = \hA4 /\ e = 15) \/ (r = \hAE /\ e = 28)
    BY <1>1, <1>3 DEF Posto, REGISTROS, ARGUMENTADOS
  <2>2. PICK b : b = INIT_CMDS[e]
    OBVIOUS
  <2>3. Pendente(e) = NENHUM /\ b \notin ARGUMENTADOS
    BY <2>1, <2>2 DEF ARGUMENTADOS, Pendente, INIT_CMDS, NENHUM
  <2>4. Registro(b) = r
    BY <2>1, <2>2 DEF Registro, INIT_CMDS
  <2> QED
    BY <1>1, <2>1, <2>2, <2>3, <2>4 DEF Alvo
<1> QED
  BY <1>2, <1>3

\* A command that is obeyed sets its target, and no other register.
LEMMA ComandaAlvo ==
  ASSUME ChipTipos, NEW e \in 2 .. 28, espera = Pendente(e), Comanda(INIT_CMDS[e])
  PROVE  /\ espera' = Pendente(e + 1)
         /\ Alvo(e) \in REGISTROS => ajustes'[Alvo(e)] = INIT_CMDS[e]
         /\ \A r \in REGISTROS : r # Alvo(e) => ajustes'[r] = ajustes[r]
<1>1. PICK b : b = INIT_CMDS[e]
  OBVIOUS
<1>2. ajustes \in [REGISTROS -> Nat] /\ NENHUM \notin REGISTROS
  BY DEF ChipTipos, NENHUM, REGISTROS, ARGUMENTADOS
<1>3. CASE espera # NENHUM /\ ajustes' = [ajustes EXCEPT ![espera] = b] /\ espera' = NENHUM
  <2>1. Alvo(e) = espera /\ espera' = Pendente(e + 1)
    BY <1>1, <1>3, Pendencias DEF Alvo
  <2> QED
    BY <1>1, <1>2, <1>3, <2>1
<1>4. CASE espera = NENHUM /\ b \in ARGUMENTADOS /\ espera' = b /\ ajustes' = ajustes
  <2>1. Alvo(e) = NENHUM /\ espera' = Pendente(e + 1)
    BY <1>1, <1>4, Pendencias DEF Alvo
  <2> QED
    BY <1>2, <1>4, <2>1
<1>5. CASE /\ espera = NENHUM /\ b \notin ARGUMENTADOS /\ Registro(b) # NENHUM
           /\ ajustes' = [ajustes EXCEPT ![Registro(b)] = b] /\ espera' = espera
  <2>1. Alvo(e) = Registro(b) /\ espera' = Pendente(e + 1)
    BY <1>1, <1>5, Pendencias DEF Alvo
  <2> QED
    BY <1>1, <1>2, <1>5, <2>1
<1>6. CASE espera = NENHUM /\ b \notin ARGUMENTADOS /\ Registro(b) = NENHUM /\ UNCHANGED <<ajustes, espera>>
  <2>1. Alvo(e) = NENHUM /\ espera' = Pendente(e + 1)
    BY <1>1, <1>6, Pendencias DEF Alvo
  <2> QED
    BY <1>2, <1>6, <2>1
<1> QED
  BY <1>1, <1>3, <1>4, <1>5, <1>6 DEF Comanda

LEMMA PedidosTipo == PEDIDOS = [r \in REGISTROS |-> PEDIDOS[r]] /\ \A r \in REGISTROS : Posto(r) <= 28
<1>1. PEDIDOS = [r \in REGISTROS |-> PEDIDOS[r]]
  BY DEF PEDIDOS
<1> QED
  BY <1>1, TodosPostos

LEMMA AcesaComandos == AcesaInv /\ oled_init_cmds => AcesaInv'
<1> SUFFICES ASSUME AcesaInv, oled_init_cmds PROVE AcesaInv'
  OBVIOUS
<1>1. AtrasoInv /\ AtrasoInv' /\ ChipTipos /\ opc = "comandos" /\ etapa \in 1 .. 28
  BY AtrasoComandos DEF AcesaInv, AtrasoInv, FlushTipos, oled_init_cmds
<1>2. \/ opc' = "comandos" /\ etapa < 28 /\ etapa' = etapa + 1
      \/ opc' = "cmd" /\ etapa = 28
  BY <1>1, Comandos DEF oled_init_cmds, Quadro
<1>3. CASE perdeu'
  BY <1>1, <1>2, <1>3 DEF AcesaInv
<1>4. CASE ~perdeu'
  <2>1. ~perdeu /\ Comanda(INIT_CMDS[etapa]) /\ Postos /\ (etapa > 1 => espera = Pendente(etapa))
    BY <1>1, <1>4 DEF oled_init_cmds, AcesaInv
  <2>2. CASE etapa = 1
    <3>1. INIT_CMDS[etapa] = \hAE
      BY <2>2 DEF INIT_CMDS
    <3>2. \hAE \notin ARGUMENTADOS
      BY DEF ARGUMENTADOS
    <3>3. espera' = NENHUM
      BY <2>1, <3>1, <3>2 DEF Comanda
    <3>4. Pendente(2) = NENHUM
      BY DEF Pendente
    <3>5. \A r \in REGISTROS : ~(Posto(r) < 2)
      BY TodosPostos
    <3> QED
      BY <1>1, <1>2, <2>2, <3>3, <3>4, <3>5 DEF AcesaInv, Postos
  <2>3. CASE etapa # 1
    <3>1. etapa \in 2 .. 28 /\ espera = Pendente(etapa)
      BY <1>1, <2>1, <2>3
    <3>2. PICK e \in 2 .. 28 : e = etapa
      BY <3>1
    <3>3. \A r \in REGISTROS : Posto(r) < e + 1 => ajustes'[r] = PEDIDOS[r]
      <4> SUFFICES ASSUME NEW r \in REGISTROS, Posto(r) < e + 1
                   PROVE  ajustes'[r] = PEDIDOS[r]
        OBVIOUS
      <4>1. Posto(r) \in 3 .. 28 /\ Alvo(Posto(r)) = r
        BY TodosPostos
      <4>2. CASE Posto(r) = e
        <5>1. Alvo(e) = r
          BY <4>1, <4>2
        <5>2. r # NENHUM
          BY DEF NENHUM, REGISTROS, ARGUMENTADOS
        <5>3. INIT_CMDS[e] = PEDIDOS[r]
          BY <5>1, <5>2, AlvoPosto
        <5> QED
          BY <1>1, <2>1, <3>1, <3>2, <5>1, <5>3, ComandaAlvo
      <4>3. CASE Posto(r) # e
        <5>1. Posto(r) < e
          BY <4>1, <4>3
        <5>2. Alvo(e) # r
          <6>1. r # NENHUM
            BY DEF NENHUM, REGISTROS, ARGUMENTADOS
          <6> QED
            BY <4>3, <6>1, AlvoPosto
        <5>3. ajustes'[r] = ajustes[r]
          BY <1>1, <2>1, <3>1, <3>2, <5>2, ComandaAlvo
        <5> QED
          BY <2>1, <3>2, <5>1, <5>3 DEF Postos
      <4> QED
        BY <4>2, <4>3
    <3>4. espera' = Pendente(e + 1)
      BY <1>1, <2>1, <3>1, <3>2, ComandaAlvo
    <3>5. CASE opc' = "comandos"
      <4>1. etapa' = e + 1
        BY <1>2, <3>2, <3>5
      <4> QED
        BY <1>1, <3>3, <3>4, <3>5, <4>1 DEF AcesaInv, Postos
    <3>6. CASE opc' = "cmd"
      <4>1. e = 28
        BY <1>2, <3>2, <3>6
      <4>2. espera' = NENHUM
        BY <3>4, <4>1 DEF Pendente
      <4>3. \A r \in REGISTROS : ajustes'[r] = PEDIDOS[r]
        BY <3>3, <4>1, TodosPostos
      <4>4. ajustes' \in [REGISTROS -> Nat]
        BY <1>1 DEF AtrasoInv, ChipTipos
      <4>5. ajustes' = PEDIDOS
        BY <4>3, <4>4, PedidosTipo
      <4> QED
        BY <1>1, <3>6, <4>2, <4>5 DEF AcesaInv
    <3> QED
      BY <1>2, <3>5, <3>6
  <2> QED
    BY <2>2, <2>3
<1> QED
  BY <1>3, <1>4 DEF AcesaInv, AtrasoInv, FlushTipos

LEMMA AcesaOutros == AcesaInv /\ [OledNext]_telaVars /\ ~oled_init_cmds => AcesaInv'
<1> SUFFICES ASSUME AcesaInv, [OledNext]_telaVars, ~oled_init_cmds PROVE AcesaInv'
  OBVIOUS
<1>1. AtrasoInv /\ AtrasoInv'
  BY AtrasoCmd, AtrasoDados, AtrasoReinicia, AtrasoOutros DEF OledNext, oled_show_status_nada, AcesaInv
<1>2. CASE oled_init_bus \/ oled_init_device
  <2>1. opc' \in {"device", "comandos", "parado"} /\ (opc' = "comandos" => etapa' = 1)
    BY <1>2 DEF oled_init_bus, oled_init_device
  <2>2. opc' = "comandos" => Postos'
    <3>1. \A r \in REGISTROS : ~(Posto(r) < 1)
      BY TodosPostos
    <3> QED
      BY <2>1, <3>1 DEF Postos
  <2> QED
    BY <1>1, <2>1, <2>2 DEF AcesaInv
<1>3. CASE oled_write_cmd
  <2>1. opc = "cmd" /\ opc' \in {"cmd", "dados"} /\ perdeu' = perdeu /\ etapa \in 1 .. 3 /\ pagina \in Paginas
    BY <1>1, <1>3 DEF oled_write_cmd, AtrasoInv, FlushTipos
  <2>2. ~perdeu => espera' = NENHUM /\ ajustes' = PEDIDOS
    <3> SUFFICES ASSUME ~perdeu PROVE espera' = NENHUM /\ ajustes' = PEDIDOS
      OBVIOUS
    <3>1. espera = NENHUM /\ ajustes = PEDIDOS
      BY <2>1 DEF AcesaInv
    <3>2. CMD_PAGINA(etapa) \notin ARGUMENTADOS /\ Registro(CMD_PAGINA(etapa)) = NENHUM
      BY <2>1, ComandosPagina
    <3> QED
      BY <1>3, <3>1, <3>2 DEF oled_write_cmd, Comanda, Ignora
  <2> QED
    BY <1>1, <2>1, <2>2 DEF AcesaInv
<1>4. CASE oled_write_data \/ oled_show_status
  <2>1. /\ opc \in {"dados", "mostra"} /\ opc' \in {"cmd", "dados", "mostra"}
        /\ UNCHANGED <<perdeu, ajustes, espera>>
    BY <1>4 DEF oled_write_data, oled_show_status, Quadro, ProximoByte, ProximoPedaco, ProximaPagina
  <2> QED
    BY <1>1, <2>1 DEF AcesaInv
<1>5. CASE Reinicia
  BY <1>1, <1>5 DEF AcesaInv, Reinicia
<1>6. CASE UNCHANGED telaVars
  BY <1>1, <1>6 DEF AcesaInv, Postos, telaVars, chipVars
<1> QED
  BY <1>2, <1>3, <1>4, <1>5, <1>6 DEF OledNext, oled_show_status_nada

\* An oled_init that loses no command leaves the display as it asks for, whatever
\* it was before: it may be a restart in the middle of a command
\* (oled.cpp:251-268).
THEOREM OledAcende == OledSpec => []TelaAcesa
<1>1. OledInit => AcesaInv
  BY AtrasoInicio DEF OledInit, AcesaInv
<1>2. AcesaInv /\ [OledNext]_telaVars => AcesaInv'
  BY AcesaComandos, AcesaOutros
<1>3. AcesaInv => TelaAcesa
  BY DEF AcesaInv, TelaAcesa
<1> QED
  BY <1>1, <1>2, <1>3, PTL DEF OledSpec

(***************************************************************************)
(* The frame.  A chip that is Preso moves its pointer with the data alone, *)
(* and stays on the track while nothing failed; one that is Guiado is put  *)
(* back on it by the commands of each page.                                *)
(***************************************************************************)
Preso  == Modo = "horizontal" /\ ~obedece
Guiado == Modo # "vertical" /\ (obedece \/ Modo = "pagina")

Trilho ==
  /\ opc = "cmd" => ponteiro = <<pagina, 0, 0>>
  /\ opc = "dados" => ponteiro = Vez
  /\ opc = "mostra" => ponteiro = ORIGEM

Mira ==
  /\ opc = "cmd" /\ etapa # 1 => ponteiro[1] = pagina
  /\ opc = "cmd" /\ etapa = 3 => ponteiro[3] = 0
  /\ opc = "dados" => ponteiro = Vez

\* The places whose turn came before.
Antes(l) == \/ l[1] < pagina
            \/ l[1] = pagina /\ l[2] < pedaco
            \/ l[1] = pagina /\ l[2] = pedaco /\ l[3] < byte

Feito ==
  /\ opc \in {"cmd", "dados"} => \A l \in Lugares : Antes(l) => tela[l] = l
  /\ opc = "mostra" => \A l \in Lugares : tela[l] = l

\* Past the first command of a flush, nothing waits for an argument.
Limpo == opc \in {"dados", "mostra"} \/ (opc = "cmd" /\ (etapa # 1 \/ pagina # 0)) => espera = NENHUM

\* Where the pointer has not moved since the power was turned on.
NaOrigem ==
  /\ opc \in {"bus", "device"} => ponteiro = ORIGEM
  /\ opc = "comandos" /\ (etapa <= 2 \/ espera = \h20 \/ Preso) => ponteiro = ORIGEM
  /\ opc = "cmd" /\ espera = \h20 => ponteiro = ORIGEM

Certo == (~engoliu /\ Guiado) \/ (~fora /\ Preso)

QuadroInv ==
  /\ AtrasoInv
  /\ falhas_q = 0 => Limpo
  /\ ~fora => NaOrigem
  /\ ~fora /\ Preso => Trilho
  /\ falhas_q = 0 /\ ~engoliu /\ Guiado => Mira
  /\ falhas_q = 0 /\ Certo => Feito

LEMMA QuadroInicio == OledInit => QuadroInv
<1> SUFFICES ASSUME OledInit PROVE QuadroInv
  OBVIOUS
<1>1. AtrasoInv /\ opc = "bus" /\ ponteiro = ORIGEM
  BY AtrasoInicio DEF OledInit, ChipInit
<1> QED
  BY <1>1 DEF QuadroInv, Limpo, NaOrigem, Trilho, Mira, Feito

LEMMA CoordenadasLugar ==
  ASSUME NEW l \in Lugares
  PROVE  /\ l[1] \in Nat /\ l[1] < PAGINAS /\ l[2] \in Nat /\ l[2] < PEDACOS
         /\ l[3] \in Nat /\ l[3] < PEDACO /\ l = <<l[1], l[2], l[3]>>
<1>1. l[1] \in Paginas /\ l[2] \in Pecas /\ l[3] \in Colunas /\ l = <<l[1], l[2], l[3]>>
  BY DEF Lugares
<1> QED
  BY <1>1, Tamanhos

\* No place comes before the first turn.
LEMMA NadaAntes ==
  ASSUME NEW l \in Lugares, pagina = 0, pedaco = 0, byte = 0
  PROVE  ~Antes(l)
BY CoordenadasLugar DEF Antes

\* A new frame: the pointer is where the last one, or oled_init, left it.
LEMMA QuadroNovo ==
  ASSUME AtrasoInv', Quadro,
         ~fora' => NaOrigem' /\ (Preso' => ponteiro' = ORIGEM)
  PROVE  QuadroInv'
<1>1. opc' = "cmd" /\ etapa' = 1 /\ pagina' = 0 /\ pedaco' = 0 /\ byte' = 0
  BY DEF Quadro
<1>2. Limpo' /\ Mira'
  BY <1>1 DEF Limpo, Mira
<1>3. ~fora' /\ Preso' => Trilho'
  BY <1>1 DEF Trilho, ORIGEM
<1>4. \A l \in Lugares : ~Antes(l)'
  BY <1>1, CoordenadasLugar DEF Antes
<1>5. Feito'
  BY <1>1, <1>4 DEF Feito
<1> QED
  BY <1>2, <1>3, <1>5 DEF QuadroInv

LEMMA QuadroComandos == QuadroInv /\ oled_init_cmds => QuadroInv'
<1> SUFFICES ASSUME QuadroInv, oled_init_cmds PROVE QuadroInv'
  OBVIOUS
<1>1. /\ AtrasoInv /\ AtrasoInv' /\ ChipTipos /\ opc = "comandos" /\ etapa \in 1 .. 28
      /\ fora' = fora /\ obedece' = obedece
  BY AtrasoComandos DEF QuadroInv, AtrasoInv, FlushTipos, oled_init_cmds
<1>2. \/ opc' = "comandos" /\ etapa < 28 /\ etapa' = etapa + 1
      \/ opc' = "cmd" /\ etapa = 28 /\ Quadro
  BY <1>1, Comandos DEF oled_init_cmds, Quadro
<1>3. PICK b \in Nat : b = INIT_CMDS[etapa] /\ (etapa > 2 => b # \h20)
  BY <1>1, Comandos
\* What may leave the pointer away from the first place leaves the mode alone.
<1>4. ASSUME ~fora, etapa = 1 \/ espera' = \h20 \/ Preso'
      PROVE  ponteiro' = ORIGEM
  <2>1. CASE Ignora
    <3>1. ponteiro' = ponteiro /\ espera' = espera /\ (Preso' <=> Preso)
      BY <1>1, <2>1, ModoFica DEF Ignora, Preso
    <3> QED
      BY <1>1, <1>4, <3>1 DEF QuadroInv, NaOrigem
  <2>2. CASE Comanda(b) /\ espera = \h20
    <3>1. ponteiro = ORIGEM
      BY <1>1, <1>4, <2>2 DEF QuadroInv, NaOrigem
    <3> QED
      BY <2>2, <3>1 DEF Comanda, NENHUM
  <2>3. CASE Comanda(b) /\ espera # \h20
    <3>1. Modo' = Modo /\ (Preso' <=> Preso)
      BY <1>1, <2>3, ModoComanda DEF Preso
    <3>2. CASE etapa <= 2
      <4>1. ponteiro = ORIGEM
        BY <1>1, <1>4, <3>2 DEF QuadroInv, NaOrigem
      <4>2. b = \hAE \/ b = \h20
        BY <1>1, <1>3, <3>2 DEF INIT_CMDS
      <4>3. b \in ARGUMENTADOS \/ Registro(b) # NENHUM
        BY <4>2 DEF ARGUMENTADOS, Registro, NENHUM
      <4> QED
        BY <2>3, <4>1, <4>3 DEF Comanda
    <3>3. CASE ~(etapa <= 2)
      <4>1. espera' # \h20
        BY <1>1, <1>3, <2>3, <3>3 DEF Comanda, NENHUM
      <4>2. Preso /\ ponteiro = ORIGEM
        BY <1>1, <1>4, <3>1, <3>3, <4>1 DEF QuadroInv, NaOrigem
      <4>3. ponteiro' = ponteiro
        BY <2>3, <4>2 DEF Comanda, Aponta, Preso
      <4> QED
        BY <4>2, <4>3
    <3> QED
      BY <1>1, <3>2, <3>3
  <2> QED
    BY <1>3, <2>1, <2>2, <2>3 DEF oled_init_cmds
<1>5. CASE opc' = "comandos"
  <2>1. ~fora' => NaOrigem'
    BY <1>1, <1>2, <1>4, <1>5 DEF NaOrigem
  <2>2. Limpo' /\ Trilho' /\ Mira' /\ Feito'
    BY <1>5 DEF Limpo, Trilho, Mira, Feito
  <2> QED
    BY <1>1, <2>1, <2>2 DEF QuadroInv
<1>6. CASE opc' = "cmd" /\ Quadro
  <2>1. ~fora' => NaOrigem' /\ (Preso' => ponteiro' = ORIGEM)
    BY <1>1, <1>4, <1>6 DEF NaOrigem
  <2> QED
    BY <1>1, <1>6, <2>1, QuadroNovo
<1> QED
  BY <1>2, <1>5, <1>6

\* After a failure nothing is claimed until the next flush, or the next restart.
LEMMA QuadroFalha ==
  ASSUME AtrasoInv', Falhou, FlushTipos
  PROVE  QuadroInv'
<1>1. fora' /\ falhas_q' # 0
  BY DEF Falhou, FlushTipos
<1> QED
  BY <1>1 DEF QuadroInv

LEMMA QuadroCmd == QuadroInv /\ oled_write_cmd => QuadroInv'
<1> SUFFICES ASSUME QuadroInv, oled_write_cmd PROVE QuadroInv'
  OBVIOUS
<1>1. /\ opc = "cmd" /\ etapa \in 1 .. 3 /\ opc' \in {"cmd", "dados"} /\ AtrasoInv /\ AtrasoInv' /\ ChipTipos
      /\ UNCHANGED <<pagina, pedaco, byte, tela, obedece>> /\ pagina \in Paginas /\ pedaco = 0 /\ byte = 0
      /\ FlushTipos
  BY AtrasoCmd DEF oled_write_cmd, QuadroInv, AtrasoInv, FlushTipos, vezVars
<1>2. CASE Falhou
  BY <1>1, <1>2, QuadroFalha
<1>3. CASE Deu /\ ~Falhou
  <2>1. PICK b \in Nat : b = CMD_PAGINA(etapa) /\ b \notin ARGUMENTADOS /\ Registro(b) = NENHUM /\ Comanda(b)
    BY <1>1, <1>3, ComandosPagina DEF oled_write_cmd
  <2>2. \/ etapa < 3 /\ etapa' = etapa + 1 /\ opc' = "cmd"
        \/ etapa = 3 /\ opc' = "dados"
    BY <1>1 DEF oled_write_cmd
  <2>3. falhas_q' = falhas_q /\ fora' = fora /\ engoliu' = (engoliu \/ espera # NENHUM)
    BY <1>3 DEF Deu, oled_write_cmd
  <2>4. espera' = NENHUM
    BY <2>1 DEF Comanda
  <2>5. espera # NENHUM => ponteiro' = ponteiro
    BY <2>1 DEF Comanda
  <2>6. espera = NENHUM => Aponta(b) /\ Modo' = Modo
    BY <1>1, <2>1, ModoComanda, Registros DEF Comanda
  <2>7. Limpo'
    BY <2>4 DEF Limpo
  <2>8. ~fora' => NaOrigem'
    BY <1>1, <2>4 DEF NaOrigem, NENHUM
  <2>9. ~fora' /\ Preso' => Trilho'
    <3> SUFFICES ASSUME ~fora, Preso' PROVE Trilho'
      BY <2>3
    <3>1. falhas_q = 0 /\ Limpo
      BY <1>1 DEF QuadroInv, AtrasoInv, FlushTipos
    <3>2. ponteiro' = ponteiro /\ ponteiro = <<pagina, 0, 0>>
      <4>1. CASE espera = \h20
        <5>1. pagina = 0 /\ ponteiro = ORIGEM
          BY <1>1, <3>1, <4>1 DEF Limpo, QuadroInv, NaOrigem, NENHUM
        <5> QED
          BY <2>5, <4>1, <5>1 DEF ORIGEM, NENHUM
      <4>2. CASE espera # \h20
        <5>1. Preso
          BY <1>1, <2>1, <4>2, ModoComanda DEF Preso
        <5>2. ponteiro = <<pagina, 0, 0>>
          BY <1>1, <5>1 DEF QuadroInv, Trilho
        <5>3. ponteiro' = ponteiro
          BY <2>5, <2>6, <5>1 DEF Aponta, Preso
        <5> QED
          BY <5>2, <5>3
      <4> QED
        BY <4>1, <4>2
    <3> QED
      BY <1>1, <3>2 DEF Trilho, Vez
  <2>10. falhas_q = 0 /\ ~engoliu' /\ Guiado' => Mira'
    <3> SUFFICES ASSUME falhas_q = 0, ~engoliu', Guiado' PROVE Mira'
      OBVIOUS
    <3>1. espera = NENHUM /\ ~engoliu /\ Guiado /\ Mira
      BY <1>1, <2>3, <2>6, <1>3 DEF Guiado, QuadroInv
    <3>2. PICK p \in Paginas, c \in Pecas, k \in Colunas : ponteiro = <<p, c, k>>
      BY <1>1 DEF ChipTipos, Lugares
    <3>3. Aponta(b) /\ ~(Modo # "pagina" /\ ~obedece)
      BY <2>6, <3>1 DEF Guiado
    <3>4. CASE etapa = 1
      <4>1. b = \hB0 + pagina /\ pagina \in 0 .. PAGINAS - 1
        BY <1>1, <2>1, <3>4 DEF CMD_PAGINA, Paginas
      <4>2. ponteiro' = <<pagina, c, k>>
        BY <3>2, <3>3, <4>1, OledAssumption DEF Aponta
      <4>3. etapa' = 2 /\ opc' = "cmd"
        BY <2>2, <3>4
      <4> QED
        BY <1>1, <4>2, <4>3 DEF Mira
    <3>5. CASE etapa = 2
      <4>1. b = 0
        BY <2>1, <3>5 DEF CMD_PAGINA
      <4>2. 0 % PEDACO = 0
        BY OledAssumption
      <4>3. ponteiro' = <<p, c, 0>>
        BY <3>2, <3>3, <4>1, <4>2 DEF Aponta
      <4>4. etapa' = 3 /\ opc' = "cmd" /\ p = pagina
        BY <1>1, <2>2, <3>1, <3>2, <3>5 DEF Mira
      <4> QED
        BY <1>1, <4>3, <4>4 DEF Mira
    <3>6. CASE etapa = 3
      <4>1. b = \h10
        BY <2>1, <3>6 DEF CMD_PAGINA
      <4>2. (b - \h10) % PEDACOS = 0
        BY <4>1, OledAssumption
      <4>3. ponteiro' = <<p, 0, k>>
        BY <3>2, <3>3, <4>1, <4>2 DEF Aponta
      <4>4. opc' = "dados" /\ p = pagina /\ k = 0
        BY <1>1, <2>2, <3>1, <3>2, <3>6 DEF Mira
      <4> QED
        BY <1>1, <4>3, <4>4 DEF Mira, Vez
    <3> QED
      BY <1>1, <3>4, <3>5, <3>6
  <2>11. falhas_q = 0 /\ Certo' => Feito'
    <3> SUFFICES ASSUME falhas_q = 0, Certo' PROVE Feito'
      OBVIOUS
    <3>1. \A l \in Lugares : Antes(l)' => Antes(l)
      BY <1>1 DEF Antes
    <3>2. CASE pagina = 0
      <4>1. \A l \in Lugares : ~Antes(l)
        BY <1>1, <3>2, NadaAntes
      <4> QED
        BY <1>1, <3>1, <4>1 DEF Feito
    <3>3. CASE pagina # 0
      <4>1. espera = NENHUM
        BY <1>1, <3>3 DEF QuadroInv, Limpo
      <4>2. Certo
        BY <1>1, <2>3, <2>6, <4>1 DEF Certo, Guiado, Preso
      <4>3. Feito
        BY <4>2 DEF QuadroInv
      <4> QED
        BY <1>1, <3>1, <4>3 DEF Feito
    <3> QED
      BY <3>2, <3>3
  <2> QED
    BY <1>1, <2>3, <2>7, <2>8, <2>9, <2>10, <2>11 DEF QuadroInv
<1> QED
  BY <1>2, <1>3 DEF oled_write_cmd

\* The piece goes on: the pointer keeps up with it.
LEMMA VezSegue ==
  ASSUME AtrasoInv, opc = "dados", Modo # "vertical", ponteiro = Vez, ponteiro' = Avanca,
         \/ byte < PEDACO - 1 /\ byte' = byte + 1 /\ pedaco' = pedaco
         \/ ~(byte < PEDACO - 1) /\ pedaco < PEDACOS - 1 /\ pedaco' = pedaco + 1 /\ byte' = 0,
         pagina' = pagina
  PROVE  /\ ponteiro' = <<pagina, pedaco', byte'>>
         /\ \A l \in Lugares : Antes(l)' => Antes(l) \/ l = Vez
<1>1. pedaco \in Pecas /\ byte \in Colunas
  BY DEF AtrasoInv, FlushTipos
<1>2. pedaco \in Nat /\ byte \in Nat /\ pedaco < PEDACOS /\ byte < PEDACO
  BY <1>1, Tamanhos
<1>3. PICK i, n : i = pedaco' /\ n = byte'
  OBVIOUS
<1>4. ColunaSeguinte(pedaco, byte) = <<i, n>> /\ <<i, n>> # <<0, 0>>
  BY <1>2, <1>3 DEF ColunaSeguinte
<1>5. ponteiro' = <<pagina, i, n>>
  BY <1>4 DEF Avanca, Vez, Modo
<1>6. ASSUME NEW l \in Lugares, Antes(l)'
      PROVE  Antes(l) \/ l = Vez
  <2>1. \/ l[1] < pagina
        \/ l[1] = pagina /\ l[2] < i
        \/ l[1] = pagina /\ l[2] = i /\ l[3] < n
    BY <1>3, <1>6 DEF Antes
  <2>2. /\ l[1] \in Nat /\ l[2] \in Nat /\ l[3] \in Nat /\ l[3] < PEDACO
        /\ l = <<l[1], l[2], l[3]>>
    BY CoordenadasLugar
  <2>3. CASE byte < PEDACO - 1
    <3>1. i = pedaco /\ n = byte + 1
      BY <1>3, <2>3
    <3>2. Antes(l) \/ (l[1] = pagina /\ l[2] = pedaco /\ l[3] = byte)
      BY <1>2, <2>1, <2>2, <3>1 DEF Antes
    <3> QED
      BY <2>2, <3>2 DEF Vez
  <2>4. CASE ~(byte < PEDACO - 1)
    <3>1. i = pedaco + 1 /\ n = 0 /\ byte = PEDACO - 1 /\ PEDACO \in Nat
      BY <1>2, <1>3, <2>4, Tamanhos
    <3>2. l[1] < pagina \/ (l[1] = pagina /\ l[2] < pedaco) \/ (l[1] = pagina /\ l[2] = pedaco)
      BY <1>2, <2>1, <2>2, <3>1
    <3>3. l[3] < byte \/ l[3] = byte
      BY <1>2, <2>2, <3>1
    <3>4. Antes(l) \/ (l[1] = pagina /\ l[2] = pedaco /\ l[3] = byte)
      BY <3>2, <3>3 DEF Antes
    <3> QED
      BY <2>2, <3>4 DEF Vez
  <2> QED
    BY <2>3, <2>4
<1> QED
  BY <1>3, <1>5, <1>6

\* The page ends: the pointer goes back in it, or on to the next one.
LEMMA VezAcaba ==
  ASSUME AtrasoInv, opc = "dados", Modo # "vertical", ponteiro = Vez, ponteiro' = Avanca,
         ~(byte < PEDACO - 1), ~(pedaco < PEDACOS - 1)
  PROVE  /\ Modo = "horizontal" => ponteiro' = IF pagina < PAGINAS - 1 THEN <<pagina + 1, 0, 0>> ELSE ORIGEM
         /\ \A l \in Lugares : l[1] <= pagina => Antes(l) \/ l = Vez
<1>1. pedaco \in Pecas /\ byte \in Colunas /\ pagina \in Paginas
  BY DEF AtrasoInv, FlushTipos
<1>2. /\ pedaco \in Nat /\ byte \in Nat /\ pedaco = PEDACOS - 1 /\ byte = PEDACO - 1
      /\ pagina \in Nat /\ pagina < PAGINAS /\ PEDACOS \in Nat /\ PEDACO \in Nat /\ PAGINAS \in Nat
  BY <1>1, Tamanhos
<1>3. Modo = "horizontal" => ponteiro' = IF pagina < PAGINAS - 1 THEN <<pagina + 1, 0, 0>> ELSE ORIGEM
  <2> SUFFICES ASSUME Modo = "horizontal"
               PROVE  ponteiro' = IF pagina < PAGINAS - 1 THEN <<pagina + 1, 0, 0>> ELSE ORIGEM
    OBVIOUS
  <2>1. ColunaSeguinte(pedaco, byte) = <<0, 0>>
    BY DEF ColunaSeguinte
  <2>2. ponteiro' = <<(pagina + 1) % PAGINAS, 0, 0>>
    BY <2>1 DEF Avanca, Vez
  <2>3. (pagina + 1) % PAGINAS = IF pagina < PAGINAS - 1 THEN pagina + 1 ELSE 0
    BY <1>2
  <2> QED
    BY <2>2, <2>3 DEF ORIGEM
<1>4. ASSUME NEW l \in Lugares, l[1] <= pagina
      PROVE  Antes(l) \/ l = Vez
  <2>1. /\ l[1] \in Nat /\ l[2] \in Nat /\ l[3] \in Nat /\ l[2] < PEDACOS /\ l[3] < PEDACO
        /\ l = <<l[1], l[2], l[3]>>
    BY CoordenadasLugar
  <2>2. l[1] < pagina \/ l[1] = pagina
    BY <1>2, <1>4, <2>1
  <2>3. l[2] < pedaco \/ l[2] = pedaco
    BY <1>2, <2>1
  <2>4. l[3] < byte \/ l[3] = byte
    BY <1>2, <2>1
  <2> QED
    BY <2>1, <2>2, <2>3, <2>4 DEF Antes, Vez
<1> QED
  BY <1>3, <1>4

LEMMA QuadroDados == QuadroInv /\ oled_write_data => QuadroInv'
<1> SUFFICES ASSUME QuadroInv, oled_write_data PROVE QuadroInv'
  OBVIOUS
<1>1. /\ opc = "dados" /\ AtrasoInv /\ AtrasoInv' /\ ChipTipos /\ FlushTipos
      /\ pagina \in Paginas /\ pedaco \in Pecas /\ byte \in Colunas
      /\ engoliu' = engoliu /\ ajustes' = ajustes /\ espera' = espera /\ obedece' = obedece
  BY AtrasoDados DEF oled_write_data, QuadroInv, AtrasoInv, FlushTipos
<1>2. CASE Falhou
  BY <1>1, <1>2, QuadroFalha
<1>3. CASE Escreve(Vez) /\ Deu /\ ProximoByte
  <2>1. /\ falhas_q' = falhas_q /\ fora' = fora
        /\ (Preso' <=> Preso) /\ (Guiado' <=> Guiado) /\ (Certo' <=> Certo)
    BY <1>1, <1>3, ModoFica DEF Deu, Preso, Guiado, Certo
  <2>2. Vez \in Lugares
    BY <1>1 DEF Vez, Lugares
  <2>3. tela'[ponteiro] = Vez /\ ponteiro' = Avanca /\ \A l \in Lugares : l # ponteiro => tela'[l] = tela[l]
    BY <1>1, <1>3, <2>2, EscreveLugar
  <2>4. opc' \in {"cmd", "dados", "mostra"} /\ (opc' = "cmd" => etapa' = 1)
    BY <1>1, <1>3 DEF ProximoByte, ProximoPedaco, ProximaPagina
  <2>5. falhas_q = 0 => espera = NENHUM
    BY <1>1 DEF QuadroInv, Limpo
  <2>6. falhas_q = 0 => Limpo'
    BY <1>1, <2>5 DEF Limpo
  <2>7. ~fora => NaOrigem'
    <3>1. ~fora => falhas_q = 0
      BY <1>1 DEF FlushTipos
    <3> QED
      BY <1>1, <2>4, <2>5, <3>1 DEF NaOrigem, NENHUM
  \* From here on the byte goes to its place.
  <2>8. ASSUME ponteiro = Vez, Modo # "vertical"
        PROVE  (Preso => Trilho') /\ Mira' /\ (Feito => Feito')
    <3>1. ASSUME Feito, NEW l \in Lugares, Antes(l) \/ l = Vez
          PROVE  tela'[l] = l
      BY <1>1, <2>3, <2>8, <3>1 DEF Feito
    <3>2. CASE /\ UNCHANGED <<opc, s_ok, etapa, pagina>>
               /\ \/ byte < PEDACO - 1 /\ byte' = byte + 1 /\ pedaco' = pedaco
                  \/ ~(byte < PEDACO - 1) /\ pedaco < PEDACOS - 1 /\ pedaco' = pedaco + 1 /\ byte' = 0
      <4>1. /\ ponteiro' = <<pagina, pedaco', byte'>>
            /\ \A l \in Lugares : Antes(l)' => Antes(l) \/ l = Vez
        BY <1>1, <2>3, <2>8, <3>2, VezSegue
      <4>2. ponteiro' = Vez'
        BY <3>2, <4>1 DEF Vez
      <4> QED
        BY <1>1, <3>1, <3>2, <4>1, <4>2 DEF Trilho, Mira, Feito
    <3>3. CASE ~(byte < PEDACO - 1) /\ ~(pedaco < PEDACOS - 1) /\ ProximaPagina
      <4>1. /\ Preso => ponteiro' = IF pagina < PAGINAS - 1 THEN <<pagina + 1, 0, 0>> ELSE ORIGEM
            /\ \A l \in Lugares : l[1] <= pagina => Antes(l) \/ l = Vez
        BY <1>1, <2>3, <2>8, <3>3, VezAcaba DEF Preso
      <4>2. pagina \in Nat /\ PAGINAS \in Nat /\ pagina < PAGINAS
        BY <1>1, Tamanhos
      <4>3. CASE pagina < PAGINAS - 1
        <5>1. opc' = "cmd" /\ etapa' = 1 /\ pagina' = pagina + 1 /\ pedaco' = 0 /\ byte' = 0
          BY <3>3, <4>3 DEF ProximaPagina
        <5>2. Preso => Trilho'
          BY <4>1, <4>3, <5>1 DEF Trilho
        <5>3. Mira'
          BY <5>1 DEF Mira
        <5>4. Feito => Feito'
          <6> SUFFICES ASSUME Feito, NEW l \in Lugares, Antes(l)' PROVE tela'[l] = l
            BY <5>1 DEF Feito
          <6>1. /\ l[1] \in Nat /\ l[2] \in Nat /\ l[3] \in Nat
            BY CoordenadasLugar
          <6>2. l[1] <= pagina
            BY <4>2, <5>1, <6>1 DEF Antes
          <6> QED
            BY <3>1, <4>1, <6>2
        <5> QED
          BY <5>2, <5>3, <5>4
      <4>4. CASE ~(pagina < PAGINAS - 1)
        <5>1. opc' = "mostra"
          BY <3>3, <4>4 DEF ProximaPagina
        <5>2. (Preso => Trilho') /\ Mira'
          BY <4>1, <4>4, <5>1 DEF Trilho, Mira
        <5>3. Feito => Feito'
          <6> SUFFICES ASSUME Feito, NEW l \in Lugares PROVE tela'[l] = l
            BY <5>1 DEF Feito
          <6>1. l[1] <= pagina
            <7>1. l[1] \in Nat /\ l[1] < PAGINAS
              BY CoordenadasLugar
            <7> QED
              BY <4>2, <4>4, <7>1
          <6> QED
            BY <3>1, <4>1, <6>1
        <5> QED
          BY <5>2, <5>3
      <4> QED
        BY <4>3, <4>4
    <3> QED
      BY <1>3, <3>2, <3>3 DEF ProximoByte, ProximoPedaco
  <2>9. ~fora /\ Preso => Trilho'
    <3>1. ~fora /\ Preso => ponteiro = Vez /\ Modo # "vertical"
      BY <1>1 DEF QuadroInv, Trilho, Preso
    <3> QED
      BY <2>8, <3>1
  <2>10. falhas_q = 0 /\ ~engoliu /\ Guiado => ponteiro = Vez /\ Modo # "vertical"
    BY <1>1 DEF QuadroInv, Mira, Guiado
  <2>11. falhas_q = 0 /\ ~engoliu /\ Guiado => Mira'
    BY <2>8, <2>10
  <2>12. falhas_q = 0 /\ Certo => Feito'
    <3>1. falhas_q = 0 /\ Certo => ponteiro = Vez /\ Modo # "vertical" /\ Feito
      BY <1>1, <2>10 DEF QuadroInv, Certo, Trilho, Preso
    <3> QED
      BY <2>8, <3>1
  <2> QED
    BY <1>1, <2>1, <2>6, <2>7, <2>9, <2>11, <2>12 DEF QuadroInv
<1> QED
  BY <1>2, <1>3 DEF oled_write_data

LEMMA QuadroOutros ==
  QuadroInv /\ (oled_init_bus \/ oled_init_device \/ oled_show_status \/ Reinicia \/ UNCHANGED telaVars) => QuadroInv'
<1> SUFFICES ASSUME QuadroInv,
                    oled_init_bus \/ oled_init_device \/ oled_show_status \/ Reinicia \/ UNCHANGED telaVars
             PROVE  QuadroInv'
  OBVIOUS
<1>1. AtrasoInv /\ AtrasoInv' /\ FlushTipos
  BY AtrasoReinicia, AtrasoOutros DEF QuadroInv, AtrasoInv
<1>2. CASE oled_init_bus \/ oled_init_device
  <2>1. /\ opc \in {"bus", "device"} /\ opc' \in {"device", "comandos", "parado"}
        /\ ponteiro' = ponteiro /\ fora' = fora
    BY <1>2 DEF oled_init_bus, oled_init_device, chipVars
  <2>2. ~fora' => NaOrigem'
    BY <2>1 DEF QuadroInv, NaOrigem
  <2>3. Limpo' /\ Trilho' /\ Mira' /\ Feito'
    BY <2>1 DEF Limpo, Trilho, Mira, Feito
  <2> QED
    BY <1>1, <2>2, <2>3 DEF QuadroInv
<1>3. CASE oled_show_status
  <2>1. /\ opc = "mostra" /\ Quadro /\ fora' = fora /\ ponteiro' = ponteiro /\ espera' = espera
        /\ (Preso' <=> Preso)
    BY <1>3, ModoFica DEF oled_show_status, Preso
  <2>2. ~fora => NaOrigem' /\ (Preso => ponteiro' = ORIGEM)
    <3> SUFFICES ASSUME ~fora PROVE NaOrigem' /\ (Preso => ponteiro' = ORIGEM)
      OBVIOUS
    <3>1. espera = NENHUM
      BY <1>1, <2>1 DEF FlushTipos, QuadroInv, Limpo
    <3>2. Preso => ponteiro = ORIGEM
      BY <2>1 DEF QuadroInv, Trilho
    <3> QED
      BY <2>1, <3>1, <3>2 DEF Quadro, NaOrigem, NENHUM
  <2> QED
    BY <1>1, <2>1, <2>2, QuadroNovo
<1>4. CASE Reinicia
  <2>1. opc' = "bus" /\ (~fora' => ponteiro' = ORIGEM)
    BY <1>4 DEF Reinicia
  <2>2. ~fora' => NaOrigem'
    BY <2>1 DEF NaOrigem
  <2>3. Limpo' /\ Trilho' /\ Mira' /\ Feito'
    BY <2>1 DEF Limpo, Trilho, Mira, Feito
  <2> QED
    BY <1>1, <2>2, <2>3 DEF QuadroInv
<1>5. CASE UNCHANGED telaVars
  <2>1. /\ UNCHANGED <<opc, etapa, pagina, pedaco, byte, falhas_q, engoliu, fora, tela, ponteiro, espera>>
        /\ (Preso' <=> Preso) /\ (Guiado' <=> Guiado)
    BY <1>5, ModoFica DEF telaVars, vezVars, chipVars, Preso, Guiado
  <2>2. (Limpo' <=> Limpo) /\ (NaOrigem' <=> NaOrigem) /\ (Trilho' <=> Trilho) /\ (Mira' <=> Mira)
    BY <2>1 DEF Limpo, NaOrigem, Trilho, Mira, Vez
  <2>3. (Feito' <=> Feito) /\ (Certo' <=> Certo)
    BY <2>1 DEF Feito, Antes, Certo
  <2> QED
    BY <1>1, <2>1, <2>2, <2>3 DEF QuadroInv
<1> QED
  BY <1>2, <1>3, <1>4, <1>5

\* A frame sent without failures is shown whole and in its place, whatever failed
\* before it and wherever a restart cut a flush, but for the three cases that the
\* property excepts (oled.cpp:27-45, 214-221, 251-268).
THEOREM OledMostra == OledSpec => []QuadroMostrado
<1>1. QuadroInv /\ [OledNext]_telaVars => QuadroInv'
  BY QuadroComandos, QuadroCmd, QuadroDados, QuadroOutros DEF OledNext, oled_show_status_nada
<1>2. QuadroInv => QuadroMostrado
  <2> SUFFICES ASSUME QuadroInv, opc = "mostra", falhas_q = 0, ~engoliu, Modo # "vertical",
                      obedece \/ Modo = "pagina" \/ ~fora
               PROVE  \A l \in Lugares : tela[l] = l
    BY DEF QuadroMostrado
  <2>1. Modo \in {"horizontal", "vertical", "pagina"}
    BY DEF Modo
  <2>2. Certo
    BY <2>1 DEF Certo, Guiado, Preso
  <2> QED
    BY <2>2 DEF QuadroInv, Feito
<1> QED
  BY QuadroInicio, <1>1, <1>2, PTL DEF OledSpec

(***************************************************************************)
(* The lines of the display.  The error the loop keeps is the deviation of *)
(* its pixel, up to a constant; it stays within half of the longer side    *)
(* because a turn always goes along that side, and along the other only if *)
(* that brings it closer.                                                  *)
(***************************************************************************)
PontaTipo == ponta \in Int \X Int \X Int \X Int

\* How far a pixel is from the first end along each axis, and its distance to the
\* true line, times the length of the line.
PX(v) == (v[1] - ponta[1]) * SX
PY(v) == (v[2] - ponta[2]) * SY
Desvio(v) == PY(v) * DX + PX(v) * DY
\* How far it is along the longer side.
Longe(v) == IF DX = Maior THEN PX(v) ELSE PY(v)

\* In the rectangle of the ends, and at most half a pixel off the line.
Justo(v) ==
  /\ v \in Int \X Int
  /\ PX(v) \in 0 .. DX /\ PY(v) \in 0 .. -DY
  /\ -Maior <= 2 * Desvio(v) /\ 2 * Desvio(v) <= Maior

\* The loop keeps in erro how far its pixel is off the line, and every pixel before it
\* was less far along the longer side.
Caminho ==
  /\ lfim \in BOOLEAN
  /\ Justo(lpos)
  /\ erro = Desvio(lpos) + DX + DY
  /\ \A v \in visitados : Justo(v) /\ (~lfim => Longe(v) < Longe(lpos))
  /\ \A u, v \in visitados : u # v => Longe(u) # Longe(v)

\* The bits are those of the pixels on the screen.
Bits == aceso = {<<v[1] + (v[2] \div 8) * LARGURA, v[2] % 8>> : v \in {w \in visitados : Dentro(w[1], w[2])}}

LinhaInv == PontaTipo /\ Caminho /\ Bits

LEMMA ProdutoMonotono ==
  ASSUME NEW x \in Int, NEW y \in Int, NEW z \in Int, x <= y, 0 <= z
  PROVE  x * z <= y * z
  OBVIOUS

\* The cross product of two vectors, with the signs taken out.
LEMMA ProdutoDosSinais ==
  ASSUME NEW a \in Int, NEW b \in Int, NEW l \in Int, NEW c \in Int, NEW s \in {1, -1}, NEW t \in {1, -1}
  PROVE  (a * s) * (t * c) - (b * t) * (s * l) \in {b * l - a * c, -(b * l - a * c)}
<1>1. CASE s = 1 /\ t = 1
  BY <1>1
<1>2. CASE s = 1 /\ t = -1
  BY <1>2
<1>3. CASE s = -1 /\ t = 1
  BY <1>3
<1>4. CASE s = -1 /\ t = -1
  BY <1>4
<1> QED
  BY <1>1, <1>2, <1>3, <1>4

\* A point no further along the longer side than its end, and close to the line, is
\* within the shorter side too; and at the end of one it is at the end of the other.
LEMMA DentroDoRetangulo ==
  ASSUME NEW l \in Nat, NEW c \in Nat, l > 0,
         NEW a \in 0 .. l, NEW b \in Int,
         -l <= 2 * (b * l - a * c), 2 * (b * l - a * c) <= l
  PROVE  b \in 0 .. c /\ (a = l => b = c)
<1>1. 0 * c <= a * c /\ a * c <= l * c
  BY ProdutoMonotono
<1>2. b * l \in Int /\ a * c \in Int /\ c * l \in Int /\ l * c = c * l
  OBVIOUS
<1>3. b >= 0
  <2> SUFFICES ASSUME b <= -1 PROVE FALSE
    OBVIOUS
  <2>1. b * l <= (-1) * l
    BY ProdutoMonotono
  <2> QED
    BY <1>1, <1>2, <2>1
<1>4. b <= c
  <2> SUFFICES ASSUME c + 1 <= b PROVE FALSE
    OBVIOUS
  <2>1. (c + 1) * l <= b * l
    BY ProdutoMonotono
  <2>2. (c + 1) * l = c * l + l
    OBVIOUS
  <2> QED
    BY <1>1, <1>2, <2>1, <2>2
<1>5. a = l => b = c
  <2> SUFFICES ASSUME a = l, b <= c - 1 PROVE FALSE
    BY <1>4
  <2>1. b * l <= (c - 1) * l
    BY ProdutoMonotono
  <2>2. (c - 1) * l = c * l - l
    OBVIOUS
  <2> QED
    BY <1>1, <1>2, <2>1, <2>2
<1> QED
  BY <1>3, <1>4, <1>5

\* What a turn of the loop does to the deviation d, when the side l that is not the
\* shorter one is stepped along for sure, and the other, c, only if that helps.
LEMMA PassoDoDesvio ==
  ASSUME NEW l \in Nat, NEW c \in Nat, c <= l, NEW d \in Int, -l <= 2 * d, 2 * d <= l
  PROVE  /\ 2 * (d + l - c) >= -c
         /\ 2 * (d + l - c) <= l => -l <= 2 * (d - c + l) /\ 2 * (d - c + l) <= l
         /\ ~(2 * (d + l - c) <= l) => -l <= 2 * (d - c) /\ 2 * (d - c) <= l
  OBVIOUS

LEMMA Lados ==
  ASSUME PontaTipo
  PROVE  /\ DX \in Nat /\ -DY \in Nat /\ DY \in Int /\ SX \in {1, -1} /\ SY \in {1, -1}
         /\ Maior \in Nat /\ Maior >= DX /\ Maior >= -DY /\ (DX = Maior \/ -DY = Maior)
         /\ ponta[3] - ponta[1] = SX * DX /\ ponta[4] - ponta[2] = SY * (-DY)
<1>1. ponta[1] \in Int /\ ponta[2] \in Int /\ ponta[3] \in Int /\ ponta[4] \in Int
  BY DEF PontaTipo
<1>2. DX \in Nat /\ ponta[3] - ponta[1] = SX * DX /\ SX \in {1, -1}
  BY <1>1 DEF DX, SX, Mod
<1>3. -DY \in Nat /\ DY \in Int /\ ponta[4] - ponta[2] = SY * (-DY) /\ SY \in {1, -1}
  BY <1>1 DEF DY, SY, Mod
<1>4. Maior \in Nat /\ Maior >= DX /\ Maior >= -DY /\ (DX = Maior \/ -DY = Maior)
  BY <1>2, <1>3 DEF Maior
<1> QED
  BY <1>2, <1>3, <1>4

LEMMA Coordenadas ==
  ASSUME PontaTipo, NEW v \in Int \X Int
  PROVE  /\ v[1] \in Int /\ v[2] \in Int /\ v = <<v[1], v[2]>>
         /\ PX(v) \in Int /\ PY(v) \in Int /\ Desvio(v) \in Int
         /\ v[1] - ponta[1] = PX(v) * SX /\ v[2] - ponta[2] = PY(v) * SY
<1>1. ponta[1] \in Int /\ ponta[2] \in Int
  BY DEF PontaTipo
<1>2. v[1] \in Int /\ v[2] \in Int /\ v = <<v[1], v[2]>>
  OBVIOUS
<1>3. PX(v) \in Int /\ v[1] - ponta[1] = PX(v) * SX
  BY <1>1, <1>2, Lados DEF PX
<1>4. PY(v) \in Int /\ v[2] - ponta[2] = PY(v) * SY
  BY <1>1, <1>2, Lados DEF PY
<1>5. Desvio(v) \in Int
  BY <1>3, <1>4, Lados DEF Desvio
<1> QED
  BY <1>2, <1>3, <1>4, <1>5

\* A pixel as far as the longer side is long is the second end.
LEMMA NoFim ==
  ASSUME PontaTipo, NEW v, Justo(v), Longe(v) >= Maior
  PROVE  v = <<ponta[3], ponta[4]>>
<1>1. /\ v \in Int \X Int /\ PX(v) \in 0 .. DX /\ PY(v) \in 0 .. -DY
      /\ -Maior <= 2 * Desvio(v) /\ 2 * Desvio(v) <= Maior
  BY DEF Justo
<1>2. PX(v) = DX /\ PY(v) = -DY
  <2>1. CASE Maior = 0
    BY <1>1, <2>1, Lados
  <2>2. CASE Maior > 0 /\ DX = Maior
    <3>1. PX(v) = DX /\ PX(v) \in 0 .. DX /\ DX \in Nat /\ -DY \in Nat /\ DX > 0
      BY <1>1, <2>2, Lados DEF Longe
    <3>2. -DX <= 2 * (PY(v) * DX - PX(v) * (-DY)) /\ 2 * (PY(v) * DX - PX(v) * (-DY)) <= DX
      BY <1>1, <2>2, <3>1, Lados DEF Desvio
    <3> QED
      BY <1>1, <3>1, <3>2, DentroDoRetangulo
  <2>3. CASE Maior > 0 /\ DX # Maior
    <3>1. PY(v) = -DY /\ PY(v) \in 0 .. -DY /\ DX \in Nat /\ -DY \in Nat /\ -DY > 0 /\ -DY = Maior
      BY <1>1, <2>3, Lados DEF Longe
    <3>2. -(-DY) <= 2 * (PX(v) * (-DY) - PY(v) * DX) /\ 2 * (PX(v) * (-DY) - PY(v) * DX) <= -DY
      BY <1>1, <3>1, Lados DEF Desvio
    <3> QED
      BY <1>1, <3>1, <3>2, DentroDoRetangulo
  <2> QED
    BY <2>1, <2>2, <2>3, Lados
<1>3. /\ v[1] \in Int /\ v[2] \in Int /\ v = <<v[1], v[2]>>
      /\ v[1] - ponta[1] = PX(v) * SX /\ v[2] - ponta[2] = PY(v) * SY
  BY <1>1, Coordenadas
<1>4. ponta[3] - ponta[1] = SX * DX /\ ponta[4] - ponta[2] = SY * (-DY)
  BY Lados
<1>5. /\ ponta[1] \in Int /\ ponta[2] \in Int /\ ponta[3] \in Int /\ ponta[4] \in Int
      /\ DX \in Int /\ DY \in Int /\ SX \in Int /\ SY \in Int
  BY Lados DEF PontaTipo
<1>6. PX(v) * SX = SX * DX /\ PY(v) * SY = SY * (-DY)
  BY <1>2, <1>5
<1>7. v[1] - ponta[1] = ponta[3] - ponta[1] /\ v[2] - ponta[2] = ponta[4] - ponta[2]
  BY <1>3, <1>4, <1>6
<1>8. v[1] = ponta[3] /\ v[2] = ponta[4]
  BY <1>3, <1>5, <1>7
<1> QED
  BY <1>3, <1>8

\* One turn that does not end the loop goes one step along the longer side and stays
\* close to the line.
LEMMA Turno ==
  ASSUME PontaTipo, NEW v, Justo(v), v # <<ponta[3], ponta[4]>>,
         NEW e, e = Desvio(v) + DX + DY,
         NEW w, w = <<v[1] + IF 2 * e >= DY THEN SX ELSE 0, v[2] + IF 2 * e <= DX THEN SY ELSE 0>>
  PROVE  /\ Justo(w) /\ Longe(w) = Longe(v) + 1
         /\ e + (IF 2 * e >= DY THEN DY ELSE 0) + (IF 2 * e <= DX THEN DX ELSE 0) = Desvio(w) + DX + DY
<1> DEFINE anda == 2 * e >= DY
           sobe == 2 * e <= DX
           da == IF anda THEN 1 ELSE 0
           ds == IF sobe THEN 1 ELSE 0
<1>1. /\ v \in Int \X Int /\ PX(v) \in 0 .. DX /\ PY(v) \in 0 .. -DY
      /\ -Maior <= 2 * Desvio(v) /\ 2 * Desvio(v) <= Maior
  BY DEF Justo
<1>2. /\ DX \in Nat /\ -DY \in Nat /\ DY \in Int /\ SX \in {1, -1} /\ SY \in {1, -1}
      /\ Maior \in Nat /\ Maior >= DX /\ Maior >= -DY /\ (DX = Maior \/ -DY = Maior)
  BY Lados
<1>3. v[1] \in Int /\ v[2] \in Int /\ PX(v) \in Int /\ PY(v) \in Int /\ Desvio(v) \in Int
  BY <1>1, Coordenadas
<1>4. da \in {0, 1} /\ ds \in {0, 1}
  OBVIOUS
<1>5. w \in Int \X Int /\ w[1] = v[1] + da * SX /\ w[2] = v[2] + ds * SY
  BY <1>2, <1>3
<1>6. PX(w) = PX(v) + da
  <2>1. ponta[1] \in Int
    BY DEF PontaTipo
  <2>2. w[1] \in Int /\ w[1] = v[1] + da * SX /\ da \in Int
    BY <1>4, <1>5
  <2> HIDE DEF da
  <2>3. CASE SX = 1
    BY <1>3, <2>1, <2>2, <2>3 DEF PX
  <2>4. CASE SX = -1
    BY <1>3, <2>1, <2>2, <2>4 DEF PX
  <2> QED
    BY <1>2, <2>3, <2>4
<1>7. PY(w) = PY(v) + ds
  <2>1. ponta[2] \in Int
    BY DEF PontaTipo
  <2>2. w[2] \in Int /\ w[2] = v[2] + ds * SY /\ ds \in Int
    BY <1>4, <1>5
  <2> HIDE DEF ds
  <2>3. CASE SY = 1
    BY <1>3, <2>1, <2>2, <2>3 DEF PY
  <2>4. CASE SY = -1
    BY <1>3, <2>1, <2>2, <2>4 DEF PY
  <2> QED
    BY <1>2, <2>3, <2>4
<1>8. Desvio(w) = Desvio(v) + ds * DX + da * DY
  <2>1. Desvio(w) = (PY(v) + ds) * DX + (PX(v) + da) * DY
    BY <1>6, <1>7 DEF Desvio
  <2>2. (PY(v) + ds) * DX = PY(v) * DX + ds * DX /\ (PX(v) + da) * DY = PX(v) * DY + da * DY
    BY <1>2, <1>3, <1>4
  <2> QED
    BY <1>2, <1>3, <1>4, <2>1, <2>2 DEF Desvio
<1>9. e + (IF anda THEN DY ELSE 0) + (IF sobe THEN DX ELSE 0) = Desvio(w) + DX + DY
  <2>1. (IF anda THEN DY ELSE 0) = da * DY /\ (IF sobe THEN DX ELSE 0) = ds * DX
    BY <1>2
  <2> QED
    BY <1>2, <1>3, <1>4, <1>8, <2>1
<1>10. Longe(v) < Maior
  BY <1>1, <1>2, <1>3, NoFim DEF Longe
<1>11. CASE DX = Maior
  <2>1. 2 * e >= -(-DY) /\ e = Desvio(v) + DX - (-DY)
    BY <1>1, <1>2, <1>3, <1>11, PassoDoDesvio
  <2>2. da = 1
    BY <1>2, <2>1
  <2>3. -DX <= 2 * Desvio(w) /\ 2 * Desvio(w) <= DX
    <3>1. CASE sobe
      <4>1. 2 * (Desvio(v) + DX - (-DY)) <= DX /\ Desvio(w) = Desvio(v) - (-DY) + DX
        BY <1>2, <1>3, <1>8, <2>1, <2>2, <3>1
      <4> QED
        BY <1>1, <1>2, <1>3, <1>11, <4>1, PassoDoDesvio
    <3>2. CASE ~sobe
      <4>1. ~(2 * (Desvio(v) + DX - (-DY)) <= DX) /\ Desvio(w) = Desvio(v) - (-DY)
        BY <1>2, <1>3, <1>8, <2>1, <2>2, <3>2
      <4> QED
        BY <1>1, <1>2, <1>3, <1>11, <4>1, PassoDoDesvio
    <3> QED
      BY <3>1, <3>2
  <2>4. PX(w) \in 0 .. DX /\ Longe(w) = Longe(v) + 1
    BY <1>1, <1>2, <1>6, <1>10, <1>11, <2>2 DEF Longe
  <2>5. PY(w) \in 0 .. -DY
    <3>1. DX > 0
      BY <1>1, <1>2, <1>3, <1>10, <1>11 DEF Longe
    <3>2. PY(w) \in Int /\ PX(w) \in Int
      BY <1>3, <1>4, <1>6, <1>7
    <3>3. Desvio(w) = PY(w) * DX - PX(w) * (-DY)
      BY <1>2, <3>2 DEF Desvio
    <3> QED
      BY <1>2, <2>3, <2>4, <3>1, <3>2, <3>3, DentroDoRetangulo
  <2> QED
    BY <1>5, <1>9, <1>11, <2>3, <2>4, <2>5 DEF Justo
<1>12. CASE DX # Maior
  <2>0. -DY = Maior
    BY <1>2, <1>12
  <2>1. 2 * (-Desvio(v) + (-DY) - DX) >= -DX /\ e = Desvio(v) + DX - (-DY)
    BY <1>1, <1>2, <1>3, <2>0, PassoDoDesvio
  <2>2. ds = 1
    BY <1>2, <1>3, <2>1
  <2>3. -(-DY) <= 2 * (-Desvio(w)) /\ 2 * (-Desvio(w)) <= -DY
    <3>1. CASE anda
      <4>1. 2 * (-Desvio(v) + (-DY) - DX) <= -DY /\ -Desvio(w) = -Desvio(v) - DX + (-DY)
        BY <1>2, <1>3, <1>8, <2>1, <2>2, <3>1
      <4> QED
        BY <1>1, <1>2, <1>3, <2>0, <4>1, PassoDoDesvio
    <3>2. CASE ~anda
      <4>1. ~(2 * (-Desvio(v) + (-DY) - DX) <= -DY) /\ -Desvio(w) = -Desvio(v) - DX
        BY <1>2, <1>3, <1>8, <2>1, <2>2, <3>2
      <4> QED
        BY <1>1, <1>2, <1>3, <2>0, <4>1, PassoDoDesvio
    <3> QED
      BY <3>1, <3>2
  <2>4. PY(w) \in 0 .. -DY /\ Longe(w) = Longe(v) + 1
    BY <1>1, <1>2, <1>7, <1>10, <1>12, <2>0, <2>2 DEF Longe
  <2>5. PX(w) \in 0 .. DX
    <3>1. -DY > 0
      BY <1>1, <1>2, <1>3, <1>10, <1>12, <2>0 DEF Longe
    <3>2. PY(w) \in Int /\ PX(w) \in Int
      BY <1>3, <1>4, <1>6, <1>7
    <3>3. -Desvio(w) = PX(w) * (-DY) - PY(w) * DX
      BY <1>2, <3>2 DEF Desvio
    <3> QED
      BY <1>2, <2>3, <2>4, <3>1, <3>2, <3>3, DentroDoRetangulo
  <2>6. Desvio(w) \in Int
    BY <1>5, Coordenadas
  <2>7. -Maior <= 2 * Desvio(w) /\ 2 * Desvio(w) <= Maior
    BY <1>2, <2>0, <2>3, <2>6
  <2> QED
    BY <1>5, <1>9, <2>4, <2>5, <2>7 DEF Justo
<1> QED
  BY <1>11, <1>12

LEMMA CaminhoInicio ==
  ASSUME LinhaInit
  PROVE  PontaTipo /\ Caminho
<1>1. PontaTipo
  <2>1. Pontas \subseteq Int
    BY LinhaAssumption
  <2>2. ponta \in Pontas \X Pontas \X Pontas \X Pontas
    BY DEF LinhaInit
  <2> QED
    BY <2>1, <2>2 DEF PontaTipo
<1>2. lpos = <<ponta[1], ponta[2]>> /\ lpos \in Int \X Int
  BY <1>1 DEF LinhaInit, PontaTipo
<1>3. ponta[1] \in Int /\ ponta[2] \in Int
  BY <1>1 DEF PontaTipo
<1>4. PX(lpos) = 0 /\ PY(lpos) = 0
  <2>1. PX(lpos) = 0 * SX /\ PY(lpos) = 0 * SY
    BY <1>2, <1>3 DEF PX, PY
  <2> QED
    BY <1>1, <2>1, Lados
<1>5. Desvio(lpos) = 0
  BY <1>1, <1>4, Lados DEF Desvio
<1>6. Justo(lpos)
  BY <1>1, <1>2, <1>4, <1>5, Lados DEF Justo
<1>7. erro = Desvio(lpos) + DX + DY
  BY <1>1, <1>5, Lados DEF LinhaInit
<1> QED
  BY <1>1, <1>6, <1>7 DEF LinhaInit, Caminho, PontaTipo

LEMMA CaminhoPasso ==
  ASSUME PontaTipo, Caminho, oled_line
  PROVE  PontaTipo' /\ Caminho'
<1>1. ponta' = ponta /\ ~lfim /\ visitados' = visitados \cup {lpos}
  BY DEF oled_line
<1>2. PontaTipo'
  BY <1>1 DEF PontaTipo
<1>3. /\ Justo(lpos) /\ erro = Desvio(lpos) + DX + DY
      /\ \A v \in visitados : Justo(v) /\ Longe(v) < Longe(lpos)
      /\ \A u, v \in visitados : u # v => Longe(u) # Longe(v)
  BY <1>1 DEF Caminho
<1>4. Longe(lpos) \in Int /\ \A v \in visitados : Longe(v) \in Int
  BY <1>3, Coordenadas DEF Justo, Longe
<1>5. /\ \A v \in visitados' : Justo(v)
      /\ \A u, v \in visitados' : u # v => Longe(u) # Longe(v)
  BY <1>1, <1>3, <1>4
<1>6. PICK w : w = lpos'
  OBVIOUS
<1>7. Justo(w) /\ erro' = Desvio(w) + DX + DY
  <2>1. CASE lpos = <<ponta[3], ponta[4]>>
    BY <1>3, <1>6, <2>1 DEF oled_line
  <2>2. CASE lpos # <<ponta[3], ponta[4]>>
    <3>1. /\ lpos' = <<lpos[1] + IF 2 * erro >= DY THEN SX ELSE 0, lpos[2] + IF 2 * erro <= DX THEN SY ELSE 0>>
          /\ erro' = erro + (IF 2 * erro >= DY THEN DY ELSE 0) + (IF 2 * erro <= DX THEN DX ELSE 0)
      BY <2>2 DEF oled_line
    <3> QED
      BY <1>3, <1>6, <2>2, <3>1, Turno
  <2> QED
    BY <2>1, <2>2
<1>8. lfim' \in BOOLEAN /\ (~lfim' => \A v \in visitados' : Longe(v) < Longe(w))
  <2>1. lfim' = (lpos = <<ponta[3], ponta[4]>>)
    BY DEF oled_line
  <2>2. CASE lpos # <<ponta[3], ponta[4]>>
    <3>1. /\ lpos' = <<lpos[1] + IF 2 * erro >= DY THEN SX ELSE 0, lpos[2] + IF 2 * erro <= DX THEN SY ELSE 0>>
      BY <2>2 DEF oled_line
    <3>2. Longe(w) = Longe(lpos) + 1
      BY <1>3, <1>6, <2>2, <3>1, Turno
    <3>3. \A v \in visitados' : Longe(v) < Longe(w)
      BY <1>1, <1>3, <1>4, <3>2
    <3> QED
      BY <2>1, <3>3
  <2> QED
    BY <2>1, <2>2
<1>9. Justo(lpos)' /\ erro' = Desvio(lpos)' + DX' + DY'
  BY <1>1, <1>6, <1>7 DEF Justo, Desvio, PX, PY, Maior, DX, DY, SX, SY
<1>10. \A v \in visitados' : Justo(v)' /\ (~lfim' => Longe(v)' < Longe(lpos)')
  BY <1>1, <1>5, <1>6, <1>8 DEF Justo, Longe, Desvio, PX, PY, Maior, DX, DY, SX, SY
<1>11. \A u, v \in visitados' : u # v => Longe(u)' # Longe(v)'
  BY <1>1, <1>5 DEF Longe, PX, PY, Maior, DX, DY, SX, SY
<1> QED
  BY <1>2, <1>8, <1>9, <1>10, <1>11 DEF Caminho

LEMMA BitsPasso ==
  ASSUME Bits, oled_line
  PROVE  Bits'
<1>1. visitados' = visitados \cup {lpos} /\ oled_pixel(lpos[1], lpos[2])
  BY DEF oled_line
<1>2. CASE Dentro(lpos[1], lpos[2])
  BY <1>1, <1>2 DEF Bits, oled_pixel, Dentro
<1>3. CASE ~Dentro(lpos[1], lpos[2])
  BY <1>1, <1>3 DEF Bits, oled_pixel, Dentro
<1> QED
  BY <1>2, <1>3

LEMMA LinhaSempre == LinhaSpec => []LinhaInv
<1>1. LinhaInit => LinhaInv
  BY CaminhoInicio DEF LinhaInit, Bits, LinhaInv
<1>2. LinhaInv /\ [LinhaNext]_linhaVars => LinhaInv'
  <2> SUFFICES ASSUME PontaTipo, Caminho, Bits, [LinhaNext]_linhaVars
               PROVE  (PontaTipo /\ Caminho /\ Bits)'
    BY DEF LinhaInv
  <2>1. CASE oled_line
    BY <2>1, CaminhoPasso, BitsPasso
  <2>2. CASE UNCHANGED linhaVars
    BY <2>2 DEF linhaVars, PontaTipo, Caminho, Bits, Justo, Longe, Desvio, PX, PY, Maior, DX, DY, SX, SY
  <2> QED
    BY <2>1, <2>2 DEF LinhaNext, LinhaFim
<1> QED
  BY <1>1, <1>2, PTL DEF LinhaSpec

\* A pixel of the screen is a bit of the buffer.
LEMMA IndiceNoBuffer ==
  ASSUME NEW x, NEW y, Dentro(x, y)
  PROVE  x + (y \div 8) * LARGURA \in 0 .. (LARGURA * ALTURA) \div 8 - 1
<1> DEFINE k == ALTURA \div 8
           q == y \div 8
<1>1. LARGURA \in Nat /\ ALTURA \in Nat /\ x \in 0 .. LARGURA - 1 /\ y \in 0 .. ALTURA - 1 /\ ALTURA = 8 * k /\ k \in Nat
  BY LinhaAssumption DEF Dentro
<1>2. q \in 0 .. k - 1
  BY <1>1
<1>3. (LARGURA * ALTURA) \div 8 = k * LARGURA
  <2> HIDE DEF k
  <2>1. LARGURA * ALTURA = 8 * (k * LARGURA) /\ k * LARGURA \in Nat
    BY <1>1
  <2> QED
    BY <2>1
<1> HIDE DEF k, q
<1>4. q * LARGURA <= (k - 1) * LARGURA /\ 0 * LARGURA <= q * LARGURA
  BY <1>1, <1>2, ProdutoMonotono
<1>5. (k - 1) * LARGURA = k * LARGURA - LARGURA /\ 0 * LARGURA = 0 /\ q * LARGURA \in Int /\ k * LARGURA \in Int
  BY <1>1, <1>2
<1>6. x + q * LARGURA \in 0 .. k * LARGURA - 1
  BY <1>1, <1>4, <1>5
<1> QED
  BY <1>3, <1>6 DEF q

\* Whatever its ends, a line of oled_line is as close to the true one as pixels can be,
\* takes one step of the longer side at a time and never leaves the rectangle of its
\* ends; and the bits set are those of its pixels on the screen, all of them inside
\* the buffer (oled.cpp:51-85).
THEOREM LinhaFiel == LinhaSpec => []LinhaJusta
<1>1. LinhaInv => LinhaJusta
  <2> SUFFICES ASSUME PontaTipo, Caminho, Bits PROVE LinhaJusta
    BY DEF LinhaInv
  <2>1. ASSUME NEW v \in visitados
        PROVE  /\ 2 * Mod((v[1] - ponta[1]) * (ponta[4] - ponta[2]) - (v[2] - ponta[2]) * (ponta[3] - ponta[1])) <= Maior
               /\ Mod(v[1] - ponta[1]) <= DX /\ Mod(v[2] - ponta[2]) <= -DY
    <3>1. /\ v \in Int \X Int /\ PX(v) \in 0 .. DX /\ PY(v) \in 0 .. -DY
          /\ -Maior <= 2 * Desvio(v) /\ 2 * Desvio(v) <= Maior
      BY DEF Caminho, Justo
    <3>2. /\ PX(v) \in Int /\ PY(v) \in Int /\ Desvio(v) \in Int
          /\ v[1] - ponta[1] = PX(v) * SX /\ v[2] - ponta[2] = PY(v) * SY
      BY <3>1, Coordenadas
    <3>3. /\ DX \in Nat /\ -DY \in Nat /\ DY \in Int /\ SX \in {1, -1} /\ SY \in {1, -1} /\ Maior \in Nat
          /\ ponta[3] - ponta[1] = SX * DX /\ ponta[4] - ponta[2] = SY * (-DY)
      BY Lados
    <3>4. Mod(PX(v) * SX) <= DX /\ Mod(PY(v) * SY) <= -DY
      BY <3>1, <3>2, <3>3 DEF Mod
    <3>5. 2 * Mod((PX(v) * SX) * (SY * (-DY)) - (PY(v) * SY) * (SX * DX)) <= Maior
      <4>1. Desvio(v) = PY(v) * DX - PX(v) * (-DY)
        BY <3>2, <3>3 DEF Desvio
      <4>2. \A a, b, l, c \in Int : \A s, t \in {1, -1} :
              (a * s) * (t * c) - (b * t) * (s * l) \in {b * l - a * c, -(b * l - a * c)}
        BY ProdutoDosSinais
      <4>3. (PX(v) * SX) * (SY * (-DY)) - (PY(v) * SY) * (SX * DX)
               \in {PY(v) * DX - PX(v) * (-DY), -(PY(v) * DX - PX(v) * (-DY))}
        <5>1. DX \in Int /\ -DY \in Int
          BY <3>3
        <5> QED
          BY <3>2, <3>3, <4>2, <5>1, Zenon
      <4>4. (PX(v) * SX) * (SY * (-DY)) - (PY(v) * SY) * (SX * DX) \in {Desvio(v), -Desvio(v)}
        BY <4>1, <4>3, Zenon
      <4> QED
        BY <3>1, <3>2, <3>3, <4>4 DEF Mod
    <3> QED
      BY <3>2, <3>3, <3>4, <3>5
  <2>2. ASSUME NEW u \in visitados, NEW v \in visitados, u # v
        PROVE  IF DX = Maior THEN u[1] # v[1] ELSE u[2] # v[2]
    BY <2>2 DEF Caminho, Longe, PX, PY
  <2>3. ASSUME NEW a \in aceso
        PROVE  a[1] \in 0 .. (LARGURA * ALTURA) \div 8 - 1
    <3>1. PICK v \in visitados : Dentro(v[1], v[2]) /\ a = <<v[1] + (v[2] \div 8) * LARGURA, v[2] % 8>>
      BY DEF Bits
    <3> QED
      BY <3>1, IndiceNoBuffer
  <2> QED
    BY <2>1, <2>2, <2>3 DEF LinhaJusta, Bits
<1> QED
  BY <1>1, LinhaSempre, PTL

(***************************************************************************)
(* The Wi-Fi station.  The queue is what carries the argument: it is empty *)
(* while the station is on its way to an address, holds STA_GOT_IP at most *)
(* when it has one, and ends with STA_START or STA_DISCONNECTED exactly    *)
(* while it is idle.                                                       *)
(***************************************************************************)
Ev(tipo, e) == [tipo |-> tipo, ip |-> e]
Start       == Ev("STA_START", SEM_IP)
Perda       == Ev("STA_DISCONNECTED", SEM_IP)
Obteve(e)   == Ev("STA_GOT_IP", e)

Ips == Enderecos \cup {SEM_IP}

Tipos ==
  /\ s_connected \in BOOLEAN /\ ap \in BOOLEAN
  /\ s_ip \in Ips /\ ip \in Ips
  /\ apc \in {"init", "espera_wifi", "tarefas_criadas"}

\* The flag is down and the address cleared.
Baixada == s_connected = FALSE /\ s_ip = SEM_IP

\* The queue and the address for each state of the station.
Parada    == sta = "parada" /\ fila = <<>> /\ apc = "init" /\ ip = SEM_IP /\ Baixada
Ociosa    == /\ sta = "ociosa" /\ ip = SEM_IP
             /\ \/ fila = <<Start>>
                \/ fila = <<Perda>>
                \/ \E e \in Enderecos : fila = <<Obteve(e), Perda>>
ACaminho  == sta \in {"associando", "associada"} /\ fila = <<>> /\ ip = SEM_IP /\ Baixada
ComIp     == /\ sta = "com_ip" /\ ip \in Enderecos
             /\ \/ fila = <<>> /\ s_connected = TRUE /\ s_ip = ip
                \/ fila = <<Obteve(ip)>>
Fila    == Parada \/ Ociosa \/ ACaminho \/ ComIp
Partida == apc = "init" => sta = "parada"

\* How far the handler is with the event it has.
Livre   == hpc = "livre" /\ (fila # <<>> /\ Head(fila).tipo # "STA_DISCONNECTED" => Baixada)
Escrito == /\ hpc = "endereco_escrito" /\ fila # <<>> /\ Head(fila).tipo = "STA_GOT_IP"
           /\ s_connected = FALSE /\ s_ip = Head(fila).ip
Baixou  == hpc = "flag_baixada" /\ fila = <<Perda>> /\ s_connected = FALSE
Limpou  == hpc = "conecta" /\ fila = <<Perda>> /\ Baixada
Tratando == Livre \/ Escrito \/ Baixou \/ Limpou

IInv == Tipos /\ Fila /\ Partida /\ Tratando /\ FlagComEndereco

(***************************************************************************)
(* Facts about the short queues.                                           *)
(***************************************************************************)
Evs == [tipo : {"STA_START", "STA_DISCONNECTED", "STA_GOT_IP"}, ip : Ips]

LEMMA Curtas ==
  ASSUME NEW S, NEW a \in S, NEW b \in S
  PROVE  /\ <<a>> # <<>> /\ Head(<<a>>) = a /\ Tail(<<a>>) = <<>> /\ Append(<<>>, a) = <<a>>
         /\ <<a, b>> # <<>> /\ Head(<<a, b>>) = a /\ Tail(<<a, b>>) = <<b>> /\ Append(<<a>>, b) = <<a, b>>
<1>1. <<a>> # <<>> /\ Head(<<a>>) = a
  OBVIOUS
<1>2. Tail(<<a>>) = <<>>
  OBVIOUS
<1>3. Append(<<>>, a) = <<a>>
  OBVIOUS
<1>4. <<a, b>> # <<>> /\ Head(<<a, b>>) = a
  OBVIOUS
<1>5. Tail(<<a, b>>) = <<b>>
  OBVIOUS
<1>6. Append(<<a>>, b) = <<a, b>>
  <2>1. <<a>> \in Seq(S) /\ Len(<<a>>) = 1 /\ <<a, b>> \in Seq(S) /\ Len(<<a, b>>) = 2
    OBVIOUS
  <2>2. /\ Append(<<a>>, b) \in Seq(S)
        /\ Len(Append(<<a>>, b)) = 2
        /\ \A i \in 1 .. 2 : Append(<<a>>, b)[i] = IF i <= 1 THEN <<a>>[i] ELSE b
    BY <2>1, AppendProperties
  <2>3. \A i \in 1 .. 2 : Append(<<a>>, b)[i] = <<a, b>>[i]
    BY <2>2
  <2> QED
    BY <2>1, <2>2, <2>3, SeqEqual
<1> QED
  BY <1>1, <1>2, <1>3, <1>4, <1>5, <1>6

LEMMA Eventos ==
  /\ Start.tipo = "STA_START" /\ Start.ip = SEM_IP
  /\ Perda.tipo = "STA_DISCONNECTED" /\ Perda.ip = SEM_IP
  /\ Start \in Evs /\ Perda \in Evs
  /\ \A e \in Enderecos : Obteve(e).tipo = "STA_GOT_IP" /\ Obteve(e).ip = e /\ Obteve(e) \in Evs
BY DEF Start, Perda, Obteve, Ev, Evs, Ips

\* What the handler finds at the head of each queue, and leaves behind it.
LEMMA Cabecas ==
  /\ Head(<<Start>>) = Start /\ Tail(<<Start>>) = <<>>
  /\ Head(<<Perda>>) = Perda /\ Tail(<<Perda>>) = <<>>
  /\ \A e \in Enderecos :
       /\ Head(<<Obteve(e)>>) = Obteve(e) /\ Tail(<<Obteve(e)>>) = <<>>
       /\ Head(<<Obteve(e), Perda>>) = Obteve(e) /\ Tail(<<Obteve(e), Perda>>) = <<Perda>>
BY Curtas, Eventos

\* What the driver leaves in the queue when it posts an event.
LEMMA Postas ==
  /\ Append(<<>>, Start) = <<Start>> /\ Append(<<>>, Perda) = <<Perda>>
  /\ \A e \in Enderecos : /\ Append(<<>>, Obteve(e)) = <<Obteve(e)>>
                          /\ Append(<<Obteve(e)>>, Perda) = <<Obteve(e), Perda>>
<1>1. Append(<<>>, Start) = <<Start>> /\ Append(<<>>, Perda) = <<Perda>>
  BY Curtas, Eventos
<1>2. ASSUME NEW e \in Enderecos
      PROVE  /\ Append(<<>>, Obteve(e)) = <<Obteve(e)>>
             /\ Append(<<Obteve(e)>>, Perda) = <<Obteve(e), Perda>>
  <2>1. Obteve(e) \in Evs /\ Perda \in Evs
    BY Eventos
  <2> QED
    BY <2>1, Curtas
<1> QED
  BY <1>1, <1>2

LEMMA InicioIInv == Init => IInv
<1> SUFFICES ASSUME Init PROVE IInv
  OBVIOUS
<1>1. Tipos /\ Partida /\ FlagComEndereco
  BY DEF Init, Tipos, Partida, FlagComEndereco, Ips
<1>2. Parada /\ Livre
  BY DEF Init, Parada, Livre, Baixada
<1> QED
  BY <1>1, <1>2 DEF IInv, Fila, Tratando

(***************************************************************************)
(* The driver.                                                             *)
(***************************************************************************)
LEMMA PassoAssocia == IInv /\ Associa => IInv'
<1> SUFFICES ASSUME IInv, Associa PROVE IInv'
  OBVIOUS
<1>1. Tipos' /\ Partida' /\ FlagComEndereco'
  BY DEF IInv, Associa, Tipos, Partida, FlagComEndereco
<1>2. ACaminho
  BY DEF IInv, Associa, Fila, Parada, Ociosa, ACaminho, ComIp
<1>3. ACaminho'
  BY <1>2 DEF Associa, ACaminho, Baixada
<1>4. Livre'
  BY <1>2 DEF IInv, Associa, ACaminho, Tratando, Livre, Escrito, Baixou, Limpou, Baixada
<1> QED
  BY <1>1, <1>3, <1>4 DEF IInv, Fila, Tratando

LEMMA PassoEndereca == IInv /\ Endereca => IInv'
<1> SUFFICES ASSUME IInv, Endereca PROVE IInv'
  OBVIOUS
<1>1. ACaminho
  BY DEF IInv, Endereca, Fila, Parada, Ociosa, ACaminho, ComIp
<1>2. PICK e \in Enderecos : ip' = e /\ Posta("STA_GOT_IP", e)
  BY DEF Endereca
<1>3. fila' = <<Obteve(e)>>
  BY <1>1, <1>2, Postas DEF ACaminho, Posta, Obteve, Ev
<1>4. Tipos' /\ Partida' /\ FlagComEndereco'
  BY <1>1, <1>2 DEF IInv, Endereca, Tipos, Ips, Partida, FlagComEndereco, ACaminho
<1>5. ComIp'
  BY <1>2, <1>3 DEF Endereca, ComIp
<1>6. hpc = "livre"
  BY <1>1 DEF IInv, ACaminho, Tratando, Livre, Escrito, Baixou, Limpou
<1>7. Livre'
  BY <1>1, <1>6 DEF Endereca, ACaminho, Livre, Baixada
<1> QED
  BY <1>4, <1>5, <1>7 DEF IInv, Fila, Tratando

LEMMA PassoCai == IInv /\ Cai => IInv'
<1> SUFFICES ASSUME IInv, Cai PROVE IInv'
  OBVIOUS
<1>1. Tipos' /\ Partida' /\ FlagComEndereco'
  BY DEF IInv, Cai, Tipos, Ips, Partida, FlagComEndereco
<1>2. fila' = Append(fila, Perda)
  BY DEF Cai, Posta, Perda, Ev
<1>3. CASE fila = <<>>
  <2>1. fila' = <<Perda>>
    BY <1>2, <1>3, Postas
  <2>2. hpc = "livre"
    BY <1>3 DEF IInv, Tratando, Livre, Escrito, Baixou, Limpou
  <2>3. Ociosa'
    BY <2>1 DEF Cai, Ociosa
  <2>4. Livre'
    BY <2>1, <2>2, Cabecas, Eventos DEF Cai, Livre
  <2> QED
    BY <1>1, <2>3, <2>4 DEF IInv, Fila, Tratando
<1>4. CASE fila # <<>>
  <2>1. ip \in Enderecos /\ fila = <<Obteve(ip)>>
    BY <1>4 DEF IInv, Cai, Fila, Parada, Ociosa, ACaminho, ComIp
  <2>2. fila' = <<Obteve(ip), Perda>>
    BY <1>2, <2>1, Postas
  <2>3. Ociosa'
    BY <2>1, <2>2 DEF Cai, Ociosa
  <2>4. Head(fila') = Head(fila) /\ Head(fila).tipo = "STA_GOT_IP" /\ fila' # <<>>
    BY <2>1, <2>2, Cabecas, Eventos
  <2>5. Livre \/ Escrito
    BY <2>1, Cabecas, Eventos DEF IInv, Tratando, Baixou, Limpou
  <2>6. Livre' \/ Escrito'
    BY <2>4, <2>5, <1>4 DEF Cai, Livre, Escrito, Baixada
  <2> QED
    BY <1>1, <2>3, <2>6 DEF IInv, Fila, Tratando
<1> QED
  BY <1>3, <1>4

LEMMA PassoApMuda == IInv /\ ApMuda => IInv'
BY DEF ApMuda, IInv, Tipos, Fila, Parada, Ociosa, ACaminho, ComIp, Partida, Tratando,
  Livre, Escrito, Baixou, Limpou, Baixada, FlagComEndereco

(***************************************************************************)
(* The handler.                                                            *)
(***************************************************************************)
\* With STA_GOT_IP at the head the station either still has that address or
\* has lost it since.
LEMMA FilaGotIp ==
  ASSUME IInv, fila # <<>>, Head(fila).tipo = "STA_GOT_IP"
  PROVE  \/ /\ sta = "com_ip" /\ ip \in Enderecos /\ fila = <<Obteve(ip)>>
         \/ /\ sta = "ociosa" /\ ip = SEM_IP
            /\ \E e \in Enderecos : fila = <<Obteve(e), Perda>>
BY Cabecas, Eventos DEF IInv, Fila, Parada, Ociosa, ACaminho, ComIp

LEMMA PassoGotIp == IInv /\ TrataGotIp => IInv'
<1> SUFFICES ASSUME IInv, TrataGotIp PROVE IInv'
  OBVIOUS
<1>1. fila # <<>> /\ Head(fila).tipo = "STA_GOT_IP" /\ UNCHANGED <<sta, ip, ap, apc>>
  BY DEF TrataGotIp, Trata
<1>2. \E e \in Enderecos : Head(fila) = Obteve(e) /\ Head(fila).ip = e
  BY <1>1, FilaGotIp, Cabecas, Eventos
<1>3. CASE hpc = "livre"
  <2>1. s_ip' = Head(fila).ip /\ s_connected' = s_connected /\ hpc' = "endereco_escrito" /\ fila' = fila
    BY <1>3 DEF TrataGotIp, Trata, PrimeiroDoGotIp
  <2>2. s_connected = FALSE
    BY <1>1, <1>3 DEF IInv, Tratando, Livre, Escrito, Baixou, Limpou, Baixada
  <2>3. Tipos' /\ Partida' /\ FlagComEndereco'
    BY <1>1, <1>2, <2>1, <2>2 DEF IInv, Tipos, Ips, Partida, FlagComEndereco
  <2>4. Ociosa' \/ ComIp'
    BY <1>1, <2>1, FilaGotIp DEF Ociosa, ComIp
  <2>5. Escrito'
    BY <1>1, <2>1, <2>2 DEF Escrito
  <2> QED
    BY <2>3, <2>4, <2>5 DEF IInv, Fila, Tratando
<1>4. CASE hpc = "endereco_escrito"
  <2>1. s_connected' = TRUE /\ s_ip' = s_ip /\ hpc' = "livre" /\ fila' = Tail(fila)
    BY <1>4 DEF TrataGotIp, Trata, Conclui
  <2>2. s_ip = Head(fila).ip
    BY <1>4 DEF IInv, Tratando, Livre, Escrito, Baixou, Limpou
  <2>3. Tipos' /\ Partida' /\ FlagComEndereco'
    BY <1>1, <1>2, <2>1, <2>2, RedeAssumption DEF IInv, Tipos, Ips, Partida, FlagComEndereco
  <2>4. CASE sta = "com_ip" /\ ip \in Enderecos /\ fila = <<Obteve(ip)>>
    <3>1. fila' = <<>> /\ s_ip = ip
      BY <2>1, <2>2, <2>4, Cabecas, Eventos
    <3>2. ComIp' /\ Livre'
      BY <1>1, <2>1, <2>4, <3>1 DEF ComIp, Livre
    <3> QED
      BY <2>3, <3>2 DEF IInv, Fila, Tratando
  <2>5. CASE sta = "ociosa" /\ ip = SEM_IP /\ \E e \in Enderecos : fila = <<Obteve(e), Perda>>
    <3>1. fila' = <<Perda>>
      BY <2>1, <2>5, Cabecas
    <3>2. Ociosa' /\ Livre'
      BY <1>1, <2>1, <2>5, <3>1, Cabecas, Eventos DEF Ociosa, Livre
    <3> QED
      BY <2>3, <3>2 DEF IInv, Fila, Tratando
  <2> QED
    BY <1>1, <2>4, <2>5, FilaGotIp
<1> QED
  BY <1>3, <1>4 DEF TrataGotIp, Trata

LEMMA PassoDisconnected == IInv /\ TrataDisconnected => IInv'
<1> SUFFICES ASSUME IInv, TrataDisconnected PROVE IInv'
  OBVIOUS
<1>1. /\ fila # <<>> /\ Head(fila).tipo = "STA_DISCONNECTED"
      /\ fila' = fila /\ sta' = sta /\ UNCHANGED <<ip, ap, apc>>
  BY DEF TrataDisconnected, Trata, BaixaFlag
<1>2. fila = <<Perda>> /\ sta = "ociosa" /\ ip = SEM_IP
  BY <1>1, Cabecas, Eventos DEF IInv, Fila, Parada, Ociosa, ACaminho, ComIp
<1>3. Ociosa'
  BY <1>1, <1>2 DEF Ociosa
<1>4. CASE hpc = "livre"
  <2>1. s_connected' = FALSE /\ hpc' = "flag_baixada" /\ s_ip' = s_ip
    BY <1>4 DEF TrataDisconnected, Trata, BaixaFlag
  <2>2. Tipos' /\ Partida' /\ FlagComEndereco'
    BY <1>1, <2>1 DEF IInv, Tipos, Partida, FlagComEndereco
  <2>3. Baixou'
    BY <1>1, <1>2, <2>1 DEF Baixou
  <2> QED
    BY <1>3, <2>2, <2>3 DEF IInv, Fila, Tratando
<1>5. CASE hpc = "flag_baixada"
  <2>1. s_ip' = SEM_IP /\ hpc' = "conecta" /\ s_connected' = s_connected
    BY <1>5 DEF TrataDisconnected, Trata
  <2>2. s_connected = FALSE
    BY <1>5 DEF IInv, Tratando, Livre, Escrito, Baixou, Limpou
  <2>3. Tipos' /\ Partida' /\ FlagComEndereco'
    BY <1>1, <2>1, <2>2 DEF IInv, Tipos, Ips, Partida, FlagComEndereco
  <2>4. Limpou'
    BY <1>1, <1>2, <2>1, <2>2 DEF Limpou, Baixada
  <2> QED
    BY <1>3, <2>3, <2>4 DEF IInv, Fila, Tratando
<1> QED
  BY <1>4, <1>5 DEF TrataDisconnected, Trata

LEMMA PassoConecta == IInv /\ Conecta => IInv'
<1> SUFFICES ASSUME IInv, Conecta PROVE IInv'
  OBVIOUS
<1>1. /\ hpc' = "livre" /\ fila' = Tail(fila) /\ UNCHANGED <<s_connected, s_ip, ip, ap, apc>>
      /\ sta' = IF sta = "ociosa" THEN "associando" ELSE sta
  BY DEF Conecta, Conclui, PedeConexao, esp_wifi_connect
<1>2. fila # <<>> /\ Head(fila).tipo \in {"STA_START", "STA_DISCONNECTED"}
  BY DEF Conecta, Trata
<1>3. sta = "ociosa" /\ ip = SEM_IP /\ (fila = <<Start>> \/ fila = <<Perda>>)
  BY <1>2, Cabecas, Eventos DEF IInv, Fila, Parada, Ociosa, ACaminho, ComIp
<1>4. Baixada
  BY <1>3, Cabecas, Eventos DEF Conecta, Trata, IInv, Tratando, Livre, Escrito, Baixou, Limpou
<1>5. fila' = <<>>
  BY <1>1, <1>3, Cabecas
<1>6. ACaminho' /\ Livre'
  BY <1>1, <1>3, <1>4, <1>5 DEF ACaminho, Livre, Baixada
<1>7. Tipos' /\ Partida' /\ FlagComEndereco'
  BY <1>1, <1>3, <1>4 DEF IInv, Tipos, Partida, FlagComEndereco, Baixada
<1> QED
  BY <1>6, <1>7 DEF IInv, Fila, Tratando

(***************************************************************************)
(* app_main.                                                               *)
(***************************************************************************)
LEMMA PassoPartida == IInv /\ netwifi_init => IInv'
<1> SUFFICES ASSUME IInv, netwifi_init PROVE IInv'
  OBVIOUS
<1>1. Parada
  BY DEF IInv, netwifi_init, Partida, Fila, Parada, Ociosa, ACaminho, ComIp
<1>2. fila' = <<Start>>
  BY <1>1, Postas DEF netwifi_init, Parada, Posta, Start, Ev
<1>3. hpc = "livre"
  BY <1>1 DEF IInv, Parada, Tratando, Livre, Escrito, Baixou, Limpou
<1>4. Ociosa' /\ Livre'
  BY <1>1, <1>2, <1>3 DEF netwifi_init, Parada, Ociosa, Livre, Baixada
<1>5. Tipos' /\ Partida' /\ FlagComEndereco'
  BY DEF IInv, netwifi_init, Tipos, Partida, FlagComEndereco
<1> QED
  BY <1>4, <1>5 DEF IInv, Fila, Tratando

LEMMA PassoCriaTarefas == IInv /\ CriaTarefas => IInv'
<1> SUFFICES ASSUME IInv, CriaTarefas PROVE IInv'
  OBVIOUS
<1>1. ~Parada /\ apc' = "tarefas_criadas"
  BY DEF CriaTarefas, Parada
<1>2. Fila' /\ Tratando'
  BY <1>1 DEF IInv, CriaTarefas, Fila, Parada, Ociosa, ACaminho, ComIp, Tratando,
    Livre, Escrito, Baixou, Limpou, Baixada
<1>3. Tipos' /\ Partida' /\ FlagComEndereco'
  BY <1>1 DEF IInv, CriaTarefas, Tipos, Partida, FlagComEndereco
<1> QED
  BY <1>2, <1>3 DEF IInv

LEMMA PassoParado == IInv /\ UNCHANGED vars => IInv'
BY DEF vars, IInv, Tipos, Fila, Parada, Ociosa, ACaminho, ComIp, Partida, Tratando,
  Livre, Escrito, Baixou, Limpou, Baixada, FlagComEndereco

\* The invariant holds whatever the access point does, for any addresses
\* (netwifi.cpp:17-47, main.cpp:312-347).
THEOREM RedeIndutivo == Spec => []IInv
<1>1. IInv /\ [Next]_vars => IInv'
  BY PassoAssocia, PassoEndereca, PassoCai, PassoApMuda, PassoGotIp, PassoDisconnected,
    PassoConecta, PassoPartida, PassoCriaTarefas, PassoParado DEF Next, event_handler
<1> QED
  BY InicioIInv, <1>1, PTL DEF Spec

(***************************************************************************)
(* What the invariant says of the properties the run checks.               *)
(***************************************************************************)
\* The types of the station, and a queue of at most one connection and its
\* loss (netwifi.cpp:14-47).
THEOREM RedeTipos == Spec => []TypeOK
<1>1. IInv => TypeOK
  <2> SUFFICES ASSUME IInv PROVE TypeOK
    OBVIOUS
  <2>1. /\ Len(fila) <= 2
        /\ \A i \in DOMAIN fila : fila[i] \in Evs
    <3>1. CASE fila = <<>>
      BY <3>1
    <3>2. CASE \E a \in Evs : fila = <<a>>
      BY <3>2
    <3>3. CASE \E a \in Evs, b \in Evs : fila = <<a, b>>
      BY <3>3
    <3> QED
      BY <3>1, <3>2, <3>3, Eventos DEF IInv, Fila, Parada, Ociosa, ACaminho, ComIp
  <2>2. hpc \in {"livre", "endereco_escrito", "flag_baixada", "conecta"}
    BY DEF IInv, Tratando, Livre, Escrito, Baixou, Limpou
  <2>3. sta \in {"parada", "ociosa", "associando", "associada", "com_ip"}
    BY DEF IInv, Fila, Parada, Ociosa, ACaminho, ComIp
  <2> QED
    BY <2>1, <2>2, <2>3 DEF IInv, Tipos, TypeOK, Evs, Ips
<1> QED
  BY <1>1, RedeIndutivo, PTL

\* An idle station is never forgotten (netwifi.cpp:23-33).
THEOREM RedeReconecta == Spec => []ReconexaoPendente
<1>1. IInv => ReconexaoPendente
  <2> SUFFICES ASSUME IInv, sta = "ociosa" PROVE ReconexaoPendente
    BY DEF ReconexaoPendente
  <2>1. Ociosa
    BY DEF IInv, Fila, Parada, Ociosa, ACaminho, ComIp
  <2>2. \/ 1 \in DOMAIN fila /\ fila[1] \in {Start, Perda}
        \/ 2 \in DOMAIN fila /\ fila[2] \in {Start, Perda}
    BY <2>1 DEF Ociosa
  <2> QED
    BY <2>2, Eventos DEF ReconexaoPendente
<1> QED
  BY <1>1, RedeIndutivo, PTL

\* With every event handled, flag and address tell the truth
\* (netwifi.cpp:28-46).
THEOREM RedeFiel == Spec => []EstadoFiel
<1>1. IInv => EstadoFiel
  BY DEF IInv, EstadoFiel, Fila, Parada, Ociosa, ACaminho, ComIp, Baixada
<1> QED
  BY <1>1, RedeIndutivo, PTL

\* A flag that is up never shows 0.0.0.0 (netwifi.cpp:29-30 and 39-43).
THEOREM RedeFlag == Spec => []FlagComEndereco
<1>1. IInv => FlagComEndereco
  BY DEF IInv
<1> QED
  BY <1>1, RedeIndutivo, PTL
=============================================================================
