--------------------------------- MODULE Oled ---------------------------------
(***************************************************************************)
(* src/oled.cpp: the start of the display and the transfer of its frames,  *)
(* over an I2C bus whose transfers may fail, whole or half way, and with   *)
(* restarts of the ESP32 at any step, which the display does not see.  The *)
(* display is Ssd1306; the lines drawn on it are in Linha.                 *)
(***************************************************************************)
EXTENDS Ssd1306, Sequences

CONSTANT MaxAzares    \* bound: commands of oled_init lost and restarts, together

VARIABLES
  opc,                    \* where oled_init or oled_flush is
  s_ok,
  etapa,                  \* command of oled_init, or of a page
  pagina, pedaco, byte,   \* the byte of s_buffer that comes next
  azares,
  perdeu,                 \* history: this oled_init lost a command
  falhas_q,               \* history: transfers that failed in this flush
  engoliu,                \* history: this flush met a display waiting for an argument
  fora                    \* history: a transfer of a flush failed, or a restart
                          \* found the pointer away from the first place

vezVars  == <<pagina, pedaco, byte>>
telaVars == <<opc, s_ok, etapa, vezVars, azares, perdeu, falhas_q, engoliu, fora, chipVars>>

OledInit ==
  /\ opc = "bus" /\ s_ok = FALSE
  /\ etapa = 0 /\ pagina = 0 /\ pedaco = 0 /\ byte = 0
  /\ azares = 0 /\ perdeu = FALSE /\ falhas_q = 0 /\ engoliu = FALSE /\ fora = FALSE
  /\ ChipInit

(***************************************************************************)
(* oled_init                                                               *)
(***************************************************************************)
\* Mutant: the argument that starts the charge pump is forgotten.
INIT_CMDS_sembomba ==
  << \hAE, \h20, \h00, \hB0, \hC8, \h00, \h10, \h40, \h81, \h7F, \hA1, \hA6, \hA8, \h3F,
     \hA4, \hD3, \h00, \hD5, \h80, \hD9, \hF1, \hDA, \h12, \hDB, \h40, \h8D, \hAF >>

INIT_CMDS ==
  << \hAE, \h20, \h00, \hB0, \hC8, \h00, \h10, \h40, \h81, \h7F, \hA1, \hA6, \hA8, \h3F,
     \hA4, \hD3, \h00, \hD5, \h80, \hD9, \hF1, \hDA, \h12, \hDB, \h40, \h8D, \h14, \hAF >>

Azar == azares < MaxAzares /\ azares' = azares + 1

\* The bus, and the device: s_ok stays false without either.
oled_init_bus ==
  /\ opc = "bus"
  /\ opc' \in {"device", "parado"}
  /\ UNCHANGED <<s_ok, etapa, vezVars, azares, perdeu, falhas_q, engoliu, fora, chipVars>>

oled_init_device ==
  /\ opc = "device"
  /\ \/ opc' = "comandos" /\ etapa' = 1
     \/ opc' = "parado" /\ UNCHANGED etapa
  /\ UNCHANGED <<s_ok, vezVars, azares, perdeu, falhas_q, engoliu, fora, chipVars>>

\* Another frame in s_buffer, nothing of which is shown, and its flush begins.
Quadro ==
  /\ tela' = Velha
  /\ opc' = "cmd" /\ etapa' = 1 /\ pagina' = 0 /\ pedaco' = 0 /\ byte' = 0
  /\ falhas_q' = 0 /\ engoliu' = FALSE

\* The commands, one by one; any of them may be lost, and nobody looks.  Then the
\* first flush.
oled_init_cmds ==
  /\ opc = "comandos"
  /\ \/ Comanda(INIT_CMDS[etapa]) /\ UNCHANGED <<perdeu, azares>>
     \/ Ignora /\ perdeu' = TRUE /\ Azar
  /\ IF etapa < Len(INIT_CMDS)
       THEN etapa' = etapa + 1 /\ UNCHANGED <<opc, vezVars, falhas_q, engoliu, tela>>
       ELSE Quadro
  /\ UNCHANGED <<s_ok, fora, obedece>>

(***************************************************************************)
(* oled_flush                                                              *)
(***************************************************************************)
Deu    == UNCHANGED <<falhas_q, fora>>
Falhou == falhas_q' = falhas_q + 1 /\ fora' = TRUE

\* Mutant: the column is not set again at each page.
CMD_PAGINA_semcoluna(e) == \hB0 + pagina

\* The page, then the low half of the column and the high half.
CMD_PAGINA(e) == IF e = 1 THEN \hB0 + pagina ELSE IF e = 2 THEN \h00 ELSE \h10

\* oled_write_cmd: a transfer that fails may have been obeyed.
oled_write_cmd ==
  /\ opc = "cmd"
  /\ \/ Comanda(CMD_PAGINA(etapa)) /\ (Deu \/ Falhou)
     \/ Ignora /\ Falhou
  /\ engoliu' = (engoliu \/ espera # NENHUM)
  /\ IF etapa < 3 THEN etapa' = etapa + 1 /\ UNCHANGED opc ELSE opc' = "dados" /\ UNCHANGED etapa
  /\ UNCHANGED <<s_ok, vezVars, azares, perdeu, tela, obedece>>

\* The next page, or the end of the flush, which in oled_init raises s_ok.
ProximaPagina ==
  /\ pedaco' = 0 /\ byte' = 0
  /\ IF pagina < PAGINAS - 1
       THEN opc' = "cmd" /\ pagina' = pagina + 1 /\ etapa' = 1 /\ UNCHANGED s_ok
       ELSE opc' = "mostra" /\ s_ok' = TRUE /\ UNCHANGED <<pagina, etapa>>

ProximoPedaco ==
  IF pedaco < PEDACOS - 1
    THEN pedaco' = pedaco + 1 /\ byte' = 0 /\ UNCHANGED <<opc, s_ok, etapa, pagina>>
    ELSE ProximaPagina

ProximoByte ==
  IF byte < PEDACO - 1
    THEN byte' = byte + 1 /\ UNCHANGED <<opc, s_ok, etapa, pagina, pedaco>>
    ELSE ProximoPedaco

Vez == <<pagina, pedaco, byte>>

\* Mutant: the pieces that follow one that failed are tried all the same.
oled_write_data_segue ==
  /\ opc = "dados"
  /\ \/ Escreve(Vez) /\ Deu /\ ProximoByte
     \/ /\ Escreve(Vez) \/ UNCHANGED <<tela, ponteiro>>
        /\ Falhou /\ ProximoPedaco
  /\ UNCHANGED <<azares, perdeu, engoliu, ajustes, espera, obedece>>

\* oled_write_data, byte by byte: a transfer may fail after any of its bytes, and
\* the first that fails ends the page.
oled_write_data ==
  /\ opc = "dados"
  /\ \/ Escreve(Vez) /\ Deu /\ ProximoByte
     \/ /\ Escreve(Vez) \/ UNCHANGED <<tela, ponteiro>>
        /\ Falhou /\ ProximaPagina
  /\ UNCHANGED <<azares, perdeu, engoliu, ajustes, espera, obedece>>

\* oled_show_status, called by the control task: another frame, and its flush.
oled_show_status ==
  /\ opc = "mostra" /\ s_ok
  /\ Quadro
  /\ UNCHANGED <<s_ok, azares, perdeu, fora, ponteiro, ajustes, espera, obedece>>

\* The ESP32 restarts, at any step, and the display stays as it was left.
Reinicia ==
  /\ opc # "bus"
  /\ opc' = "bus" /\ s_ok' = FALSE
  /\ etapa' = 0 /\ pagina' = 0 /\ pedaco' = 0 /\ byte' = 0
  /\ Azar /\ perdeu' = FALSE /\ falhas_q' = 0 /\ engoliu' = FALSE
  /\ fora' = (fora \/ ponteiro # ORIGEM)
  /\ tela' = Velha
  /\ UNCHANGED <<ponteiro, ajustes, espera, obedece>>

\* With s_ok false oled_show_status returns at once.
oled_show_status_nada == opc = "parado" /\ UNCHANGED telaVars

OledNext ==
  \/ oled_init_bus \/ oled_init_device \/ oled_init_cmds
  \/ oled_write_cmd \/ oled_write_data \/ oled_show_status \/ oled_show_status_nada
  \/ Reinicia

OledSpec == OledInit /\ [][OledNext]_telaVars

-----------------------------------------------------------------------------
\* The settings that oled_init asks for: on, its pump too, the right way up,
\* unshifted, in the horizontal mode (oled.cpp:251-256).
PEDIDOS ==
  [r \in REGISTROS |->
     CASE r = \h20 -> 0    [] r = \h81 -> \h7F [] r = \h8D -> \h14 [] r = \hA8 -> \h3F [] r = \hD3 -> 0
       [] r = \hD5 -> \h80 [] r = \hD9 -> \hF1 [] r = \hDA -> \h12 [] r = \hDB -> \h40
       [] r = \hA0 -> \hA1 [] r = \hAE -> \hAF [] r = \hC0 -> \hC8
       [] OTHER -> r]

\* A frame whose transfers all succeed is shown whole and in its place, whatever
\* failed before: commands of oled_init, transfers of earlier frames after any of
\* their bytes, a flush cut short by a restart.  Not so in three cases: a chip that
\* follows its manual, outside the page mode, recovers from no failure; a flush
\* may begin with the display still waiting for an argument; and six commands
\* lost in a row after 0x20 leave the vertical mode (oled.cpp:214-221, 258-265).
QuadroMostrado ==
  opc = "mostra" /\ falhas_q = 0 /\ ~engoliu /\ Modo # "vertical" /\ (obedece \/ Modo = "pagina" \/ ~fora) =>
    \A l \in Lugares : tela[l] = l

\* An oled_init that lost no command leaves the display on and as it asks for,
\* whatever a restart found it in, also waiting for an argument that then takes
\* 0xAE.  One that lost some, none of which it notices, may leave the display dark,
\* mirrored or shifted until the next restart (oled.cpp:251-268).
TelaAcesa ==
  opc \in {"cmd", "dados", "mostra"} /\ ~perdeu => ajustes = PEDIDOS

\* A display that never answers costs the control task at most four transfers
\* that time out in each page (oled.cpp:27-45): the bound of its stall.
AtrasoLimitado == falhas_q <= 4 * PAGINAS
=============================================================================
