------------------------------- MODULE Ssd1306 --------------------------------
(***************************************************************************)
(* The controller of the display (external), as src/oled.cpp uses it: its  *)
(* memory, the pointer that data advances, its settings, and the command   *)
(* that still waits for its argument.  It is powered with the ESP32 and    *)
(* has no reset pin: a restart of the ESP32 leaves it as it is.            *)
(*                                                                         *)
(* A page has PEDACOS pieces of PEDACO columns: a piece is what one high   *)
(* half of the column selects, and what one transfer of data takes.        *)
(*                                                                         *)
(* The manual gives the commands 0xB0, 0x00 and 0x10 no effect outside the *)
(* page mode, and chips are seen to obey them: obedece says which this is. *)
(***************************************************************************)
EXTENDS Integers

CONSTANTS
  PAGINAS,   \* 8
  PEDACOS,   \* 8
  PEDACO     \* 16

ASSUME OledAssumption == PAGINAS \in 1 .. 8 /\ PEDACOS \in 1 .. 8 /\ PEDACO \in 1 .. 16

VARIABLES
  tela,      \* the memory: what each place holds of the frame in s_buffer
  ponteiro,  \* the place where data goes
  ajustes,   \* the settings, each under the command that makes it
  espera,    \* the command that waits for its argument, or NENHUM
  obedece

chipVars == <<tela, ponteiro, ajustes, espera, obedece>>

Paginas == 0 .. PAGINAS - 1
Pecas   == 0 .. PEDACOS - 1
Colunas   == 0 .. PEDACO - 1
Lugares == Paginas \X Pecas \X Colunas
ORIGEM  == <<0, 0, 0>>

ANTIGO == <<>>       \* not of this frame
Velha == [l \in Lugares |-> ANTIGO]
NENHUM  == 0

\* The commands that take the next byte for their argument.
ARGUMENTADOS == {\h20, \h81, \h8D, \hA8, \hD3, \hD5, \hD9, \hDA, \hDB}
REGISTROS    == ARGUMENTADOS \cup {\h40, \hA0, \hA4, \hA6, \hAE, \hC0}

\* The setting that a command of one byte makes; NENHUM, if none.
Registro(b) ==
  CASE b \in \h40 .. \h7F -> \h40      \* start line
    [] b \in \hA0 .. \hA1 -> \hA0      \* left to right
    [] b \in \hA4 .. \hA5 -> \hA4      \* all lit
    [] b \in \hA6 .. \hA7 -> \hA6      \* inverted
    [] b \in \hAE .. \hAF -> \hAE      \* off, on
    [] b \in \hC0 .. \hCF -> \hC0      \* upside down
    [] OTHER -> NENHUM

\* As the chip is powered up: off, its charge pump too.
DE_FABRICA ==
  [r \in REGISTROS |->
     CASE r = \h20 -> 2    [] r = \h81 -> \h7F [] r = \h8D -> \h10 [] r = \hA8 -> \h3F [] r = \hD3 -> 0
       [] r = \hD5 -> \h80 [] r = \hD9 -> \h22 [] r = \hDA -> \h12 [] r = \hDB -> \h20
       [] OTHER -> r]

\* The addressing mode; the manual reserves 3, taken for the page mode.
Modo == CASE ajustes[\h20] % 4 = 0 -> "horizontal"
          [] ajustes[\h20] % 4 = 1 -> "vertical"
          [] OTHER -> "pagina"

ChipInit ==
  /\ tela = Velha /\ ponteiro = ORIGEM
  /\ ajustes = DE_FABRICA /\ espera = NENHUM
  /\ obedece \in BOOLEAN

\* The pointer, moved by a command: the page, or one half of the column.
Aponta(b) ==
  ponteiro' =
    IF Modo # "pagina" /\ ~obedece THEN ponteiro
    ELSE IF b \in \h00 .. \h0F THEN <<ponteiro[1], ponteiro[2], b % PEDACO>>
    ELSE IF b \in \h10 .. \h1F THEN <<ponteiro[1], (b - \h10) % PEDACOS, ponteiro[3]>>
    ELSE IF b \in \hB0 .. \hB0 + PAGINAS - 1 THEN <<b - \hB0, ponteiro[2], ponteiro[3]>>
    ELSE ponteiro

\* A byte of command, obeyed: an argument, if one is due, whatever it says.
Comanda(b) ==
  \/ /\ espera # NENHUM
     /\ ajustes' = [ajustes EXCEPT ![espera] = b]
     /\ espera' = NENHUM /\ UNCHANGED ponteiro
  \/ /\ espera = NENHUM /\ b \in ARGUMENTADOS
     /\ espera' = b /\ UNCHANGED <<ajustes, ponteiro>>
  \/ /\ espera = NENHUM /\ b \notin ARGUMENTADOS /\ Registro(b) # NENHUM
     /\ ajustes' = [ajustes EXCEPT ![Registro(b)] = b]
     /\ UNCHANGED <<espera, ponteiro>>
  \/ /\ espera = NENHUM /\ b \notin ARGUMENTADOS /\ Registro(b) = NENHUM
     /\ Aponta(b) /\ UNCHANGED <<ajustes, espera>>

\* A byte of command, lost.
Ignora == UNCHANGED <<ponteiro, ajustes, espera>>

\* The column that follows, the first after the last.
ColunaSeguinte(c, b) ==
  IF b < PEDACO - 1 THEN <<c, b + 1>> ELSE IF c < PEDACOS - 1 THEN <<c + 1, 0>> ELSE <<0, 0>>

\* Data goes on in its page, in the next page, or down the pages.
Avanca ==
  LET p == ponteiro[1]
      s == ColunaSeguinte(ponteiro[2], ponteiro[3])
  IN  CASE Modo = "pagina"     -> <<p, s[1], s[2]>>
        [] Modo = "horizontal" -> <<IF s = <<0, 0>> THEN (p + 1) % PAGINAS ELSE p, s[1], s[2]>>
        [] OTHER -> IF p < PAGINAS - 1 THEN <<p + 1, ponteiro[2], ponteiro[3]>> ELSE <<0, s[1], s[2]>>

\* A byte of data, stored.
Escreve(d) ==
  /\ tela' = [tela EXCEPT ![ponteiro] = d]
  /\ ponteiro' = Avanca
=============================================================================
