--------------------------- MODULE ControleResposta -------------------------
(***************************************************************************)
(* From the pulses of the sensors to the pumps: how late the whole chain   *)
(* of interrupts, measuring windows, stalled iterations and off-delay may  *)
(* be.  The history counts the pulses themselves, in real ticks.           *)
(***************************************************************************)
EXTENDS Controle

VARIABLES
  h_molhado,  \* has circuit c had a pulse in the tick that runs?
  h_corrida,  \* whole ticks in a row in which circuit c had a pulse
  h_silencio  \* ticks since the last pulse of circuit c

hvars == <<vars, h_molhado, h_corrida, h_silencio>>

\* Longest iteration, from one reading of the clock to the next.
Volta == EXEC_MAX + OLED_MAX + PUB_MAX + ESPERA_MAX

\* Longest window: it is over, and an iteration has just missed its end.
JanelaMax == JANELA + Volta + EXEC_MAX - 1

\* The first window begins at fluxo_init and also covers the wait for the Wi-Fi.
PrimeiraJanela == IF BOOT_MAX + EXEC_MAX > JanelaMax THEN BOOT_MAX + EXEC_MAX ELSE JanelaMax

\* A window in which the water began to run, and one that is all wet.
PRAZO_LIGA == 2 * JanelaMax

\* The start: the last decision under the inhibition and the next one, and the first
\* window, whose flow is taken over the whole wait for the Wi-Fi, with the next.
Arranque ==
  LET inibicao == STARTUP_INHIBIT + Volta + EXEC_MAX
      janelas  == PrimeiraJanela + JanelaMax
  IN  IF inibicao > janelas THEN inibicao ELSE janelas

\* The window of the last pulse, the window found dry, the off-delay, and the
\* iteration that notices its end.
PRAZO_DESLIGA == PrimeiraJanela + JanelaMax + DELAY_OFF + Volta - 1 + EXEC_MAX

Saturado(n, max) == IF n = max THEN max ELSE n + 1

HInit ==
  /\ Init
  /\ h_molhado = [c \in Circuitos |-> FALSE]
  /\ h_corrida = [c \in Circuitos |-> 0]
  /\ h_silencio = [c \in Circuitos |-> PRAZO_DESLIGA + 1]

TemPulso(c) == s_pulsos'[c] # s_pulsos[c]

HNext ==
  /\ Next
  /\ \/ /\ agora' # agora
        /\ h_molhado' = [c \in Circuitos |-> FALSE]
        /\ h_corrida' = [c \in Circuitos |->
             IF h_molhado[c] THEN Saturado(h_corrida[c], PRAZO_LIGA) ELSE 0]
        /\ h_silencio' = [c \in Circuitos |-> Saturado(h_silencio[c], PRAZO_DESLIGA + 1)]
     \/ /\ agora' = agora
        /\ h_molhado' = [c \in Circuitos |-> h_molhado[c] \/ TemPulso(c)]
        /\ h_silencio' = [c \in Circuitos |-> IF TemPulso(c) THEN 0 ELSE h_silencio[c]]
        /\ UNCHANGED h_corrida

HSpec == HInit /\ [][HNext]_hvars

-----------------------------------------------------------------------------
\* Water that has run in circuit c for PRAZO_LIGA ticks powers its pump, in
\* every mode, once the start is over (fluxo.cpp, fluxo_update; main.cpp:155-183;
\* docs/V0.2Descr-file.md:156).
LigaNoPrazo ==
  \A c \in Circuitos : h_corrida[c] = PRAZO_LIGA /\ agora > Arranque => Ligado(c)

\* A pump is off when no circuit has had a pulse for PRAZO_DESLIGA ticks: no
\* stale verdict, stamp or decision keeps it running (fluxo.cpp, fluxo_update;
\* main.cpp:29-32 and 155-183; docs/V0.2Descr-file.md:154).
DesligaNoPrazo ==
  (\A c \in Circuitos : h_silencio[c] > PRAZO_DESLIGA) =>
    \A c \in Circuitos : ~Ligado(c)
=============================================================================
