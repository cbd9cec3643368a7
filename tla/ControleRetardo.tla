--------------------------- MODULE ControleRetardo --------------------------
(***************************************************************************)
(* The off-delay of the pumps, told in real time.  The code knows a stop   *)
(* only by a 32-bit stamp that has 0 for "never" and is compared with a    *)
(* clock read before the stamp was taken; the history kept here is what    *)
(* those stamps stand for.                                                 *)
(***************************************************************************)
EXTENDS Controle

VARIABLES
  h_parou,  \* tick at which the flow of each circuit was last found stopped
  h_falhas  \* decisions in a row, up to 2, that denied a circuit its demand

hvars == <<vars, h_parou, h_falhas>>

NUNCA == -1

HInit ==
  /\ Init
  /\ h_parou = [c \in Circuitos |-> NUNCA]
  /\ h_falhas = [c \in Circuitos |-> 0]

\* The flow of c stopped less than d ticks ago.
ParouHaMenosDe(c, d) == h_parou[c] # NUNCA /\ agora - h_parou[c] < d

\* Water runs in circuit c, or its off-delay is not over.
DemandaReal(c) == s_ativo[c] \/ ParouHaMenosDe(c, DELAY_OFF)

\* The decision now complete leaves circuit c without power, against its demand.
Falha(c) == ~Inibido /\ DemandaReal(c) /\ ~Ligado(c)'

HNext ==
  /\ Next
  /\ h_parou' = [c \in Circuitos |->
       IF s_ativo[c] /\ ~s_ativo'[c] THEN agora ELSE h_parou[c]]
  /\ h_falhas' = IF cpc = "rele_quente" /\ cpc' = "mostra"
       THEN [c \in Circuitos |-> IF ~Falha(c) THEN 0
                                 ELSE IF h_falhas[c] = 2 THEN 2 ELSE h_falhas[c] + 1]
       ELSE h_falhas

HSpec == HInit /\ [][HNext]_hvars

-----------------------------------------------------------------------------
\* A pump is switched off only when its own flow has stopped and the off-delay
\* is over, in every mode and whatever mode change comes
\* (docs/V0.2Descr-file.md:154 and 511; main.cpp:155-183).
RetardoRespeitado ==
  [][\A c \in Circuitos : Ligado(c) /\ ~Ligado(c)' => ~DemandaReal(c)]_hvars

\* The same when the clock moves inside a decision.  A pump is never cut while
\* its water runs, and inside its off-delay only by the one decision that itself
\* found the flow stopped, later than the clock it judges the stop by: no older
\* stop, no stall, no mode change and no late sample cuts the delay short
\* (main.cpp:139 and 155-183, fluxo.cpp:97).  With EXEC_MAX = 0, where no stop
\* is later than that clock, this is RetardoRespeitado.
CortaSoNaParada ==
  [][\A c \in Circuitos : Ligado(c) /\ ~Ligado(c)' =>
       ~s_ativo[c] /\ (ParouHaMenosDe(c, DELAY_OFF) => h_parou[c] > now)]_hvars

\* A decision that denies a circuit its demand is corrected by the next one:
\* the stamp that was ahead of the clock is behind the clock of the next
\* iteration (main.cpp:139 and 158, fluxo.cpp:97).
FalhaUmaVezSo == \A c \in Circuitos : h_falhas[c] <= 1

\* A pump is switched on only for water that runs or that stopped less than
\* the off-delay ago, as seen by the clock of the decision: never for a stamp
\* that means "never stopped" (docs/V0.2Descr-file.md:549-551; main.cpp:29-32).
LigaSoComDemanda ==
  [][\A c \in Circuitos : ~Ligado(c) /\ Ligado(c)' =>
       \E d \in Circuitos : s_ativo[d] \/ ParouHaMenosDe(d, DELAY_OFF + EXEC_MAX)]_hvars
=============================================================================
