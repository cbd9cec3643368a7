------------------------------- MODULE Fluxo --------------------------------
(***************************************************************************)
(* The flow meter, src/fluxo.cpp.                                          *)
(*                                                                         *)
(* Two GPIO interrupts count the pulses of the two sensors; the control    *)
(* task calls fluxo_update, which once per window loads the counters,      *)
(* derives each flow and stamps the instant a flow stops.  An interrupt    *)
(* may fire between any two loads, and time may pass between any two       *)
(* statements.                                                             *)
(***************************************************************************)
EXTENDS Placa

CONSTANTS
  PULSO_MOD,    \* modulus of the pulse counters: 2^32 on the target
  JANELA,       \* measuring window, 1000000 us in the code
  TICKS_POR_S   \* ticks of the model in one second

ASSUME FluxoAssumption ==
  /\ PULSO_MOD \in Nat \ {0}
  /\ JANELA \in Nat \ {0}
  /\ TICKS_POR_S \in Nat \ {0}

VARIABLES
  s_pulsos,          \* atomic counters, written by the ISRs only
  s_last_pulsos,     \* counters at the last measurement
  s_ativo,           \* is the flow of each circuit active?
  s_last_stop_ms,    \* millis32() when the flow last stopped, 0 if never
  s_last_update_us,  \* instant of the last measurement
  upc,               \* where the control task is inside fluxo_update
  dt_us, p           \* its locals: window length, loaded counters

fluxoVars == <<s_pulsos, s_last_pulsos, s_ativo, s_last_stop_ms,
               s_last_update_us, upc, dt_us, p>>

Zero == [c \in Circuitos |-> 0]

\* Mutant: the threshold is 1.0 L/min.
FluxoAtivo_limiar(d, dt) == 100 * d * TICKS_POR_S > 660 * dt

\* s_lmin > 0.10 for d pulses in dt ticks: d / dt_s / 6.6 > 0.10, computed
\* exactly; the code computes in float, which may differ at equality only.
FluxoAtivo(d, dt) == 100 * d * TICKS_POR_S > 66 * dt

\* Pulses counted by circuit c and not measured yet.
Pendentes(c) == SubMod(s_pulsos[c], s_last_pulsos[c], PULSO_MOD)

FluxoInit ==
  /\ agora = 0
  /\ s_pulsos = Zero
  /\ s_last_pulsos = Zero
  /\ s_ativo = [c \in Circuitos |-> FALSE]
  /\ s_last_stop_ms = Zero
  /\ s_last_update_us = agora
  /\ upc = "fora"
  /\ dt_us = 0
  /\ p = Zero

(***************************************************************************)
(* One pulse of sensor c.  Bound: fewer than PULSO_MOD pulses between two  *)
(* measurements (2^32 pulses in a window are out of reach of the sensor).  *)
(***************************************************************************)
isr_fluxo(c) ==
  /\ Pendentes(c) < PULSO_MOD - 1
  /\ s_pulsos' = [s_pulsos EXCEPT ![c] = IncMod(@, PULSO_MOD)]
  /\ UNCHANGED <<agora, s_last_pulsos, s_ativo, s_last_stop_ms,
                 s_last_update_us, upc, dt_us, p>>

(***************************************************************************)
(* fluxo_update, one action per access to shared state or to the clock.    *)
(***************************************************************************)
\* Reads the clock; returns at once while the window is open.
FluxoJanela ==
  /\ upc = "fora"
  /\ IF agora - s_last_update_us < JANELA
       THEN UNCHANGED <<s_last_update_us, upc, dt_us>>
       ELSE /\ s_last_update_us' = agora
            /\ dt_us' = agora - s_last_update_us
            /\ upc' = "carrega_frio"
  /\ UNCHANGED <<agora, s_pulsos, s_last_pulsos, s_ativo, s_last_stop_ms, p>>

\* Loads the two atomic counters, one after the other.
FluxoCarrega ==
  /\ \/ /\ upc = "carrega_frio"
        /\ p' = [p EXCEPT !["frio"] = s_pulsos["frio"]]
        /\ upc' = "carrega_quente"
     \/ /\ upc = "carrega_quente"
        /\ p' = [p EXCEPT !["quente"] = s_pulsos["quente"]]
        /\ upc' = "calcula"
  /\ UNCHANGED <<agora, s_pulsos, s_last_pulsos, s_ativo, s_last_stop_ms,
                 s_last_update_us, dt_us>>

\* Mutant: the counters are read again to close the window, and the pulses
\* that came after the loads are never weighed.
FechaJanela_perde == s_last_pulsos' = s_pulsos

\* The loaded counters close the window.
FechaJanela == s_last_pulsos' = p

\* Mutant: every measurement without flow stamps a stop.
Parou_sempre(c) == ~s_ativo'[c]

\* The falling edge of the verdict.
Parou(c) == s_ativo[c] /\ ~s_ativo'[c]

\* Differences, flows, and the stamp of the flows that stopped.
FluxoCalcula ==
  /\ upc = "calcula"
  /\ FechaJanela
  /\ s_ativo' = [c \in Circuitos |->
       FluxoAtivo(SubMod(p[c], s_last_pulsos[c], PULSO_MOD), dt_us)]
  /\ s_last_stop_ms' = [c \in Circuitos |->
       IF Parou(c) THEN millis32 ELSE s_last_stop_ms[c]]
  /\ upc' = "fora"
  /\ dt_us' = 0
  /\ p' = Zero
  /\ UNCHANGED <<agora, s_pulsos, s_last_update_us>>

fluxo_update == FluxoJanela \/ FluxoCarrega \/ FluxoCalcula

(***************************************************************************)
(* The meter on its own: a task that calls fluxo_update at any time, the   *)
(* two interrupts, and the clock.                                          *)
(***************************************************************************)
FluxoTick ==
  /\ agora < MaxTempo
  /\ agora' = agora + 1
  /\ UNCHANGED fluxoVars

FluxoNext ==
  \/ FluxoTick
  \/ \E c \in Circuitos : isr_fluxo(c)
  \/ fluxo_update

FluxoSpec == FluxoInit /\ [][FluxoNext]_<<agora, fluxoVars>>

FluxoTypeOK ==
  /\ agora \in Nat
  /\ s_pulsos \in [Circuitos -> UintMod(PULSO_MOD)]
  /\ s_last_pulsos \in [Circuitos -> UintMod(PULSO_MOD)]
  /\ s_ativo \in [Circuitos -> BOOLEAN]
  /\ s_last_stop_ms \in [Circuitos -> UintMod(MS_MOD)]
  /\ s_last_update_us \in Nat
  /\ upc \in {"fora", "carrega_frio", "carrega_quente", "calcula"}
  /\ dt_us \in Nat
  /\ p \in [Circuitos -> UintMod(PULSO_MOD)]
=============================================================================
