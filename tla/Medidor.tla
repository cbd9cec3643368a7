------------------------------ MODULE Medidor -------------------------------
(***************************************************************************)
(* What the flow meter promises to the control task, without counters that *)
(* wrap, loads or a program counter: every pulse is weighed in exactly one *)
(* measurement; a measurement covers at least one whole window and judges  *)
(* both circuits over the same span; and the instant a flow is found to    *)
(* have stopped is remembered.                                             *)
(***************************************************************************)
EXTENDS Integers

CONSTANTS MS_MOD, JANELA, TICKS_POR_S

VARIABLES
  agora,      \* the clock
  pendentes,  \* pulses of each circuit that no measurement has weighed yet
  ativo,      \* the verdict of the last measurement
  parou,      \* millisecond stamp of the last active-to-inactive verdict
  medidoEm    \* end of the span of the last measurement

vars == <<agora, pendentes, ativo, parou, medidoEm>>

Circuitos == {"frio", "quente"}

\* More than 0.10 L/min, at 6.6 Hz per L/min, for d pulses in dt ticks.
Escoa(d, dt) == 100 * d * TICKS_POR_S > 66 * dt

Init ==
  /\ agora = 0
  /\ pendentes = [c \in Circuitos |-> 0]
  /\ ativo = [c \in Circuitos |-> FALSE]
  /\ parou = [c \in Circuitos |-> 0]
  /\ medidoEm = 0

\* Time passes.
Passa ==
  /\ agora' = agora + 1
  /\ UNCHANGED <<pendentes, ativo, parou, medidoEm>>

\* The sensor of circuit c gives a pulse.
Pulso(c) ==
  /\ pendentes' = [pendentes EXCEPT ![c] = @ + 1]
  /\ UNCHANGED <<agora, ativo, parou, medidoEm>>

\* A measurement of the span that ends at fim.  Pulses that arrive while it
\* runs may be left, never lost, for the next one.
Mede(fim) ==
  /\ medidoEm' = fim
  /\ pendentes' \in [Circuitos -> Nat]
  /\ \A c \in Circuitos : pendentes'[c] <= pendentes[c]
  /\ ativo' = [c \in Circuitos |->
       Escoa(pendentes[c] - pendentes'[c], fim - medidoEm)]
  /\ parou' = [c \in Circuitos |->
       IF ativo[c] /\ ~ativo'[c] THEN agora % MS_MOD ELSE parou[c]]
  /\ UNCHANGED agora

Next ==
  \/ Passa
  \/ \E c \in Circuitos : Pulso(c)
  \/ \E fim \in medidoEm + JANELA .. agora : Mede(fim)

Spec == Init /\ [][Next]_vars
=============================================================================
