----------------------------- MODULE FluxoRefina ----------------------------
(***************************************************************************)
(* src/fluxo.cpp implements the abstract meter.  A measurement takes       *)
(* effect when the differences are computed: until then the span already   *)
(* stored in s_last_update_us has not been judged.                         *)
(***************************************************************************)
EXTENDS Fluxo

PendentesBar == [c \in Circuitos |-> Pendentes(c)]

MedidoEmBar ==
  IF upc = "fora" THEN s_last_update_us ELSE s_last_update_us - dt_us

M == INSTANCE Medidor WITH
       pendentes <- PendentesBar,
       ativo     <- s_ativo,
       parou     <- s_last_stop_ms,
       medidoEm  <- MedidoEmBar

\* The meter, with its wrapping counters and with interrupts between its
\* loads, weighs every pulse exactly once, over whole windows that are the
\* same for both circuits, and stamps each stop (fluxo.cpp, fluxo_update and
\* the two interrupt handlers).
ImplementaMedidor == M!Spec
=============================================================================
