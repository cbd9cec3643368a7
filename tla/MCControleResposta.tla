------------------------- MODULE MCControleResposta -------------------------
(* From pulses to pumps: the deadlines of the whole chain.                 *)
EXTENDS ControleResposta
=============================================================================
