------------------------- MODULE MCControleRetardo --------------------------
(* The off-delay of the pumps in real time.                                *)
EXTENDS ControleRetardo
=============================================================================
