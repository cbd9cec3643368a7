------------------------------ MODULE MCBotao -------------------------------
(* The mode button with its whole environment.                             *)
EXTENDS Botao
=============================================================================
