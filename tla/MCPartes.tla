------------------------------- MODULE MCPartes -------------------------------
(* The parts of the firmware that work on data of their own, each alone: a   *)
(* behaviour is a behaviour of one of them, and the others do not move.      *)
EXTENDS FluxoRefina, Inicio, Pacotes, TimeKeeper, Oled, Linha

VARIABLE parte

\* Of a part that does not move, one initial state is enough.
Fixa(qual, estado) == parte = qual \/ estado

MCInit ==
  /\ parte \in {"fluxo", "inicio", "msg", "pacotes", "tempo", "oled", "linha"}
  /\ FluxoInit /\ InicioInit /\ MsgInit /\ PacInit
  /\ Fixa("tempo", relogio = 0) /\ TempoInit
  /\ Fixa("oled", obedece = TRUE) /\ OledInit
  /\ Fixa("linha", ponta = <<0, 0, 0, 0>>) /\ LinhaInit

MCNext ==
  /\ UNCHANGED parte
  /\ \/ parte = "fluxo"   /\ FluxoNext  /\ UNCHANGED <<inicioVars, msgVars, pacVars, tempoVars, telaVars, linhaVars>>
     \/ parte = "inicio"  /\ InicioNext /\ UNCHANGED <<agora, fluxoVars, msgVars, pacVars, tempoVars, telaVars, linhaVars>>
     \/ parte = "msg"     /\ MsgNext    /\ UNCHANGED <<agora, fluxoVars, inicioVars, pacVars, tempoVars, telaVars, linhaVars>>
     \/ parte = "pacotes" /\ PacNext    /\ UNCHANGED <<agora, fluxoVars, inicioVars, msgVars, tempoVars, telaVars, linhaVars>>
     \/ parte = "tempo"   /\ TempoNext  /\ UNCHANGED <<agora, fluxoVars, inicioVars, msgVars, pacVars, telaVars, linhaVars>>
     \/ parte = "oled"    /\ OledNext   /\ UNCHANGED <<agora, fluxoVars, inicioVars, msgVars, pacVars, tempoVars, linhaVars>>
     \/ parte = "linha"   /\ LinhaNext  /\ UNCHANGED <<agora, fluxoVars, inicioVars, msgVars, pacVars, tempoVars, telaVars>>

MCSpec == MCInit /\ [][MCNext]_<<parte, agora, fluxoVars, inicioVars, msgVars, pacVars, tempoVars, telaVars, linhaVars>>
=============================================================================
