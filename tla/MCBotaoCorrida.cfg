\* As MCBotao, for the cycle of the button against the commands of the broker.
SPECIFICATION Spec
CONSTANTS
  MS_MOD = 8
  MaxTempo = 0
  MODE_BUTTON_DEBOUNCE = 2
  Pinos = {TRUE, FALSE}
  Comandos = {"NORMAL", "DUO", "MIX"}
  PERIODO = 3
  PREEMPCAO = 1
PROPERTY CicloDoBotao
