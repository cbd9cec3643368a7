\* Clock modulo 8, debounce of 2 ticks; calls may be 3 ticks apart, and the task
\* may lose 1 tick inside a call.  The clock turns round for ever.
SPECIFICATION Spec
CONSTANTS
  MS_MOD = 8
  MaxTempo = 0
  MODE_BUTTON_DEBOUNCE = 2
  Pinos = {TRUE, FALSE}
  Comandos = {"NORMAL", "DUO", "MIX"}
  PERIODO = 3
  PREEMPCAO = 1
INVARIANT BotaoTypeOK
PROPERTIES EstavelSoAposDebounce UmAvancoPorAperto PressaoReconhecida
