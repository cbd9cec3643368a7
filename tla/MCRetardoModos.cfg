\* Short delays; the button is pressed and the broker sends commands between any
\* two statements of a loop that is not preempted inside a decision.
SPECIFICATION HSpec
CONSTANTS
  MS_MOD = 100
  MaxTempo = 6
  PULSO_MOD = 2
  JANELA = 1
  TICKS_POR_S = 1
  MODE_BUTTON_DEBOUNCE = 0
  Pinos = {TRUE, FALSE}
  Comandos = {"DUO", "MIX"}
  DELAY_OFF = 2
  STARTUP_INHIBIT = 1
  PERIODO_LOG = 1
  PERIODO_MQTT = 2
  BOOT_MAX = 1
  EXEC_MAX = 0
  OLED_MAX = 0
  PUB_MAX = 1
  ESPERA_MAX = 1
  Sensores = {"quente"}
INVARIANTS TypeOK RelesCoerentes
PROPERTY RetardoRespeitado
