\* A publication stalls every iteration, and so may the decision.
SPECIFICATION HSpec
CONSTANTS
  MS_MOD = 100
  MaxTempo = 13
  PULSO_MOD = 3
  JANELA = 1
  TICKS_POR_S = 1
  MODE_BUTTON_DEBOUNCE = 0
  Pinos = {TRUE}
  Comandos = {}
  DELAY_OFF = 2
  STARTUP_INHIBIT = 1
  PERIODO_LOG = 1
  PERIODO_MQTT = 1
  BOOT_MAX = 3
  EXEC_MAX = 1
  OLED_MAX = 0
  PUB_MAX = 1
  ESPERA_MAX = 0
  Sensores = {"quente"}
INVARIANT DesligaNoPrazo
