\* As MCRespostaLiga, with a clock that wraps at 12.
SPECIFICATION HSpec
CONSTANTS
  MS_MOD = 12
  MaxTempo = 15
  PULSO_MOD = 5
  JANELA = 2
  TICKS_POR_S = 2
  MODE_BUTTON_DEBOUNCE = 0
  Pinos = {TRUE}
  Comandos = {}
  DELAY_OFF = 2
  STARTUP_INHIBIT = 1
  PERIODO_LOG = 1
  PERIODO_MQTT = 1
  BOOT_MAX = 1
  EXEC_MAX = 0
  OLED_MAX = 0
  PUB_MAX = 1
  ESPERA_MAX = 1
  Sensores = {"quente"}
INVARIANT LigaNoPrazo
