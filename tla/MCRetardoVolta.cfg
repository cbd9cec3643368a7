\* The clock wraps at 16, long after a flow stopped.
SPECIFICATION HSpec
CONSTANTS
  MS_MOD = 16
  MaxTempo = 24
  PULSO_MOD = 3
  JANELA = 1
  TICKS_POR_S = 1
  MODE_BUTTON_DEBOUNCE = 0
  Pinos = {TRUE}
  Comandos = {}
  DELAY_OFF = 5
  STARTUP_INHIBIT = 3
  PERIODO_LOG = 1
  PERIODO_MQTT = 5
  BOOT_MAX = 1
  EXEC_MAX = 0
  OLED_MAX = 0
  PUB_MAX = 0
  ESPERA_MAX = 1
  Sensores = {"quente"}
PROPERTY LigaSoComDemanda
