\* As MCRetardoAtraso, for the off-delay itself.
SPECIFICATION HSpec
CONSTANTS
  MS_MOD = 100
  MaxTempo = 13
  PULSO_MOD = 3
  JANELA = 1
  TICKS_POR_S = 1
  MODE_BUTTON_DEBOUNCE = 0
  Pinos = {TRUE}
  Comandos = {}
  DELAY_OFF = 5
  STARTUP_INHIBIT = 3
  PERIODO_LOG = 1
  PERIODO_MQTT = 5
  BOOT_MAX = 1
  EXEC_MAX = 1
  OLED_MAX = 0
  PUB_MAX = 0
  ESPERA_MAX = 1
  Sensores = {"quente"}
PROPERTY RetardoRespeitado
