\* Ticks of half a second; a publication stalls every iteration, and the wait
\* for the Wi-Fi may be longer than the inhibition and than any window.
SPECIFICATION HSpec
CONSTANTS
  MS_MOD = 100
  MaxTempo = 11
  PULSO_MOD = 8
  JANELA = 2
  TICKS_POR_S = 2
  MODE_BUTTON_DEBOUNCE = 0
  Pinos = {TRUE}
  Comandos = {}
  DELAY_OFF = 2
  STARTUP_INHIBIT = 1
  PERIODO_LOG = 1
  PERIODO_MQTT = 1
  BOOT_MAX = 4
  EXEC_MAX = 0
  OLED_MAX = 0
  PUB_MAX = 1
  ESPERA_MAX = 1
  Sensores = {"quente"}
INVARIANT LigaNoPrazo
