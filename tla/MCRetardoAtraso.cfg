\* The delays of the code in seconds; the clock may tick inside a decision, and
\* the display and the publication stall the loop.  The clock does not wrap.
SPECIFICATION HSpec
CONSTANTS
  MS_MOD = 100
  MaxTempo = 13
  PULSO_MOD = 3
  JANELA = 1
  TICKS_POR_S = 1
  MODE_BUTTON_DEBOUNCE = 0
  Pinos = {TRUE}
  Comandos = {}
  DELAY_OFF = 5
  STARTUP_INHIBIT = 3
  PERIODO_LOG = 1
  PERIODO_MQTT = 5
  BOOT_MAX = 1
  EXEC_MAX = 1
  OLED_MAX = 1
  PUB_MAX = 1
  ESPERA_MAX = 1
  Sensores = {"quente"}
INVARIANTS FalhaUmaVezSo InibicaoInicial
PROPERTIES LigaSoComDemanda CortaSoNaParada
