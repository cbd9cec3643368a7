SPECIFICATION Spec
CONSTANTS
  Comandos = {c1}
  MaxVoo = 2
  MaxFalhas = 2
  Ids = {1, 2, 3, 4, 5}
  MaxPub = 1
INVARIANTS MqttTypeOK ConectadoCoerente AckDepoisDeAplicar
PROPERTIES ImplementaTelemetria ReconectaEAssina TelemetriaResolvida
