\* For the meter: ticks of half a second; a window is two ticks, and one pulse
\* in a window stretched to four ticks is below the 0.10 L/min threshold.
\* Counters wrap at 4, the millisecond clock at 5.
SPECIFICATION MCSpec
CONSTANTS
  MS_MOD = 5
  PULSO_MOD = 4
  JANELA = 2
  TICKS_POR_S = 2
  MaxTempo = 8
  BASE = 4
  BUF = 28
  TAMANHOS = {1, 8, 9, 16, 17, 44, 45, 56, 57}
  MaxDeriva = 8
  BUF_ENTRADA = 11
  CARGAS = {0, 1, 2, 20}
  MaxPacotes = 2
  LIMITE = 3
  MaxRelogio = 7
  PAGINAS = 2
  PEDACOS = 2
  PEDACO = 2
  MaxAzares = 2
  LARGURA = 7
  ALTURA = 16
  Pontas = {0, 1, 3, 6, 9, 15}
INVARIANTS FluxoTypeOK SemVazamento ClienteInteiro MensagemInteira QuadroCerto CarimboCoerente QuadroMostrado TelaAcesa AtrasoLimitado LinhaJusta
PROPERTY ImplementaMedidor
