------------------------------- MODULE Reles --------------------------------
(***************************************************************************)
(* The relay driver, src/reles.cpp: a cached logical state that spares     *)
(* repeated writes, and the level of the two output pins.                  *)
(***************************************************************************)
EXTENDS Placa

VARIABLES
  s_rele,   \* s_frio, s_quente
  nivel     \* level of PIN_RELE_FRIO and PIN_RELE_QUENTE

relesVars == <<s_rele, nivel>>

RELAY_OFF_LEVEL == 0
RELAY_ON_LEVEL == 1

\* ligar ? RELAY_ON_LEVEL : RELAY_OFF_LEVEL
Nivel(ligar) == IF ligar THEN RELAY_ON_LEVEL ELSE RELAY_OFF_LEVEL

reles_init ==
  /\ s_rele = [c \in Circuitos |-> FALSE]
  /\ nivel = [c \in Circuitos |-> RELAY_OFF_LEVEL]

\* Mutant: the cached state is not brought up to date.
reles_set_sem_cache(c, ligar) ==
  IF ligar = s_rele[c]
    THEN UNCHANGED relesVars
    ELSE /\ nivel' = [nivel EXCEPT ![c] = Nivel(ligar)]
         /\ UNCHANGED s_rele

\* reles_set_frio, reles_set_quente: nothing to do if the state is the cached one.
reles_set(c, ligar) ==
  IF ligar = s_rele[c]
    THEN UNCHANGED relesVars
    ELSE /\ s_rele' = [s_rele EXCEPT ![c] = ligar]
         /\ nivel' = [nivel EXCEPT ![c] = Nivel(ligar)]

\* The pump of circuit c is powered.
Ligado(c) == nivel[c] = RELAY_ON_LEVEL

RelesTypeOK ==
  /\ s_rele \in [Circuitos -> BOOLEAN]
  /\ nivel \in [Circuitos -> {RELAY_OFF_LEVEL, RELAY_ON_LEVEL}]
=============================================================================
