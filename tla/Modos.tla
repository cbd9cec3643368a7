------------------------------- MODULE Modos --------------------------------
(***************************************************************************)
(* The operating mode and its push button, src/modos.cpp.                  *)
(*                                                                         *)
(* s_modo is a plain variable.  The control task advances it when the      *)
(* debounced button goes down (modos_next); the task of the MQTT client    *)
(* sets it when a command arrives (processar_comando_modo).  The two run   *)
(* on different cores, so every access to s_modo is a step of its own.     *)
(***************************************************************************)
EXTENDS Placa

CONSTANTS
  MODE_BUTTON_DEBOUNCE,   \* 120 ms in the code
  Pinos,                  \* levels the button may show; TRUE is HIGH, released
  Comandos                \* modes the broker may ask for

ModoOperacao == {"NORMAL", "DUO", "MIX"}

Tarefas == {"controle", "mqtt"}

ASSUME ModosAssumption ==
  /\ MODE_BUTTON_DEBOUNCE \in Nat
  /\ TRUE \in Pinos /\ Pinos \subseteq BOOLEAN
  /\ Comandos \subseteq ModoOperacao

VARIABLES
  s_modo,
  s_btnStable, s_btnLastRaw, s_lastDebounceMs,
  pino,       \* level of PIN_MODE_BUTTON
  b_now,      \* local of modos_update_button: the clock it has read
  tpc,        \* where each task is inside this module
  alvo        \* the mode each task is about to store; "NORMAL" when it has none

modosVars == <<s_modo, s_btnStable, s_btnLastRaw, s_lastDebounceMs, pino,
               b_now, tpc, alvo>>

modos_init ==
  /\ s_modo = "NORMAL"
  /\ s_btnStable = TRUE
  /\ s_btnLastRaw = TRUE
  /\ s_lastDebounceMs = millis32
  /\ pino \in Pinos
  /\ b_now = 0
  /\ tpc = [t \in Tarefas |-> "fora"]
  /\ alvo = [t \in Tarefas |-> "NORMAL"]

Vai(t, de, para) == tpc[t] = de /\ tpc' = [tpc EXCEPT ![t] = para]

(***************************************************************************)
(* modos_set, run by either task: compare, then store.                     *)
(***************************************************************************)
SetCompara(t) ==
  /\ \/ /\ alvo[t] = s_modo
        /\ Vai(t, "compara", "fora")
        /\ alvo' = [alvo EXCEPT ![t] = "NORMAL"]
     \/ /\ alvo[t] # s_modo
        /\ Vai(t, "compara", "escreve")
        /\ UNCHANGED alvo
  /\ UNCHANGED <<s_modo, s_btnStable, s_btnLastRaw, s_lastDebounceMs, pino,
                 b_now>>

SetEscreve(t) ==
  /\ Vai(t, "escreve", "fora")
  /\ s_modo' = alvo[t]
  /\ alvo' = [alvo EXCEPT ![t] = "NORMAL"]
  /\ UNCHANGED <<s_btnStable, s_btnLastRaw, s_lastDebounceMs, pino, b_now>>

\* Mutant: the enumeration is incremented and the cycle never closes.
Proximo_sem_volta(m) ==
  CASE m = "NORMAL" -> "DUO"
    [] m = "DUO"    -> "MIX"
    [] OTHER        -> "DESCONHECIDO"

\* The cycle of modos_next.
Proximo(m) ==
  CASE m = "NORMAL" -> "DUO"
    [] m = "DUO"    -> "MIX"
    [] OTHER        -> "NORMAL"

\* modos_next: reads s_modo to choose the mode it hands to modos_set.
NextLe ==
  /\ Vai("controle", "next", "compara")
  /\ alvo' = [alvo EXCEPT !["controle"] = Proximo(s_modo)]
  /\ UNCHANGED <<s_modo, s_btnStable, s_btnLastRaw, s_lastDebounceMs, pino,
                 b_now>>

(***************************************************************************)
(* modos_update_button: the clock is read first, then the pin.             *)
(***************************************************************************)
BotaoRelogio ==
  /\ Vai("controle", "fora", "amostra")
  /\ b_now' = millis32
  /\ UNCHANGED <<s_modo, s_btnStable, s_btnLastRaw, s_lastDebounceMs, pino,
                 alvo>>

\* Mutant: a bounce does not restart the debounce interval.
UltimaMudanca_sem_reinicio == s_lastDebounceMs

\* Instant of the last change of the raw sample.
UltimaMudanca == IF pino # s_btnLastRaw THEN b_now ELSE s_lastDebounceMs

\* Samples the pin; a falling edge of the stable state calls modos_next.
BotaoAmostra ==
  /\ tpc["controle"] = "amostra"
  /\ s_btnLastRaw' = pino
  /\ s_lastDebounceMs' = UltimaMudanca
  /\ s_btnStable' = IF Idade(b_now, UltimaMudanca) > MODE_BUTTON_DEBOUNCE
                      THEN pino ELSE s_btnStable
  /\ Vai("controle", "amostra", IF s_btnStable /\ ~s_btnStable' THEN "next" ELSE "fora")
  /\ b_now' = 0
  /\ UNCHANGED <<s_modo, pino, alvo>>

modos_update_button ==
  \/ BotaoRelogio \/ BotaoAmostra
  \/ NextLe \/ SetCompara("controle") \/ SetEscreve("controle")

(***************************************************************************)
(* processar_comando_modo, in the task of the MQTT client.                 *)
(***************************************************************************)
ComandoRecebe(m) ==
  /\ Vai("mqtt", "fora", "compara")
  /\ alvo' = [alvo EXCEPT !["mqtt"] = m]
  /\ UNCHANGED <<s_modo, s_btnStable, s_btnLastRaw, s_lastDebounceMs, pino,
                 b_now>>

processar_comando_modo ==
  \/ \E m \in Comandos : ComandoRecebe(m)
  \/ SetCompara("mqtt") \/ SetEscreve("mqtt")

\* Somebody, or a contact that bounces, changes the level of the pin.
PinoMuda ==
  /\ pino' \in Pinos \ {pino}
  /\ UNCHANGED <<s_modo, s_btnStable, s_btnLastRaw, s_lastDebounceMs, b_now,
                 tpc, alvo>>

ModosTypeOK ==
  /\ s_modo \in ModoOperacao
  /\ s_btnStable \in BOOLEAN /\ s_btnLastRaw \in BOOLEAN /\ pino \in BOOLEAN
  /\ s_lastDebounceMs \in UintMod(MS_MOD) /\ b_now \in UintMod(MS_MOD)
  /\ tpc \in [Tarefas -> {"fora", "amostra", "next", "compara", "escreve"}]
  /\ alvo \in [Tarefas -> ModoOperacao]
=============================================================================
