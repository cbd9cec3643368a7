------------------------------- MODULE Botao --------------------------------
(***************************************************************************)
(* The mode button on its own: a task that calls modos_update_button over  *)
(* and over, late by up to PERIODO ticks when the rest of its loop stalls, *)
(* a pin that may change at any instant, and the task of the MQTT client.  *)
(* Only millis32() is read here, so the clock may turn round for ever: the *)
(* 49.7-day wrap is part of every behaviour.                               *)
(*                                                                         *)
(* The history variables remember what the pin really showed, in real      *)
(* ticks, with no stamp and no subtraction.                                *)
(***************************************************************************)
EXTENDS Modos

CONSTANTS
  PERIODO,   \* ticks at most between two calls of modos_update_button
  PREEMPCAO  \* ticks at most between two steps inside a call

ASSUME BotaoAssumption == PERIODO \in Nat /\ PREEMPCAO \in Nat

VARIABLES
  gasto,     \* ticks since the last step of the control task
  h_idade,   \* ticks since the first sample of the current run of equal samples
  h_solto    \* a long enough run of released samples came after the last advance

vars == <<agora, modosVars, gasto, h_idade, h_solto>>

\* How long a run of equal samples must be, in real ticks, to be believed.
\* The clock is read before the pin, so a preemption between the two reads
\* shortens the interval that the stamps measure.
Estavel == MODE_BUTTON_DEBOUNCE + 1 - PREEMPCAO

\* h_idade saturates here.
IdadeMax == MODE_BUTTON_DEBOUNCE + 1

Init ==
  /\ agora = 0
  /\ modos_init
  /\ gasto = 0
  /\ h_idade = 0
  /\ h_solto = TRUE

Tick ==
  /\ gasto < IF tpc["controle"] = "fora" THEN PERIODO ELSE PREEMPCAO
  /\ gasto' = gasto + 1
  /\ agora' = (agora + 1) % MS_MOD
  /\ h_idade' = IF h_idade = IdadeMax THEN h_idade ELSE h_idade + 1
  /\ UNCHANGED <<modosVars, h_solto>>

\* The samples of the current run, this one included, show the level v and
\* span at least Estavel ticks.
AmostrasEstaveis(v) == pino = v /\ s_btnLastRaw = v /\ h_idade >= Estavel

Avanca == tpc["controle"] # "next" /\ tpc'["controle"] = "next"

Controle ==
  /\ modos_update_button
  /\ gasto' = 0
  /\ h_idade' = IF tpc["controle"] = "amostra" /\ pino # s_btnLastRaw
                  THEN 0 ELSE h_idade
  /\ h_solto' = CASE Avanca -> FALSE
                  [] tpc["controle"] = "amostra" /\ AmostrasEstaveis(TRUE) -> TRUE
                  [] OTHER -> h_solto
  /\ UNCHANGED agora

Mqtt == processar_comando_modo /\ UNCHANGED <<agora, gasto, h_idade, h_solto>>

Pino == PinoMuda /\ UNCHANGED <<agora, gasto, h_idade, h_solto>>

Next == Tick \/ Controle \/ Mqtt \/ Pino

\* The control task has priority 5 and blocks only in its own delays, so it
\* goes on calling; the clock goes on.  Nothing is assumed of the broker or
\* of the person at the button.
Fairness == WF_vars(Tick) /\ WF_vars(Controle)

Spec == Init /\ [][Next]_vars /\ Fairness

BotaoTypeOK ==
  /\ ModosTypeOK
  /\ agora \in UintMod(MS_MOD)
  /\ gasto \in 0 .. PERIODO + PREEMPCAO
  /\ h_idade \in 0 .. IdadeMax
  /\ h_solto \in BOOLEAN

(***************************************************************************)
(* Properties                                                              *)
(***************************************************************************)
\* The stable state changes only at the end of a run of equal samples that
\* really lasted longer than the debounce interval, also across the wrap of
\* the clock and however late the calls are (modos.cpp, modos_update_button).
EstavelSoAposDebounce ==
  [][s_btnStable' # s_btnStable => AmostrasEstaveis(s_btnStable')]_vars

\* One press advances the mode at most once: between two advances the button
\* was seen released for a whole debounce interval (modos.cpp, the falling
\* edge of s_btnStable).
UmAvancoPorAperto == [][Avanca => h_solto]_vars

\* A button that stays down is seen, whatever the phase of the clock
\* (modos.cpp, modos_update_button under calls that are never too far apart).
PressaoReconhecida == <>[](~pino) => <>[](~s_btnStable)

\* The cycle the button announces, NORMAL -> DUO -> MIX -> NORMAL (main.cpp:43):
\* whenever the control task stores the mode it advances the mode that is
\* there (modos.cpp, modos_next and modos_set).
CicloDoBotao ==
  [][tpc["controle"] = "escreve" /\ tpc'["controle"] = "fora"
       => <<s_modo, s_modo'>> \in
            {<<"NORMAL", "DUO">>, <<"DUO", "MIX">>, <<"MIX", "NORMAL">>}]_vars
=============================================================================
