------------------------------ MODULE Controle ------------------------------
(***************************************************************************)
(* The control task, task_hidrocontrol of src/main.cpp, with everything it *)
(* runs against: the interrupts of the flow sensors, the task of the MQTT  *)
(* client that may change the mode at any instant, the button, and the     *)
(* clock, which moves between any two statements.                          *)
(*                                                                         *)
(* How long a part of the loop may take is a parameter: a preemption, the  *)
(* I2C transfers of the display and the socket write of a publication are  *)
(* stalls of this very task.                                               *)
(***************************************************************************)
EXTENDS Fluxo, Modos, Reles

CONSTANTS
  DELAY_OFF, STARTUP_INHIBIT,  \* 5000 ms and 3000 ms in the code
  PERIODO_LOG, PERIODO_MQTT,   \* 1000 ms and 5000 ms in the code
  BOOT_MAX,    \* ticks at most that app_main waits for the Wi-Fi
  EXEC_MAX,    \* ticks at most from reading the clock to driving the relays
  OLED_MAX,    \* ticks at most in oled_show_status
  PUB_MAX,     \* ticks at most in mqttclient_publish_telemetry
  ESPERA_MAX,  \* ticks at most in vTaskDelay(20 ms)
  Sensores     \* the circuits where water may flow

ASSUME ControleAssumption ==
  /\ DELAY_OFF \in Nat /\ STARTUP_INHIBIT \in Nat
  /\ PERIODO_LOG \in Nat /\ PERIODO_MQTT \in Nat
  /\ BOOT_MAX \in Nat /\ EXEC_MAX \in Nat /\ OLED_MAX \in Nat
  /\ PUB_MAX \in Nat /\ ESPERA_MAX \in Nat
  /\ Sensores \subseteq Circuitos

VARIABLES
  cpc,            \* where the task is
  now,            \* locals of the loop
  modo, rele,
  last_log, last_mqtt_pub,
  gasto           \* ticks spent in the current section of the loop

tarefaVars == <<cpc, now, modo, rele, last_log, last_mqtt_pub, gasto>>

vars == <<agora, fluxoVars, modosVars, relesVars, tarefaVars>>

\* Sections of the loop in which time is bounded.
Decisao == {"botao", "fluxo", "decide", "rele_frio", "rele_quente"}

Limite ==
  CASE cpc = "boot"    -> BOOT_MAX
    [] cpc \in Decisao -> EXEC_MAX
    [] cpc = "oled"    -> OLED_MAX
    [] cpc = "publica" -> PUB_MAX
    [] cpc = "espera"  -> ESPERA_MAX
    [] OTHER           -> 0

\* app_main up to the Wi-Fi wait: relays, meter, button.
Init ==
  /\ FluxoInit
  /\ modos_init
  /\ reles_init
  /\ cpc = "boot"
  /\ now = 0
  /\ modo = "NORMAL"
  /\ rele = [c \in Circuitos |-> FALSE]
  /\ last_log = 0 /\ last_mqtt_pub = 0
  /\ gasto = 0

(***************************************************************************)
(* The decision.                                                           *)
(***************************************************************************)
\* Mutant: the stamp of a flow that never stopped is taken for a stop.
hold_off_active_sem_guarda(last_stop, t) == Idade(t, last_stop) < DELAY_OFF

hold_off_active(last_stop, t) ==
  last_stop # 0 /\ Idade(t, last_stop) < DELAY_OFF

\* Mutant: the two getters of the stop stamps are exchanged.
UltimaParada_trocada(c) ==
  s_last_stop_ms[IF c = "frio" THEN "quente" ELSE "frio"]

UltimaParada(c) == s_last_stop_ms[c]

Demanda(c) == s_ativo[c] \/ hold_off_active(UltimaParada(c), now)

Alguma == Demanda("frio") \/ Demanda("quente")

\* Mutant: in MIX the cold pump follows the cold demand only.
Acionamento_mix_errado(m) ==
  CASE m = "NORMAL" -> [c \in Circuitos |-> Demanda(c)]
    [] m = "DUO"    -> [c \in Circuitos |-> Alguma]
    [] m = "MIX"    -> [c \in Circuitos |-> Demanda(c)]

\* The switch on the mode.
Acionamento(m) ==
  CASE m = "NORMAL" -> [c \in Circuitos |-> Demanda(c)]
    [] m = "DUO"    -> [c \in Circuitos |-> Alguma]
    [] m = "MIX"    -> [frio |-> Alguma, quente |-> Demanda("quente")]

\* Mutant: the inhibition ends one tick early.
Inibido_menor == now < STARTUP_INHIBIT

\* Not yet now > STARTUP_INHIBIT_MS.
Inibido == now <= STARTUP_INHIBIT

(***************************************************************************)
(* The loop, one action per step that touches shared state or takes time.  *)
(***************************************************************************)
Segue(de, para) == cpc = de /\ cpc' = para

\* The Wi-Fi is up: app_main creates the task.
BootTermina ==
  /\ Segue("boot", "le_now")
  /\ gasto' = 0
  /\ UNCHANGED <<agora, fluxoVars, modosVars, relesVars, now, modo, rele,
                 last_log, last_mqtt_pub>>

LeNow ==
  /\ Segue("le_now", "botao")
  /\ now' = millis32
  /\ gasto' = 0
  /\ UNCHANGED <<agora, fluxoVars, modosVars, relesVars, modo, rele, last_log,
                 last_mqtt_pub>>

AtualizaBotao ==
  /\ cpc = "botao"
  /\ modos_update_button
  /\ cpc' = IF tpc'["controle"] = "fora" THEN "fluxo" ELSE "botao"
  /\ UNCHANGED <<agora, fluxoVars, relesVars, now, modo, rele, last_log,
                 last_mqtt_pub, gasto>>

AtualizaFluxo ==
  /\ cpc = "fluxo"
  /\ fluxo_update
  /\ cpc' = IF upc' = "fora" THEN "decide" ELSE "fluxo"
  /\ UNCHANGED <<modosVars, relesVars, now, modo, rele, last_log,
                 last_mqtt_pub, gasto>>

\* The mode is read once; the rest reads variables of this task only.
Decide ==
  /\ Segue("decide", "rele_frio")
  /\ modo' = s_modo
  /\ rele' = IF Inibido THEN [c \in Circuitos |-> FALSE] ELSE Acionamento(s_modo)
  /\ UNCHANGED <<agora, fluxoVars, modosVars, relesVars, now, last_log,
                 last_mqtt_pub, gasto>>

AcionaFrio ==
  /\ Segue("rele_frio", "rele_quente")
  /\ reles_set("frio", rele["frio"])
  /\ UNCHANGED <<agora, fluxoVars, modosVars, now, modo, rele, last_log,
                 last_mqtt_pub, gasto>>

AcionaQuente ==
  /\ Segue("rele_quente", "mostra")
  /\ reles_set("quente", rele["quente"])
  /\ gasto' = 0
  /\ UNCHANGED <<agora, fluxoVars, modosVars, now, modo, rele, last_log,
                 last_mqtt_pub>>

\* The log line and the display, once per PERIODO_LOG.
Mostra ==
  /\ \/ /\ Idade(now, last_log) >= PERIODO_LOG
        /\ Segue("mostra", "oled")
        /\ last_log' = now
     \/ /\ Idade(now, last_log) < PERIODO_LOG
        /\ Segue("mostra", "telemetria")
        /\ UNCHANGED last_log
  /\ UNCHANGED <<agora, fluxoVars, modosVars, relesVars, now, modo, rele,
                 last_mqtt_pub, gasto>>

OledTermina ==
  /\ Segue("oled", "telemetria")
  /\ gasto' = 0
  /\ UNCHANGED <<agora, fluxoVars, modosVars, relesVars, now, modo, rele,
                 last_log, last_mqtt_pub>>

\* The publication, once per PERIODO_MQTT.
Telemetria ==
  /\ \/ /\ Idade(now, last_mqtt_pub) >= PERIODO_MQTT
        /\ Segue("telemetria", "publica")
        /\ last_mqtt_pub' = now
     \/ /\ Idade(now, last_mqtt_pub) < PERIODO_MQTT
        /\ Segue("telemetria", "espera")
        /\ UNCHANGED last_mqtt_pub
  /\ UNCHANGED <<agora, fluxoVars, modosVars, relesVars, now, modo, rele,
                 last_log, gasto>>

PublicaTermina ==
  /\ Segue("publica", "espera")
  /\ gasto' = 0
  /\ UNCHANGED <<agora, fluxoVars, modosVars, relesVars, now, modo, rele,
                 last_log, last_mqtt_pub>>

EsperaTermina ==
  /\ Segue("espera", "le_now")
  /\ gasto' = 0
  /\ UNCHANGED <<agora, fluxoVars, modosVars, relesVars, now, modo, rele,
                 last_log, last_mqtt_pub>>

Tarefa ==
  \/ BootTermina \/ LeNow \/ AtualizaBotao \/ AtualizaFluxo \/ Decide
  \/ AcionaFrio \/ AcionaQuente \/ Mostra \/ OledTermina \/ Telemetria
  \/ PublicaTermina \/ EsperaTermina

(***************************************************************************)
(* The environment of the task.                                            *)
(***************************************************************************)
Tick ==
  /\ agora < MaxTempo
  /\ gasto < Limite
  /\ agora' = agora + 1
  /\ gasto' = gasto + 1
  /\ UNCHANGED <<fluxoVars, modosVars, relesVars, cpc, now, modo, rele,
                 last_log, last_mqtt_pub>>

Pulso(c) ==
  /\ c \in Sensores
  /\ isr_fluxo(c)
  /\ UNCHANGED <<modosVars, relesVars, tarefaVars>>

\* mqttclient_init precedes the creation of the task, so a command may come
\* before its first iteration, but not before the Wi-Fi is up.
Comando ==
  /\ cpc # "boot"
  /\ processar_comando_modo
  /\ UNCHANGED <<agora, fluxoVars, relesVars, tarefaVars>>

Botao == PinoMuda /\ UNCHANGED <<agora, fluxoVars, relesVars, tarefaVars>>

Next ==
  \/ Tarefa
  \/ Tick
  \/ \E c \in Circuitos : Pulso(c)
  \/ Comando
  \/ Botao

Spec == Init /\ [][Next]_vars

-----------------------------------------------------------------------------
TypeOK ==
  /\ FluxoTypeOK
  /\ ModosTypeOK
  /\ RelesTypeOK
  /\ cpc \in {"boot", "le_now", "mostra", "oled", "telemetria", "publica",
              "espera"} \cup Decisao
  /\ now \in UintMod(MS_MOD)
  /\ modo \in ModoOperacao
  /\ rele \in [Circuitos -> BOOLEAN]
  /\ last_log \in UintMod(MS_MOD) /\ last_mqtt_pub \in UintMod(MS_MOD)
  /\ gasto \in Nat

\* The pins show the cached states of the relays.
PinosFieis == \A c \in Circuitos : Ligado(c) <=> s_rele[c]

\* What the states r of the two relays promise in mode m: both pumps together
\* in DUO, never hot without cold in MIX.
Coerente(m, r) ==
  /\ m = "DUO" => (r["frio"] <=> r["quente"])
  /\ m = "MIX" => (r["quente"] => r["frio"])

\* From the moment both relays are driven until the first is driven again, the
\* pins show one decision taken under one mode, whatever has happened to s_modo
\* in the meantime.  It is also what the telemetry reports, with that mode
\* (main.cpp:153-183 and 213-220).
RelesCoerentes ==
  cpc \notin {"rele_frio", "rele_quente"} => PinosFieis /\ Coerente(modo, s_rele)

\* No relay is powered in the first STARTUP_INHIBIT ticks after a start, also
\* when the decision is taken on a clock read long before (main.cpp:155;
\* hardware.h, STARTUP_INHIBIT_MS).
InibicaoInicial ==
  \A c \in Circuitos : Ligado(c) => agora > STARTUP_INHIBIT
=============================================================================
