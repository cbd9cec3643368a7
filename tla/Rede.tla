-------------------------------- MODULE Rede --------------------------------
(***************************************************************************)
(* The Wi-Fi station, src/netwifi.cpp, and the start of the firmware,      *)
(* app_main of src/main.cpp, which creates the control task and the        *)
(* heartbeat only after the first connection.                              *)
(*                                                                         *)
(* The radio driver is external.  It takes a request to connect and posts  *)
(* its events to the queue of the event loop, whose task runs              *)
(* event_handler for one event at a time, while app_main and the control   *)
(* task poll the flag and the address from their own tasks.                *)
(***************************************************************************)
EXTENDS Naturals, Sequences

CONSTANT Enderecos   \* addresses the DHCP server may give

SEM_IP == "0.0.0.0"

ASSUME RedeAssumption == SEM_IP \notin Enderecos

VARIABLES
  s_connected,  \* what netwifi_is_connected() returns
  s_ip,         \* what netwifi_ip() returns
  hpc,          \* where event_handler is; its event is the head of fila
  fila,         \* events posted and not yet handled
  sta,          \* external: the station inside the driver
  ip,           \* external: the address of the interface
  ap,           \* external: is the access point in reach?
  apc           \* where app_main is

vars == <<s_connected, s_ip, hpc, fila, sta, ip, ap, apc>>

Init ==
  /\ s_connected = FALSE
  /\ s_ip = SEM_IP
  /\ hpc = "livre"
  /\ fila = <<>>
  /\ sta = "parada"
  /\ ip = SEM_IP
  /\ ap \in BOOLEAN
  /\ apc = "init"

(***************************************************************************)
(* The driver (external).  Only STA_GOT_IP carries an address.             *)
(***************************************************************************)
Posta(tipo, endereco) == fila' = Append(fila, [tipo |-> tipo, ip |-> endereco])

\* esp_wifi_connect(): refused, with an error nobody reads, unless idle.
esp_wifi_connect == sta' = IF sta = "ociosa" THEN "associando" ELSE sta

Associa ==
  /\ ap /\ sta = "associando"
  /\ sta' = "associada"
  /\ UNCHANGED <<s_connected, s_ip, hpc, fila, ip, ap, apc>>

\* DHCP gives an address.
Endereca ==
  /\ ap /\ sta = "associada"
  /\ sta' = "com_ip"
  /\ \E e \in Enderecos : ip' = e /\ Posta("STA_GOT_IP", e)
  /\ UNCHANGED <<s_connected, s_ip, hpc, ap, apc>>

\* The attempt fails, or the link is lost.
Cai ==
  /\ ~ap /\ sta \in {"associando", "associada", "com_ip"}
  /\ sta' = "ociosa"
  /\ ip' = SEM_IP
  /\ Posta("STA_DISCONNECTED", SEM_IP)
  /\ UNCHANGED <<s_connected, s_ip, hpc, ap, apc>>

ApMuda ==
  /\ ap' = ~ap
  /\ UNCHANGED <<s_connected, s_ip, hpc, fila, sta, ip, apc>>

(***************************************************************************)
(* event_handler, in the task of the event loop.                           *)
(***************************************************************************)
Trata(tipo, de) == fila # <<>> /\ Head(fila).tipo = tipo /\ hpc = de

Conclui == hpc' = "livre" /\ fila' = Tail(fila)

\* Mutant: the flag goes up before the address is written.
PrimeiroDoGotIp_flag == s_connected' = TRUE /\ UNCHANGED s_ip

\* The address is formatted first.
PrimeiroDoGotIp == s_ip' = Head(fila).ip /\ UNCHANGED s_connected

TrataGotIp ==
  /\ \/ /\ Trata("STA_GOT_IP", "livre")
        /\ PrimeiroDoGotIp
        /\ hpc' = "endereco_escrito"
        /\ UNCHANGED fila
     \/ /\ Trata("STA_GOT_IP", "endereco_escrito")
        /\ s_connected' = TRUE
        /\ Conclui
        /\ UNCHANGED s_ip
  /\ UNCHANGED <<sta, ip, ap, apc>>

\* Mutant: only the address is cleared.
BaixaFlag_esquece == UNCHANGED <<s_connected, sta>>

\* Mutant: the new attempt starts before the loss is recorded.
BaixaFlag_ja_conectando == s_connected' = FALSE /\ esp_wifi_connect

BaixaFlag == s_connected' = FALSE /\ UNCHANGED sta

TrataDisconnected ==
  /\ \/ /\ Trata("STA_DISCONNECTED", "livre")
        /\ BaixaFlag
        /\ hpc' = "flag_baixada"
        /\ UNCHANGED s_ip
     \/ /\ Trata("STA_DISCONNECTED", "flag_baixada")
        /\ s_ip' = SEM_IP
        /\ hpc' = "conecta"
        /\ UNCHANGED <<s_connected, sta>>
  /\ UNCHANGED <<fila, ip, ap, apc>>

\* Mutant: the station connects after a start and never again.
PedeConexao_so_no_inicio ==
  IF hpc = "livre" THEN esp_wifi_connect ELSE UNCHANGED sta

PedeConexao == esp_wifi_connect

\* The whole handler of STA_START; the last statement of STA_DISCONNECTED.
Conecta ==
  /\ Trata("STA_START", "livre") \/ Trata("STA_DISCONNECTED", "conecta")
  /\ PedeConexao
  /\ Conclui
  /\ UNCHANGED <<s_connected, s_ip, ip, ap, apc>>

event_handler == TrataGotIp \/ TrataDisconnected \/ Conecta

(***************************************************************************)
(* app_main.                                                               *)
(***************************************************************************)
\* Relays, meter, button and display, then netwifi_init to esp_wifi_start.
netwifi_init ==
  /\ apc = "init"
  /\ apc' = "espera_wifi"
  /\ sta' = "ociosa"
  /\ Posta("STA_START", SEM_IP)
  /\ UNCHANGED <<s_connected, s_ip, hpc, ip, ap>>

\* while (!netwifi_is_connected()) vTaskDelay(500 ms); then timekeeper_init,
\* mqttclient_init and the two tasks.
CriaTarefas ==
  /\ apc = "espera_wifi" /\ s_connected
  /\ apc' = "tarefas_criadas"
  /\ UNCHANGED <<s_connected, s_ip, hpc, fila, sta, ip, ap>>

Next ==
  \/ Associa \/ Endereca \/ Cai \/ ApMuda
  \/ event_handler
  \/ netwifi_init \/ CriaTarefas

\* The tasks of the firmware and of the driver are scheduled; the driver
\* finishes what the radio allows.  Nothing is assumed of the access point.
Fairness ==
  /\ WF_vars(event_handler)
  /\ WF_vars(netwifi_init) /\ WF_vars(CriaTarefas)
  /\ WF_vars(Associa) /\ WF_vars(Endereca) /\ WF_vars(Cai)

Spec == Init /\ [][Next]_vars /\ Fairness

-----------------------------------------------------------------------------
\* Types; and the queue never holds more than one connection and its loss,
\* because the handler asks for a new attempt in its last statement.
TypeOK ==
  /\ s_connected \in BOOLEAN /\ ap \in BOOLEAN
  /\ s_ip \in Enderecos \cup {SEM_IP} /\ ip \in Enderecos \cup {SEM_IP}
  /\ hpc \in {"livre", "endereco_escrito", "flag_baixada", "conecta"}
  /\ Len(fila) <= 2
  /\ \A i \in DOMAIN fila : /\ fila[i].tipo \in {"STA_START", "STA_DISCONNECTED", "STA_GOT_IP"}
                            /\ fila[i].ip \in Enderecos \cup {SEM_IP}
  /\ sta \in {"parada", "ociosa", "associando", "associada", "com_ip"}
  /\ apc \in {"init", "espera_wifi", "tarefas_criadas"}

\* A station that is idle is never forgotten: what will make it connect again
\* is queued or being handled (netwifi.cpp:23-33).
ReconexaoPendente ==
  sta = "ociosa" =>
    \E i \in DOMAIN fila : fila[i].tipo \in {"STA_START", "STA_DISCONNECTED"}

\* Once every event is handled, the flag and the address the other tasks poll
\* say what the driver says, in whatever order links came and went
\* (netwifi.cpp:28-46).
EstadoFiel ==
  fila = <<>> => s_ip = ip /\ (s_connected <=> sta = "com_ip")

\* While the flag is up the address is there, not 0.0.0.0: the handlers write
\* the two in opposite orders (netwifi.cpp:29-30 and 39-43).
FlagComEndereco == s_connected => s_ip # SEM_IP

\* If the access point stays in reach from some moment on, the station is
\* connected from some moment on, and the tasks of the firmware exist
\* (netwifi.cpp:28-34, main.cpp:321-346).
ReconectaEParte ==
  <>[]ap => <>[](s_connected /\ apc = "tarefas_criadas")
=============================================================================
