-------------------------------- MODULE Inicio --------------------------------
(***************************************************************************)
(* How the MQTT client is created, and undone when a part of it cannot be: *)
(* mqttclient_init of src/mqttclient.cpp over esp_mqtt_client_init,        *)
(* esp_mqtt_set_config, esp_mqtt_client_register_event and                 *)
(* esp_mqtt_client_start, then the transport that the library's task       *)
(* creates anew for every connection.                                      *)
(*                                                                         *)
(* A resource is a pointer: nulo, vivo, or solto when what it points to    *)
(* was freed and the pointer was not cleared.  Any allocation may fail.    *)
(* The texts come from constants of the firmware; the options that are     *)
(* numbers, and those it leaves unset, hold nothing to free.               *)
(***************************************************************************)
EXTENDS Naturals, Sequences

\* In the order of the code.
Dados   == <<"error_handle", "api_lock", "outbox", "outbox_list", "status_bits">>
Reservas == <<"config", "buffer", "in_buffer">>
Textos  == <<"username", "password", "client_id", "uri">>
DaUri   == <<"scheme", "host">>
Transporte == <<"transport_list", "ssl", "verificacao">>
Ordem == <<"client">> \o Dados \o Reservas \o Textos \o <<"crt_bundle_attach">> \o DaUri \o <<"event_loop", "handler", "task">> \o Transporte
Recursos == {Ordem[i] : i \in DOMAIN Ordem}
Membros(s) == {s[i] : i \in DOMAIN s}

VARIABLES
  ipc,       \* what is done next: a resource to allocate, or a function that undoes
  rec,       \* the pointers
  err,       \* what set_config will return, or the error found by mqttclient_init
  s_client,  \* the pointer of mqttclient.cpp: nulo, vivo or solto
  duplo,     \* history: something was freed twice, or through a stale pointer
  faltou     \* history: what could not be allocated

inicioVars == <<ipc, rec, err, s_client, duplo, faltou>>

InicioInit ==
  /\ ipc = "client"
  /\ rec = [r \in Recursos |-> "nulo"]
  /\ err = "ESP_OK"
  /\ s_client = "nulo"
  /\ duplo = FALSE
  /\ faltou = {}

Seguinte(r) == LET i == CHOOSE j \in DOMAIN Ordem : Ordem[j] = r IN Ordem[i + 1]

\* One allocation that the code checks; falha is where its failure leads.
Obtem(r) ==
  /\ ipc = r
  /\ rec' = [rec EXCEPT ![r] = "vivo"]
  /\ ipc' = Seguinte(r)
  /\ UNCHANGED <<s_client, duplo, faltou>>

Falta(r, falha) ==
  /\ ipc = r
  /\ ipc' = falha
  /\ faltou' = faltou \cup {r}

\* free() of the pointers S, of which those of Limpas are cleared too, or are
\* gone with the structure that held them.
Libera(S, Limpas) ==
  /\ rec' = [r \in Recursos |-> IF r \in Limpas THEN "nulo"
                                ELSE IF r \in S /\ rec[r] = "vivo" THEN "solto" ELSE rec[r]]
  /\ duplo' = (duplo \/ \E r \in S : rec[r] = "solto")

(***************************************************************************)
(* esp_mqtt_client_init                                                    *)
(***************************************************************************)
esp_mqtt_client_init ==
  \/ Obtem("client") /\ UNCHANGED err
  \/ Falta("client", "devolve") /\ UNCHANGED <<rec, err, s_client, duplo>>

\* The list of the outbox is a part of it: outbox_init frees one without the other.
create_client_data ==
  \E r \in Membros(Dados) :
     \/ Obtem(r) /\ UNCHANGED err
     \/ /\ Falta(r, "destroy")
        /\ IF r = "outbox_list" THEN Libera({"outbox"}, {"outbox"}) ELSE UNCHANGED <<rec, duplo>>
        /\ UNCHANGED <<err, s_client>>

(***************************************************************************)
(* esp_mqtt_set_config                                                     *)
(***************************************************************************)
\* The configuration and the two buffers; err keeps the value it was
\* initialised with.
set_config_buffers ==
  \/ /\ \E r \in Membros(Reservas) : Obtem(r)
     /\ err' = "ESP_OK"
  \/ /\ Falta("config", "destroy")
     /\ err' = "ESP_ERR_NO_MEM"
     /\ UNCHANGED <<rec, s_client, duplo>>
  \/ /\ \E r \in {"buffer", "in_buffer"} : Falta(r, "destroy_config")
     /\ UNCHANGED <<rec, err, s_client, duplo>>

\* Mutant: a text that could not be copied is left unset.
set_config_texts_segue ==
  \E r \in Membros(Textos) :
     /\ err' = "ESP_ERR_NO_MEM"
     /\ Obtem(r) \/ (Falta(r, Seguinte(r)) /\ UNCHANGED <<rec, s_client, duplo>>)

\* The texts, each a copy made by esp_mqtt_set_if_config.
set_config_texts ==
  \E r \in Membros(Textos) :
     /\ err' = "ESP_ERR_NO_MEM"
     /\ \/ Obtem(r)
        \/ Falta(r, "destroy_config") /\ UNCHANGED <<rec, s_client, duplo>>

\* Of the options that are numbers or pointers to constants, the firmware sets the
\* function that gives the certificates.
set_config_options == Obtem("crt_bundle_attach") /\ UNCHANGED err

\* A missing scheme is taken for a scheme without TLS, which would conflict with
\* OpcoesTls: certificate, key and protocol options, none of which is set.
OpcoesTls == {}
esp_mqtt_check_cfg_conflict(esquema) ==
  IF esquema # "vivo" /\ OpcoesTls # {} THEN "ESP_ERR_INVALID_ARG" ELSE "ESP_OK"

\* esp_mqtt_client_set_uri does not look at what create_string returns.
esp_mqtt_client_set_uri ==
  \E r \in Membros(DaUri) :
     /\ \/ Obtem(r)
        \/ Falta(r, Seguinte(r)) /\ UNCHANGED <<rec, s_client, duplo>>
     /\ err' = IF r = "host" THEN esp_mqtt_check_cfg_conflict(rec["scheme"]) ELSE err

DaConfig == {"buffer", "in_buffer", "config", "event_loop", "handler"} \cup Membros(Textos) \cup Membros(DaUri)

ApagaConfig == (DaConfig \ {"buffer", "in_buffer"}) \cup {"crt_bundle_attach"}

\* Mutant: the configuration is not checked to be there.
esp_mqtt_destroy_config_sempre ==
  Libera(DaConfig, ApagaConfig)

\* The two buffers belong to the client, not to the configuration, and their
\* pointers stay as they were.
esp_mqtt_destroy_config ==
  IF rec["config"] = "nulo" THEN UNCHANGED <<rec, duplo>>
  ELSE Libera(DaConfig, ApagaConfig)

\* _mqtt_set_config_failed, and the caller's look at what was returned.
set_config_failed ==
  /\ ipc = "destroy_config"
  /\ esp_mqtt_destroy_config
  /\ ipc' = IF err = "ESP_OK" THEN "event_loop" ELSE "destroy"
  /\ UNCHANGED <<err, s_client, faltou>>

(***************************************************************************)
(* The end of esp_mqtt_client_init, and what mqttclient_init does next.    *)
(***************************************************************************)
\* The result is not checked.  The handle is stored in the configuration, and
\* without one this is a store through a null pointer, which stops the program.
event_loop_create ==
  /\ ipc = "event_loop"
  /\ IF rec["config"] = "nulo"
       THEN ipc' = "parado" /\ UNCHANGED <<rec, faltou>>
       ELSE /\ ipc' = "handler"
            /\ \/ rec' = [rec EXCEPT !["event_loop"] = "vivo"] /\ UNCHANGED faltou
               \/ faltou' = faltou \cup {"event_loop"} /\ UNCHANGED rec
  /\ s_client' = "vivo"
  /\ UNCHANGED <<err, duplo>>

\* No handler is registered with a loop that does not exist.
esp_mqtt_client_register_event ==
  \/ rec["event_loop"] = "vivo" /\ Obtem("handler") /\ UNCHANGED err
  \/ Falta("handler", "destroy") /\ err' = "ESP_FAIL" /\ UNCHANGED <<rec, s_client, duplo>>

esp_mqtt_client_start ==
  \/ Obtem("task") /\ UNCHANGED err
  \/ Falta("task", "destroy") /\ err' = "ESP_FAIL" /\ UNCHANGED <<rec, s_client, duplo>>

\* Mutant: the outbox is only freed if it holds nothing.
esp_mqtt_client_destroy_parcial ==
  \/ /\ ipc = "destroy" /\ ipc' = "destroy_client"
     /\ esp_mqtt_destroy_config
     /\ UNCHANGED <<err, s_client, faltou>>
  \/ /\ ipc = "destroy_client" /\ ipc' = "devolve"
     /\ LET S == {r \in {"client"} \cup (Membros(Dados) \ {"outbox", "outbox_list"}) : rec[r] # "nulo"} IN Libera(S, S)
     /\ s_client' = IF s_client = "vivo" THEN "solto" ELSE s_client
     /\ UNCHANGED <<err, faltou>>

\* The configuration, if set_config has not destroyed it; then what the client
\* has of its own, and the client.
esp_mqtt_client_destroy ==
  \/ /\ ipc = "destroy" /\ ipc' = "destroy_client"
     /\ esp_mqtt_destroy_config
     /\ UNCHANGED <<err, s_client, faltou>>
  \/ /\ ipc = "destroy_client" /\ ipc' = "devolve"
     /\ LET S == {r \in {"client"} \cup Membros(Dados) : rec[r] # "nulo"} IN Libera(S, S)
     /\ s_client' = IF s_client = "vivo" THEN "solto" ELSE s_client
     /\ UNCHANGED <<err, faltou>>

\* mqttclient_init clears its pointer and returns; only a message tells.
Devolve ==
  /\ ipc = "devolve"
  /\ s_client' = "nulo"
  /\ ipc' = "fim"
  /\ UNCHANGED <<rec, err, duplo, faltou>>

(***************************************************************************)
(* MQTT_STATE_INIT of esp_mqtt_task, at each connection.                   *)
(***************************************************************************)
\* The list of the last connection is destroyed with its transport.  A missing
\* scheme, or no memory, ends the task.
create_transport_list ==
  /\ ipc = "transport_list"
  /\ \/ /\ rec["scheme"] = "vivo"
        /\ rec' = [rec EXCEPT !["transport_list"] = "vivo", !["ssl"] = "nulo", !["verificacao"] = "nulo"]
        /\ ipc' = "ssl" /\ UNCHANGED faltou
     \/ /\ rec' = [rec EXCEPT !["transport_list"] = "nulo", !["ssl"] = "nulo", !["verificacao"] = "nulo"]
        /\ ipc' = "sem_tarefa"
        /\ faltou' = IF rec["scheme"] = "vivo" THEN faltou \cup {"transport_list"} ELSE faltou
  /\ UNCHANGED <<err, s_client, duplo>>

create_transport_ssl ==
  \/ ipc = "ssl" /\ rec' = [rec EXCEPT !["ssl"] = "vivo"] /\ ipc' = "verificacao" /\ UNCHANGED <<err, s_client, duplo, faltou>>
  \/ Falta("ssl", "sem_tarefa") /\ UNCHANGED <<rec, err, s_client, duplo>>

\* Mutant: what was set for the first transport is taken to hold for all.
set_ssl_transport_properties_primeira ==
  /\ ipc = "verificacao"
  /\ rec' = [rec EXCEPT !["verificacao"] = IF "refeito" \in faltou THEN @ ELSE rec["crt_bundle_attach"]]
  /\ faltou' = faltou \cup {"refeito"}
  /\ ipc' = "conecta"
  /\ UNCHANGED <<err, s_client, duplo>>

\* The new transport verifies the broker with what the configuration says; the
\* options it leaves unset are passed over, and no result is looked at.
set_ssl_transport_properties ==
  /\ ipc = "verificacao"
  /\ rec' = [rec EXCEPT !["verificacao"] = rec["crt_bundle_attach"]]
  /\ ipc' = "conecta"
  /\ UNCHANGED <<err, s_client, duplo, faltou>>

\* The connection ends, sooner or later, and another is tried.
OutraConexao ==
  /\ ipc = "conecta"
  /\ ipc' = "transport_list"
  /\ UNCHANGED <<rec, err, s_client, duplo, faltou>>

InicioFim == ipc \in {"fim", "parado", "sem_tarefa"} /\ UNCHANGED inicioVars

InicioNext ==
  \/ esp_mqtt_client_init \/ create_client_data
  \/ set_config_buffers \/ set_config_texts \/ set_config_options \/ esp_mqtt_client_set_uri \/ set_config_failed
  \/ event_loop_create \/ esp_mqtt_client_register_event \/ esp_mqtt_client_start
  \/ esp_mqtt_client_destroy \/ Devolve
  \/ create_transport_list \/ create_transport_ssl \/ set_ssl_transport_properties \/ OutraConexao
  \/ InicioFim

InicioSpec == InicioInit /\ [][InicioNext]_inicioVars

-----------------------------------------------------------------------------
\* However the creation fails, whatever it had obtained is given back, once and
\* only once, although esp_mqtt_destroy_config may be called twice on the way
\* and leaves two stale pointers behind (mqtt_client.c:428-435, 656-691, 923-947).
SemVazamento ==
  /\ ~duplo
  /\ ipc = "fim" => s_client = "nulo" /\ \A r \in Recursos : rec[r] # "vivo"

\* A client that the firmware was given is complete whenever it connects, but for
\* a name of the host nobody looked at; the library stops the program only if it
\* had no memory for one of its two buffers, a failure it reports as success, and
\* stops trying to connect only for lack of memory (mqtt_client.c:430-435, 1676).
ClienteInteiro ==
  /\ ipc = "conecta" => s_client = "vivo" /\ \A r \in Recursos \ {"host"} : rec[r] = "vivo"
  /\ ipc = "parado" => faltou \cap {"buffer", "in_buffer"} # {}
  /\ ipc = "sem_tarefa" => faltou \cap {"scheme", "transport_list", "ssl"} # {}
=============================================================================
