------------------------------ MODULE TimeKeeper ------------------------------
(***************************************************************************)
(* src/timekeeper.cpp, and the two readings of it that                     *)
(* mqttclient_publish_telemetry puts in one payload, against the task of   *)
(* the TCP/IP stack that sets the clock and then calls time_sync_cb.       *)
(* Seconds are few: LIMITE stands for 1700000000.                          *)
(***************************************************************************)
EXTENDS Naturals

CONSTANTS
  LIMITE,       \* a clock beyond this one was set
  MaxRelogio    \* bound: the clock stops there

ASSUME TempoAssumption == LIMITE \in Nat /\ MaxRelogio \in Nat

VARIABLES
  relogio,    \* time(nullptr)
  s_synced,
  sntp,       \* is time_sync_cb about to be called?
  tpc,        \* where the publication is
  carimbo,    \* the time stamp of the payload; SEM for the text "unsynced"
  epoch,      \* its epoch
  recuou      \* history: the clock was set back between the two

tempoVars == <<relogio, s_synced, sntp, tpc, carimbo, epoch, recuou>>

SEM == 0

\* The clock survives a restart that is not a loss of power.
TempoInit ==
  /\ relogio \in {0, LIMITE + 1}
  /\ s_synced = FALSE /\ sntp = "espera"
  /\ tpc = "fora" /\ carimbo = SEM /\ epoch = 0 /\ recuou = FALSE

Passa ==
  /\ relogio < MaxRelogio /\ relogio' = relogio + 1
  /\ UNCHANGED <<s_synced, sntp, tpc, carimbo, epoch, recuou>>

\* SNTP, at first and at every hour (external): the clock jumps to the time of
\* the server, which is after 2023, and may be behind its own.
Sincroniza ==
  /\ sntp = "espera" /\ sntp' = "avisa"
  /\ relogio' \in LIMITE + 1 .. MaxRelogio
  /\ recuou' = (recuou \/ relogio' < relogio)
  /\ UNCHANGED <<s_synced, tpc, carimbo, epoch>>

time_sync_cb ==
  /\ sntp = "avisa" /\ sntp' = "espera"
  /\ s_synced' = TRUE
  /\ UNCHANGED <<relogio, tpc, carimbo, epoch, recuou>>

\* The clock, and then the flag, which it may have raised.
Sincronizado == relogio > LIMITE \/ s_synced
timekeeper_is_synced == s_synced' = Sincronizado

\* Two readings of the clock, of which the first only says whether to read again.
timekeeper_get_timestamp ==
  \/ /\ tpc \in {"fora", "pronto"}
     /\ timekeeper_is_synced
     /\ tpc' = IF Sincronizado THEN "carimbo" ELSE "epoch"
     /\ carimbo' = SEM /\ epoch' = 0 /\ recuou' = FALSE
     /\ UNCHANGED <<relogio, sntp>>
  \/ /\ tpc = "carimbo" /\ tpc' = "epoch"
     /\ carimbo' = relogio /\ recuou' = FALSE
     /\ UNCHANGED <<relogio, s_synced, sntp, epoch>>

\* Mutant: the epoch is what the clock says, set or not.
timekeeper_get_epoch_sempre ==
  /\ tpc = "epoch" /\ tpc' = "pronto"
  /\ epoch' = relogio
  /\ UNCHANGED <<relogio, s_synced, sntp, carimbo, recuou>>

timekeeper_get_epoch ==
  \/ /\ tpc = "epoch"
     /\ timekeeper_is_synced
     /\ tpc' = IF Sincronizado THEN "epoch2" ELSE "pronto"
     /\ UNCHANGED <<relogio, sntp, carimbo, epoch, recuou>>
  \/ /\ tpc = "epoch2" /\ tpc' = "pronto"
     /\ epoch' = relogio
     /\ UNCHANGED <<relogio, s_synced, sntp, carimbo, recuou>>

TempoNext == Passa \/ Sincroniza \/ time_sync_cb \/ timekeeper_get_timestamp \/ timekeeper_get_epoch

TempoSpec == TempoInit /\ [][TempoNext]_tempoVars

-----------------------------------------------------------------------------
\* The two times of one payload, read one after the other while the clock is
\* being set, never contradict each other: a payload with a date has an epoch,
\* which is not before it unless the clock was set back in between; and neither
\* is ever a time of the boot (mqttclient.cpp:417-425, timekeeper.cpp:38-75).
CarimboCoerente ==
  /\ carimbo = SEM \/ carimbo > LIMITE
  /\ epoch = 0 \/ epoch > LIMITE
  /\ tpc = "pronto" /\ carimbo # SEM => epoch # 0 /\ (epoch >= carimbo \/ recuou)
=============================================================================
