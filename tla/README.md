# HidroControl-3: verification of the firmware

HidroControl-3 is the firmware (ESP32, ESP-IDF, C++) of a two-pump hydraulic
controller. Two flow sensors, cold (*frio*) and hot (*quente*), tell when water is
drawn; two relays power the pumps; a button and an MQTT broker choose one of three
modes (NORMAL, DUO, MIX); a display and a telemetry message show the state. This
directory holds TLA+ models of that code, the TLC runs that check them and TLAPS
proofs about them. Paths below are relative to the repository (`src/*.cpp` are the
files the map in `PROJECT.json` calls `src/src/*.cpp`; `mqtt_client.c`,
`mqtt_msg.c` and `mqtt_outbox.c` are those of `managed_components/espressif__mqtt`).

## 1. Inventory

| component | state | operations | who touches it |
|---|---|---|---|
| flow meter, `fluxo.cpp` | two atomic pulse counters; counters of the last window; verdicts, stop stamps, instant of the last window | `isr_fluxo_*`, `fluxo_init`, `fluxo_update`, getters | interrupts write the counters, the control task everything else |
| mode and button, `modos.cpp` | `s_modo`; debounce state | `modos_set`, `modos_next`, `modos_update_button`, `modos_get` | the control task and the task of the MQTT client, on two cores, with no lock |
| relays, `reles.cpp` | cached states; levels of two pins | `reles_init`, `reles_set_*`, getters | control task |
| control task, `main.cpp` | locals of one iteration; `last_log`, `last_mqtt_pub` | `task_hidrocontrol`, `hold_off_active` | calls all of the above, the display and the publication |
| Wi-Fi and start-up, `netwifi.cpp`, `app_main` | `s_connected`, `s_ip` | `event_handler`, `netwifi_init`, pollers; `app_main` | event task writes, `app_main` and the control task poll |
| MQTT client, `mqttclient.cpp` | `s_client`, `s_connected` | `mqttclient_init`, `mqtt_event_handler`, command reception, `mqttclient_publish_telemetry` | task of the library (the handler), control task (the publication) |
| esp-mqtt library, `mqtt_client.c`, `mqtt_msg.c`, `mqtt_outbox.c` | client state, recursive API lock, outbox, two buffers, transport | creation and undoing, `esp_mqtt_task`, subscribe, publish, encoding, framing | its own task, and any caller, under its lock except while it polls |
| time keeper, `timekeeper.cpp` | clock, synchronisation flag | SNTP callback, `timekeeper_get_*` | task of the TCP/IP stack, control task |
| display, `oled.cpp` | frame buffer, I2C device, `s_ok`; memory, pointer and settings of the chip, which outlive a restart of the ESP32 | drawing, `oled_init`, `oled_flush` | `app_main`, then the control task |
| identity, `deviceid.cpp` | constant string | `deviceid_get` | everybody |
| heartbeat, `task_blink` | a local | toggles the LED | nobody else |

What is hard here, and a unit test would hardly reach:

* **time.** Every stamp is a `uint32_t` of milliseconds that wraps every 49.7 days,
  is 0 for "never", and is compared with a clock read at another moment than the
  stamp. The control loop can be preempted between any two statements and is held
  by its own I2C transfers and socket writes.
* **sharing.** Interrupts against the loads of the meter; two tasks on `s_modo`;
  event task against the pollers of the Wi-Fi flag; a publication of the
  control task against the library's task, which polls without its lock.
* **chains.** Pulse -> window -> verdict -> stamp -> decision -> mode -> cached relay ->
  pin: a pump is right only if all of them are, in real time.
* **the network.** A write that fails keeps its message; an acknowledgement may come
  for what was given up, or sent again, over a connection that is not the one of the
  message; any allocation, connection or subscription may be refused.
* **bytes.** Messages arrive cut anywhere, longer than the buffer or after a pause;
  one buffer is shared by all that are sent.
* **start.** Nothing controls the pumps before the first Wi-Fi connection.
* **the display.** No result of its bus is looked at, and it has no reset pin: what a lost
  command, half a transfer or a restart in the middle of a frame leaves in it stays there.

The same list, line by line and with the properties that answer each point, is
`hazards` in `PROJECT.json`. What makes each component correct:

* *meter*: each pulse weighed exactly once, over whole windows, equal for both
  circuits; each stop stamped.
* *button*: no bounce believed, one press one advance, a held button seen, the
  announced cycle kept.
* *control*: the pins show one decision of one mode; nothing in the first seconds;
  a pump on in time, off in time, never cut inside its off-delay, never started
  without water.
* *Wi-Fi*: a reconnection always on its way; flag and address truthful; the
  firmware starts.
* *MQTT*: the flag truthful; telemetry delivered at least once or given up for its
  age, and reported only if the broker has it; a command acknowledged only once applied;
  a connection that comes back with its subscription; a lock that is always let go.
* *library*: creation undone once and completely; messages encoded and framed whole.
* *time keeper*: the two times of one payload do not contradict each other.
* *display*: a start without failures leaves it on and set as asked; a frame without
  failures is shown whole and in its place; what the failures cost is bounded; lines joined.

## 2. Modules

```
Uint32 <- Placa <- Fluxo ----.           Medidor (abstract meter)
             ^               |               ^
             |--- Modos <- Botao             | FluxoRefina (refinement mapping)
             '--- Reles      |               |
                     Controle = Fluxo + Modos + Reles + task_hidrocontrol
                       ^    ^
        ControleRetardo     ControleResposta        Rede (netwifi + app_main)

Outbox <- Broker (connection and broker, external) <-.       Telemetria (abstract)
               Tratador (mqtt_event_handler) <--- EspMqtt (library)   ^
                                                     ^                | refinement
                                                  MqttClient ---------'
Inicio (creation)    MqttMsg <- Pacotes (bytes out, bytes in)    TimeKeeper    Linha
Ssd1306 (display chip, external) <- Oled
```

| module | models | state and actions against the code |
|---|---|---|
| `Uint32` | machine arithmetic | increment and difference of a counter of a given modulus |
| `Placa` | the board | `agora` is `esp_timer_get_time()`; `millis32` its 32-bit reading; `Idade(now, t)` is `(uint32_t)(now - t)` |
| `Fluxo` | `fluxo.cpp` | `isr_fluxo`; `fluxo_update` as `FluxoJanela` (clock, window test), `FluxoCarrega` (the two loads), `FluxoCalcula` (differences, verdicts, stamps). `upc` is the program counter |
| `Medidor`, `FluxoRefina` | what the meter promises | no wrapping counter, no load: a bag of pulses not yet weighed and one atomic measurement. `FluxoRefina` maps the counters' difference and the span not yet judged to it |
| `Modos` | `modos.cpp`, command reception | `SetCompara` / `SetEscreve` are the two accesses of `modos_set`, by either task; `NextLe` the read of `modos_next`; `BotaoRelogio` / `BotaoAmostra` the clock and the pin of `modos_update_button` |
| `Botao` | the button alone | the control task reduced to its calls of the button, a clock that goes round for ever, and a history of what the pin showed |
| `Reles` | `reles.cpp` | `reles_set` with its cached state |
| `Controle` | `task_hidrocontrol` | `cpc` is the program counter; one action per statement that touches shared state or takes time; `gasto` counts the ticks spent in the current section and `Limite` bounds them |
| `ControleRetardo` | off-delay | history: when each flow really stopped, decisions in a row that denied a demand |
| `ControleResposta` | response times | history: pulses and silence in real ticks |
| `Rede` | `netwifi.cpp`, `app_main` | `event_handler` statement by statement on the head of the event queue; the driver is external: it accepts a connection request when idle, and posts events |
| `Outbox` | `mqtt_outbox.c` | the tail queue as a sequence; enqueue, get, dequeue, delete, expire, set pending as operators |
| `Broker` | external: connection, broker | two queues of packets; a broker that answers what it reads; a connection that may die, refuse, time out or be cut in the middle of a packet, each a failure that `MaxFalhas` counts |
| `Tratador` | `mqtt_event_handler` | what each event does to `s_connected`, to the commands applied and to the reports; they run inside the library's steps, as in the code |
| `EspMqtt` | `esp_mqtt_task`, `esp_mqtt_client_subscribe`, `_publish` | `lpc` is the position in the loop, `trava` the API lock; each branch of the `switch` is a chain of actions with its failures beside them |
| `MqttClient` | `mqttclient_publish_telemetry` over all of it | the test of the flag, the payload, then the call as three steps of the control task |
| `Telemetria` | what the client promises | messages pending, on their way, delivered, reported; no identifier, no connection |
| `Inicio` | `mqttclient_init`, `esp_mqtt_client_init`, `esp_mqtt_set_config`, start, first transport | resources `nulo`, `vivo` or `solto`; one action per allocation that may fail and one per function that undoes |
| `MqttMsg` | `mqtt_msg.c`, the writing loop of `esp_mqtt_client_publish` | the shared buffer, its offset and length fields; bytes as tagged pairs, lengths in a small base |
| `Pacotes` | `mqtt_message_receive`, `deliver_publish` | the broker adds messages to one stream at any time; it is read in any pieces, against the messages that were sent |
| `TimeKeeper` | `timekeeper.cpp`, stamps of a payload | clock, flag, callback, and the two readings of the publication as separate steps |
| `Ssd1306` | external: the display's controller | memory, pointer, addressing mode, the settings by the command that makes them, and the command that waits for its argument; kept through a restart of the ESP32 |
| `Oled` | `oled.cpp` | `oled_init` command by command (`INIT_CMDS`), any of which may be lost; the commands and the data bytes of `oled_flush`, where a transfer may fail after any of its bytes; restarts at any step |
| `Linha` | `oled_line`, `oled_pixel` | the error term, the loop and the bits of the buffer, against the true line |

`MC*` modules only extend a specification, for TLC; `MCPartes` puts side by side the
parts that work on data of their own, so that a behaviour is one of one part while
the others stand still. The theorems are in `ControleProofs` (meter and control task),
`BotaoProofs`, `RetardoProofs` (off-delay), `RespostaProofs` (response times), `MqttProofs`
(client, and its creation), `MsgProofs` (messages) and `PartesProofs` (Wi-Fi, time keeper,
display); `BaseProofs` holds the lemmas that several of them share.

Choices of abstraction. The floats of the meter are the exact inequality they
compute (they may differ from it at equality only). A received message is the mode
it asks for; a payload or a topic that is not recognised changes nothing. In `Controle`
the display and the publication are stalls of bounded length: what they transfer
changes no state of that module. Two identical functions for the two circuits are one
operator with the circuit as a parameter. In `EspMqtt` a command is its own
identifier, so that what the broker was told can be compared with what was applied,
and a new identifier is one that nothing on its way carries. Timers are choices: one may
have elapsed whenever it is looked at, unless that needs a late peer, which is a failure.

## 3. Runs

| run | question | result |
|---|---|---|
| `botao` | is the debounce right with late calls, preemption and a wrapping clock? | holds |
| `botao_corrida` | does the button keep the announced cycle? | **violated**: a command between read and store is lost |
| `modos` | do the pins show one decision of one mode, and is the off-delay kept, through mode changes by the button and the broker (no preemption in a decision)? | holds |
| `retardo_atraso` | with preemption, is a denied demand granted at once afterwards; is a pump cut in its off-delay only by the decision that found the flow stopped; does no pump start without water, nor in the first seconds? | holds |
| `retardo_relogio` | is the off-delay kept with preemption? | **violated**: the stamp is ahead of the clock |
| `retardo_volta` | does no pump start without water after 49.7 days? | **violated**: the old stamp looks fresh |
| `resposta_desliga` | is a pump off in time after the last pulse? | holds |
| `resposta_liga` | is a pump on in time after water begins to run? | holds |
| `resposta_volta` | the same after 49.7 days | **violated**: the initial inhibition comes back |
| `rede` | reconnection, truth of flag and address, start | holds |
| `mqtt` | is the polled flag coherent, is no acknowledged command lost, is telemetry delivered at least once or given up, does the client come back with its subscription? | holds |
| `partes` | the meter against the abstract meter; the creation of the client with failing allocations; messages out and in; stamps of a payload; the display over a failing bus and through restarts; lines | holds |

The four violations are the `findings` of `PROJECT.json`, each with the line of the
repository it contradicts. Some properties that hold name the exceptions under which
the code really fails, and these are worth reading as such: `ClienteInteiro` (an
allocation of a buffer that fails is reported as success), `MensagemInteira` (a
publication without memory spoils the next message of the library), `QuadroCerto` (a
length that is resumed after its end; a sender that stops in a long message),
`QuadroMostrado` and `TelaAcesa` (section 4),
`ReconectaEAssina` (a subscription that is refused, or has no memory, is never asked
for again on that connection). They are hazards of `PROJECT.json`, and not findings,
because no line of the repository promises the opposite.

### Bounds and why they are enough

* *Clock.* One tick is the unit of every delay of a configuration. `MaxTempo` is the
  horizon. In runs about the wrap the modulus is smaller than the horizon; in the
  others it is larger, which is the first 49.7 days. `Botao` has no horizon: its
  clock is a cycle, so the button is checked over all time.
* *Delays.* `MCRetardoAtraso`, `MCRetardoRelogio` and `MCRetardoVolta` keep the
  code's delays in seconds (window 1, inhibition 3, off-delay 5, display 1,
  publication 5). The other runs shorten them in the same order (window not longer
  than the off-delay), so that several windows, stops and decisions fit in the horizon.
  `MCRespostaLiga` and `MCPartes` use half-second ticks: there one pulse in a long
  window is below the 0.10 L/min threshold, and the numeric edge of the verdict matters.
* *Counters.* `PULSO_MOD` is small, so counters wrap often. An interrupt is not
  taken when `PULSO_MOD - 1` pulses wait to be weighed: on the target that would be
  2^32 pulses in one window.
* *Stalls.* `BOOT_MAX`, `EXEC_MAX`, `OLED_MAX`, `PUB_MAX`, `ESPERA_MAX` bound the time
  spent waiting for the Wi-Fi, between the clock and the relays, in the display, in
  the publication and in `vTaskDelay`. A run has each stall its question is about.
  The deadlines of `ControleResposta` are formulas over them, not numbers; TLC found
  a smaller value of either violated while they were being derived. `resposta_liga` has
  a wait for the Wi-Fi longer than the inhibition and than any window, which is when
  the first window decides how long the start takes. It has no preemption inside a
  decision: with its window of two ticks a pulse that moves to the next window leaves one
  below the threshold. The theorem has both, under the hypothesis that says when a
  window is long enough for that.
* *Water.* `Sensores` names the circuits where pulses may come. The runs of the
  control task use the hot one, because in MIX and DUO it drives both
  relays; the theorems and `partes` cover both circuits.
* *Rede.* Three addresses, so that a reconnection may bring one different from the
  last two. No bound on the queue: that it never exceeds two events is checked.
* *MqttClient.* One publication, one command, two failures of any kind in a behaviour
  (two, because a recovery may itself fail: a write that fails, then the connection that
  should repair it). `MaxVoo` stops resending when two packets are under way; what the
  client must send in any case is not stopped. Five identifiers are never
  exhausted. The theorems lift the bounds on publications, commands and failures
  for everything but liveness.
* *Partes.* Payloads of the lengths around one and two digits of the length field and
  around one and two buffers; up to two messages in the stream, sent at any time and cut
  anywhere (the second shows that the first left the reader at its beginning, and the
  theorem has any number); a display of two
  pages of two pieces of two columns, any number of frames and of failed transfers in them, and
  two (`MaxAzares`) lost commands of `oled_init` or restarts in all: one to leave the display wrong
  or half way through something, one more while it is repaired (the theorems have any
  number). The mutants of the three display properties need one at most. Lines between
  all pairs of points inside, at the edges of and outside the screen, more than the firmware draws, whose lines all
  have constant ends inside the screen. The creation of the client
  has no bound.

### Fairness

`Botao`: weak fairness of the clock and of the control task, which has priority 5 and
blocks only in its own finite delays; none of the broker or the person. `Rede`: weak
fairness of the event task, of `app_main` and of the driver's internal steps; none of the
access point, so its coming and going is arbitrary, and the liveness property assumes
that it finally stays (without one the firmware never starts: `app_main` waits for ever).

`MqttClient`: weak fairness of the library's task and of the broker, which reads what
arrives on a living connection; and of a connection cut in the middle of a packet, which
the peer ends. Strong fairness of the steps that wait for a timer (`Ping`, `SemPingresp`,
`Reconecta`, `Retransmite`): the loop looks at the timer again and again, and the time
between two looks is at most the poll timeout, so one look finds it elapsed. Strong
fairness of `Publica`: the mutex of FreeRTOS is given to the highest waiting task, and
the library lets it go in each iteration. None of failures: they are finite in number,
which is the premise of the two liveness properties, and none of new publications or
commands. The other safety runs state no fairness.

## 4. Proofs

All theorems hold for every value of the constants allowed by the named assumptions
(`PlacaAssumption`, `FluxoAssumption`, `ModosAssumption`, `ControleAssumption`,
`BotaoAssumption`, `RedeAssumption`, `BrokerAssumption`, `IdsAssumption`,
`MaxPubAssumption`, `MsgAssumption`, `PacAssumption`, `TempoAssumption`, `OledAssumption`, `LinhaAssumption`). They say only
that moduli, windows and sizes are positive and the rest natural numbers; that 0.0.0.0 is no
address to be leased; that a command is not the identifier of a message of the
client, which is a matter of names in the model; that no payload is empty
or longer than four digits of a length can say, and the buffer holds the longest of the
library's own messages (26 bytes in the model, whose texts are short); that the buffer of what arrives
holds all of a publication but its data (header, topic, identifier); that the display has
no more pages, pieces and columns than the real one (eight, eight, sixteen); and that the screen of the
lines is made of pages of eight rows, with no more bytes than a `uint16_t` can index. The creation of the
client has no constants: its theorems add to the run an argument that can be read.

`PacAssumption` hides a defect of the library, which is not modelled. The length that
`mqtt_client.c:1328` compares with the buffer is `fixed_header_len + topic_len + 2` (the last for
QoS 1): it leaves out the two bytes that hold the length of the topic. A publication whose
header is one or two bytes longer than the buffer is therefore accepted, and `mqtt_get_id`
(line 1397) then looks for the identifier beyond what was read. `Total` counts those two bytes
and stops with an error instead. The two agree on every header that fits the buffer, which is
what the assumption asks; the firmware subscribes to one topic, which fits in its 1024 bytes with
much to spare.

* `FluxoTipos`: types of the meter. `FluxoImplementaMedidor`: `FluxoSpec` implements
  `Medidor`. The invariant says that a span being judged is at least one window long and
  ends no later than the clock, and that a loaded counter lies between the counter of the
  last window and the present one in wrapping order: the pulses up to the load plus those
  after it are the pulses waiting, which is what makes a measurement lose none.
* `ControleTipos`, `ControleInibe`, `ControleCoerente`, from one inductive invariant `Inv`
  of `Controle`. It strengthens the properties with what holds half way: while the relays
  are being driven it is the *decision* that is coherent with the mode read, the cold pin
  shows it already when the hot one is about to, and the clock of the decision is never
  ahead of the board's, not even across the wrap: so an inhibition that is over for the
  decision is over in real time.
* `ControleMede`: the meter still implements `Medidor` inside the control task (every step
  of `Controle` is a step of the meter or leaves it alone).
* `UmaFalhaSo`, `LigaSomenteComDemanda`, `CortaSomenteNaParada`, from the invariant `RInv`
  of `ControleRetardo`, under `MaxTempo < MS_MOD`: within the first turn of the clock the
  stamp of a circuit *is* the tick of its last stop and is never 0; the clock of the
  decision is exactly `gasto` old; what the decision saw of a demand is granted; a
  circuit just denied has no falling edge left for the next decision to miss; a pump that
  runs is past the inhibition. None of them assumes anything of `EXEC_MAX`: that the off-delay is
  always kept, `RetardoRespeitado`, is false once the clock can tick inside a decision (run
  `retardo_relogio`), and `CortaSomenteNaParada` says exactly how far: a pump is cut inside its
  off-delay only by the decision that itself found the flow stopped, after it had read its clock.
  With `EXEC_MAX = 0` that cannot be, and it is `RetardoRespeitado`, which the run `modos` checks.
  `MaxTempo < MS_MOD` is necessary: `retardo_volta` is the counterexample to the second without it,
  and the inhibition that comes back at the turn (`resposta_volta`) the one to the third.
* `RespostaDesliga` and `RespostaLiga`, the deadlines of the chain from the pulses to the
  pumps, for every stall, mode command and window. Both assume `MaxTempo < MS_MOD` (the run
  `resposta_volta` is the counterexample to the second without it) and `DELAY_OFF + Volta > 0`,
  that is, that the loop or the off-delay takes some time at all. `RespostaLiga` also
  assumes that a window with a pulse in each tick, but for the first and for those the
  loads may lag behind, is over the threshold of 0.10 L/min; with a window of one second
  and ticks of a millisecond this holds for any lag up to 99.9 % of the window.
  The invariant of the first (`DInv`) follows the last pulse: one that is not weighed
  is no older than the open window, a verdict no older than its window and the one before, a
  stamp no older than the window found dry, a decision and a driven pump no older than what
  they were taken on; each of the sections of the loop adds at most its stall
  (`SecoesInv`), and a window is never longer than an iteration lets it be (`JanelaInv`). The
  second adds the water that runs (`CorridaInv`): in the open window a circuit that has run for
  so many ticks has as many pulses, up to the tick at either end, so a window found dry dates
  the beginning of the run; and a pump that is off (`ParadasInv`) is off because its circuit
  was found dry, or because of the inhibition, no longer ago than one iteration. What the
  proof needed and the run had not shown is the term `Arranque`: the deadline holds only after
  the inhibition *and* the first window, which averages over the whole wait for the Wi-Fi.
* `BotaoTipado`, `BotaoEstavel`, `BotaoAvancaUmaVez`, for a clock that turns for ever. The
  invariant `BotaoInv` compares the age of the last change of the sample as the stamps give it
  with the one of the history: preemption makes the first larger by its own length at
  most, and the wrap only makes it smaller, so what passes the test of the debounce passed
  it in real time. A released level seen since the last advance is what a second one needs.
* `RedeTipos`, `RedeReconecta`, `RedeFiel`, `RedeFlag`, for any set of addresses. The queue
  carries the argument: for each state of the station the invariant lists the queues that
  are possible with it, never more than two events long, and what flag and address may be.
  No task reads the address yet (`netwifi_ip()` has no caller): `RedeFlag` is what the interface
  promises to the first that does.
* `TempoCoerente`: the stamp, the flag and the pending callback are each evidence that
  the clock was beyond the limit, and it never comes back below it.
* `OledAtraso`, `OledAcende`, `OledMostra`, for displays of any size, any number of lost
  commands of `oled_init`, of transfers that fail after any of their bytes, and of restarts at any
  step. The number of failures is bounded by the page and the step of the transfer. The settings are
  followed through the 28 commands: each is made once, by a command that nothing later undoes, and
  an argument the display was still waiting for costs only the first, `0xAE`, which is harmless
  because `0xAF` comes last. In a frame without failures the bytes shown so far are those before the
  present one, with the pointer where the next one goes. That last property has three exceptions,
  each of which the code really has, for as long as the setting stays as it is:
  - a chip that follows its manual ignores the commands `0xB0`, `0x00` and `0x10` outside
    the page mode. `oled_init` asks for the horizontal mode, so after a transfer of a flush that
    failed, or a restart that found the pointer elsewhere, frames stay displaced (`obedece`, `fora`).
    Many chips obey these commands in every mode, and on them nothing is displaced;
  - a start-up command whose argument was lost takes the next byte for it. The display may
    still be waiting when a flush begins and then takes the first of its commands (`engoliu`);
  - if `0x20` arrives and its argument and the five bytes that follow are all lost, `0x81` is
    taken for it, which is the vertical mode, where data run down the pages.

  `TelaAcesa` in turn says nothing of an `oled_init` that lost a command. `0xAF`, `0x8D` or `0x14`
  lost leaves the display dark; `0xA1` or `0xC8`, mirrored; `0x81`, shifted, because `0x7F` is then the
  start line 63. `s_ok` is raised all the same, and no frame repeats these commands, so it
  lasts until the next restart. `QuadroMostrado` is about the memory of the display, and holds then too.

  What is assumed of the chip: it is powered with the ESP32 and only then has the settings
  of its manual; it keeps everything through a restart of the ESP32; bytes its manual does not
  define as commands have no effect; mode 3, which the manual reserves, is taken for the page mode; data do not end the wait for
  an argument. A transfer that failed has delivered the bytes that the display acknowledged and no
  others.
* `LinhaFiel`, for lines between any two points and displays of any size. The invariant
  (`Caminho`) says that the error term is the deviation of the present pixel from the true
  line, up to a constant, and that twice the deviation is at most the longer side. A turn
  always steps along the longer side, and along the shorter one exactly when this brings the
  pixel closer, so the bound is kept; a pixel at the end of the longer side is the end itself,
  because a deviation of a whole pixel would exceed the bound.
* `NadaVaza`, `InteiroAoConectar`, from `InicioInv`. Resources are obtained in a fixed order,
  so a position in it says what is there, but for the scheme, the host and the event
  loop, which nobody checks. On the way back the only pointers ever stale are those of
  the two buffers, and only once the configuration that leads to them is gone, so the
  second visit of `esp_mqtt_destroy_config` does nothing. The one way to pass the event
  loop without a configuration is the buffer whose failure is reported as `ESP_OK`.
* `MensagemChegaInteira`, from `MsgInv`, for every base, buffer and set of payloads that
  `MsgAssumption` allows and any number of messages. Three arguments meet in it. The digits of
  a length are its quotients by the powers of the base; there are at most four, so the
  sum of the receiver is unfolded by hand (`Soma`, `TotalLido`), and the flag of all but the
  last tells it where the body begins (`CabecalhoLido`). A message is made piece by piece and each
  piece that fits continues the body (`PoeMonta`, `FiniMonta`). And in the loop of a
  publication what was written, followed by what is in the buffer, is the item up to the byte that
  `remaining_len` and `current_data` name (`Escrevendo`), so that the last turn completes it.
  The offset that the messages before left behind is the strengthening it needs:
  `fini_message` moves it in every message, but nothing ever makes it larger than 12, the
  fixed header and the front of a publication, so a message that fits never looks shorter than its
  data. Before it was proved, the powers of the base became a tuple, for which the
  provers need no theory of exponents.
* `QuadroChegaCerto`, from `PacInv`, for any number of messages and any cuts. The invariant
  has two halves. `CorrenteInv` says of the stream that each message sent is in it at the
  place noted for it, whole, and that the next begins where it ends; only the broker's step
  disturbs it. `LeitorInv` says of the reader that the buffer has the beginning of the first
  message not done, and that the position in the stream is that of the buffer: `Lendo`
  says, for each step of the reading, what this beginning has and has not yet (the length, the
  topic, the part that is asked for), and `Entregando` relates, once data were delivered, the
  position to the events so far. The property alone says nothing while a message is half
  read, and an interruption may come at every byte. What the header says of the lengths is
  known to the reader as soon as the header is in the buffer (`ComecoLido`, on the lemmas
  of the messages written), so what it asks for never goes beyond the message. This is what
  fails in the excepted case: a length resumed after its end is read on into the body, and
  beyond a message that is shorter.
* `MqttConectado` from `LockInv`: the flag is up only over a connected client, and in
  the branches of the task the state is the one that chose the branch.
* `MqttTipos`, `MqttAck` from `DadosEntrada`: the packets on their way to the broker are
  of types that depend on what was applied (a PUBACK names an applied command), and
  `in_buffer` holds a command from its event to its PUBACK only.
* `MqttTelemetria`: `Spec` implements `Telemetria`. The invariant `TelInv` says that every
  body in use is of a publication already begun; that no two items have the same body; that an
  identifier means the same body in the outbox and in every copy on its way; and that an
  acknowledgement that still finds an item is of a body the broker has. The last two are
  why an acknowledgement that is late, doubled or of another connection cannot report a
  message that was lost. The proof first reduces the steps of the library to the few effects they
  have on packets and outbox (`EfeitoTarefa`, `EfeitoPublica`), so that each effect is treated once.

Every invariant and action property of a passing run is stated by a theorem. Model-checked
only: liveness (`PressaoReconhecida`, `ReconectaEParte`, `ReconectaEAssina`,
`TelemetriaResolvida`), which is out of the prover's reach.

## 5. Not modelled, and why

* Of the esp-mqtt library, what this firmware never reaches: QoS 2, unsubscribe,
  `esp_mqtt_client_enqueue`, `_disconnect`, `_reconnect`, `_stop`, event
  unregistration, last will, WebSocket transports, MQTT 5 (`mqtt5_client.c`,
  `mqtt5_msg.c`, compiled out). `platform_esp32_idf.c` only draws the identifiers.
* Two messages with one identifier. Identifiers are drawn at random from 65534 and the
  library does not look whether one is in use; `EspMqtt` draws a fresh one, and
  `MqttTelemetria` rests on it.
* The errors of the Wi-Fi driver other than being busy, and a lease that is lost without a
  disconnection: the sources say nothing of when they happen.
* Of the display, font, text, circles and icons: they only choose pixels, one by one.
* `deviceid.cpp`: a constant after start-up. `modos_nome` and all logging: wording.
* `task_blink`: shares nothing; only its creation is in `Rede`.
* The broker's configuration, the build files, other vendored and generated code.

## 6. What could follow

* Identifier collisions in `EspMqtt`, with the messages they lose as an exception.
