# Formal model of the EduBox HUB Board firmware

The Board is an ESP32-S3 that lets one client at a time (the Panel over BLE, a PC over USB or
UART) connect sensors and actuators to its terminals and drive them with VSCP, a line protocol
of requests and responses. What matters most is written in `docs/CONTROL_SAFETY.md`: one owner,
a supervised lease, and no output left active once the owner is gone. This project models that
core in TLA+, checks it with TLC, and proves its safety properties with TLAPS for every
number of transports, devices and pins and for every timing.

Paths below are relative to `src/` of the repository; `engine/`, `vscp/`, `edubox-ble/` and
`devices/` stand for `src/libraries/<name>/src/`.

## 1. The system

| Component | State | Operations | Interacts with |
|---|---|---|---|
| Exclusive control session, `engine/ExclusiveControlSession.hpp` | `owner_`, `hold_`, `probePending_`, `lastAlive_`, `lastProbe_` | `acquire`, `activity`, `release`, `poll` | called by the router before every request; calls `stopDevices_`, the server's `bye`, `closeSession`, `ping` |
| Device router, `engine/VscpDeviceRouter.cpp` with `engine/Device.hpp` | the registry: per device `connected`, `isInitialized`, `pins`; the levels of the GPIOs | INIT, CONNECT, DISCONNECT, UPDATE, CONFIG, CONTROL, RESET, `poll` (which runs `service()` of moving actuators), `stopAllDevices`, `notifyTransportDisconnected` | handlers of the server; drives the device drivers |
| VSCP server, `vscp/vscp_server.cpp` | per transport `initialized`, `closed`, `hold`, a PING exchange | `poll`, `dispatch`, `process`, `bye`, `ping`, `closeSession` | reads lines of the transports, calls the router |
| PING exchange, `vscp/vscp_ping.hpp` | state, start time, sequence number | `start`, `cancel`, `expire`, `result`, `consume` | one in every endpoint, one in the client |
| Main loop, `src/main.cpp` | BOOT timer, flags of `setup()` | `loop()`: BLE poll, loss notification, BOOT, router poll, server poll, router poll again; PAIR handler | everything above |
| BLE channel, `edubox-ble/ble_channel.hpp` | `online_`, `loss_`, generation, two queues of four lines, a partial line, message ids and offsets | `open`, `disconnect`, `fault`, `takeLoss`, `enqueue`, `read`, `receive`, `packet`, `confirm`, `expire` | shared by the BLE host task and the main loop under a mutex |
| BLE peripheral, `edubox-ble/ble_peripheral.cpp` | connection handle, authentication, subscription, trusted peer, pending indication, pairing window | `poll`, GATT callbacks, `forgetBond`, `openPairingWindow` | host task callbacks race `poll` of the main loop |
| BLE central, `edubox-ble/ble_central.cpp` (the Panel's side) | epochs, command, retry time, connection state | worker task, public calls, callbacks | the channel of the Panel |
| VSCP client, `vscp/vscp_client.cpp` | the open request, session flag, PING | `transact`, `poll`, `bye` | a transport to the Board |
| Codec, line transports, `vscp/` | a line buffer | parse, build, assemble lines with overflow recovery | server and client |
| Actuator drivers, `devices/` | position, timers, pins and LEDC channels in static variables | `attach`, `init`, `control`, `reset`, `service`, `detach` | the router |
| Sensor drivers with state, `devices/` | the encoder's counter, the IR receiver's task and objects, the ADC's resolution, the I2C bus, the colour sensor's stamp | `attach`, `init`, `update`, `config`, `reset`, `detach`; the edge interrupt; the IR task | the router; an interrupt, a task on the other core, and one another |
| Other sensor drivers, UART debugger, emulator, third-party drivers | - | - | not modelled, see section 7 |

Where this is hard:

* **Concurrency.** The VSCP server and the router run only in the main loop. The BLE host task
  runs beside it and can drop the link between any two steps, also between the reading of a
  request and its execution. The encoder counts in an interrupt, the IR receiver decodes in a task on the other core, both without
  the main loop's knowledge. On the Panel a worker task, the host's callbacks and the main loop share the state of the connection.
* **Ordering.** Expiry, BYE, INIT of another client, a link loss and a bond reset can meet in any
  order; each of them must stop the devices before control is given away.
* **Time.** Stamps are 32-bit milliseconds that wrap; a request may block the loop for a while,
  and requests queue up behind it. A probe's answer races its timeout and the lease.
* **Partial failure.** Writes of probes and BYEs fail, `init()` of a driver fails after its pins
  were taken, a bond reset fails half way.
* **Shared hardware.** All analog sensors read one ADC whose resolution is a global setting; three I2C sensors share one bus object that
  each of them opens and closes as if it were its own.
* **Duplicated state.** `hold` is kept by session and endpoint; `owner_` and `initialized` are
  two views of "this client has control"; the pins of a device are in its object and in static variables of its driver.

What makes each part correct: the session has one owner and ends with everything stopped; the
lease expires neither late nor early; the endpoint never disagrees with the session; the registry
never shares an actuator's GPIO, never touches a communication GPIO and never leaves an output
active without its actuator, whatever pins the drivers remember; a line is heard once, whole and in order or not at all;
a session over BLE runs only between the two that paired, and its loss is always seen; a sensor reports what
it measured since it was connected, at the scale it was measured. Each hazard with its source line and the properties that cover it is
listed in `PROJECT.json`.

## 2. Modules

| Module | Models | Kind |
|---|---|---|
| `DeviceRegistry` | the registry value and every operation of the router on it | operators only |
| `DeviceRequests` | the registry as a state machine: any requests in any order | component, implemented by `BoardControl` |
| `ControlLock` | what the Board promises its clients | abstract specification |
| `BoardControl` | session + server endpoints + PING exchange + router + BLE link flags, one action per handler | composition |
| `BoardMain` | `loop()` of `main.cpp`: the steps of `BoardControl` in the order of its statements, the BOOT button, and the owner's true silence | composition, real time |
| `LineFlow` | what a BLE link promises in one direction | abstract specification |
| `BleChannel` | `edubox::ble::Channel`, an operator per method | operators only |
| `BleLink` | the Board's and the Panel's channels over a link that drops | composition |
| `VscpCall` | what a client's calls promise | abstract specification |
| `VscpLink` | a VSCP client, the Board's endpoint for it and the two lines between them | composition |
| `BlePeripheral` | the Board's BLE server: callbacks of the BLE host against `poll()` and `forgetBond()` | component |
| `BleCentral` | the Panel's BLE client: worker task, public calls, callbacks | component |
| `Drivers` | the twelve actuator drivers on their GPIOs, under the router's requests | component, refines the registry |
| `Encoder` | the rotary encoder: its interrupt against the main loop | component |
| `IrReceiver` | the infrared receiver: its task on the other core against the main loop | component |
| `AnalogSensors` | the nine analog sensors on one ADC | component |
| `I2cSensors` | the three I2C sensors on one bus, the colour sensor's wait | component |
| `Codec` | building and parsing of requests and responses | operators only |
| `LineReader` | line assembly of the three line transports, with `Codec` | component |
| `MC*` | instances for TLC of the modules that need definitions for it | |
| `DeviceRequests_proofs`, `Board_proofs` | the registry, and control of the Board with its main loop: lemmas and theorems | proofs |
| `BleLink_proofs`, `BlePeripheral_proofs`, `BleCentral_proofs`, `VscpLink_proofs` | the BLE channels, the BLE server, the Panel's BLE client, the protocol | proofs |
| `Devices_proofs` | `Drivers`, `Encoder`, `IrReceiver`, `AnalogSensors`, `I2cSensors` | proofs |
| `LineReader_proofs` | `Codec`, `LineReader` | proofs |

**DeviceRegistry.** A registry is `[entry, active]`: `entry[d]` has `connected`, `initialized` and
the set of its GPIOs; `active` holds the GPIOs an actuator may currently drive (PWM or HIGH).
`Connect` is the whole of `handleConnect`: pin validation, collision, RGB driver, the stop of a previous
connection of the same device, pins LOW, and the `init()` that may fail. What a driver does when operated is
abstracted to *any* subset of its own pins becoming active; HIGH levels of sensors (the
trigger of an ultrasonic sensor) are not counted as outputs, as the code does not drive them LOW.
Aliases of devices and the text of pin lists are abstracted to device values and sequences of GPIOs.

**BoardControl** extends `DeviceRequests`, whose variable `registry` it shares. The handlers call one another, so they are written as operators on a *board
value* `[session, endpoint, registry]` and composed: `InitRequest(t)` is
`HandleInit(PollSession(Heard(t)))` as `Server::poll`, the wrapper `registerHandler` and `handleInit` are.

| Code | Model |
|---|---|
| `ExclusiveControlSession` members | `session` record; `owner_ = nullptr` is `NoOwner` |
| `Server::Endpoint` | `endpoint[t]` |
| `Channel::online_`, `loss_` | `bleOnline`, `bleLoss` |
| `millis()` | `now`, modulo `ClockModulus`; `Elapsed` is the unsigned difference |
| `release`, `acquire`, `poll` | `Release`, `Acquire`, `PollSession` = `ReadProbe`, `Lapsed`, `ProbeDue`, `Probe` |
| `registerHandler` and each handler | `ConnectCommand`, `DisconnectCommand`, `OperateCommand`, `UpdateCommand`, `InitRequest` |
| `notifyTransportDisconnected` | `NotifyLoss` |
| `forgetBond`, PAIR reset, BOOT reset, restart | `ForgetBond`, `PairReset`, `BondReset`, `Restart` |

A write that may fail is a Boolean input (`written`); a request is served with the time it takes (`HandlerTime`),
so the clock may pass the lease inside a handler. The order of the calls in `loop()` is not used here:
the handlers run in any order, which has every behaviour of the real loop and more. `BoardMain` puts them in order. The sequence number of a PING is
abstracted to whether an answer matches the pending exchange.

**BoardMain** is `loop()` statement by statement; `at` is the statement that comes next. One iteration is `PollBridge`, then the BOOT button
(`ButtonUp`, `ButtonDown`, `BootReset`), `PollRouter`, `ServeNext` once for each transport in the order of `addTransport()`, `PollRouter` again,
and `Rest`. Every step of it is a step of `BoardControl`, or the passing of time; `LinkLost` of the BLE task and a loss of power may come between any
two. `PollBridge` is atomic, although `bleBridge.poll()` and the release are two calls: the channel opens in `poll()` only when no loss was found, and a loss it
reports is released right after it in the same iteration. Time passes in the handlers of device requests (`HandlerTime`) and in `Rest`, which stands for everything else in
the iteration; the time of `forgetBond()`, of PAIR and of writing the flash counts as part of `PollGap`. `silence` is the true time since the owner gave proof of
life (an INIT or device request that was served, a probe answer that was read), so that the wrapping
comparisons of the code can be judged against real time; `prompt` says that every probe sent to this owner was written and
answered within `AnswerTime`.

| Code, `src/main.cpp` | Model |
|---|---|
| `bleBridge.poll()`, `takeConnectionLost`, `notifyTransportDisconnected` | `PollBridge` |
| `bleButtonHeld`, `bleButtonAt`, `digitalRead(BOOT)` | `boot`, `ButtonUp`, `ButtonDown` |
| BOOT held for three seconds: every transport released, `forgetBond()`, `ESP.restart()` or early return | `BootReset` |
| `deviceRouter.poll()`, twice | `PollRouter` |
| `vscpServer.poll()` | `ServeNext`, `ServedAll` |
| `delay(1)` | `Rest` |

**BleChannel** and **BleLink.** A channel value holds what `Channel` holds under its mutex. The bytes of
a line are pairs <<line, index>>, so that a line put together from fragments of two lines is
different from every line that was written. `BleLink` joins two channels. A *transfer* is one ATT operation (write with response,
confirmed indication), one at a time per direction, in three steps: `Transmit`, `Arrive`, `Answered`;
the peer's stack answers even if the channel ignores or refuses the packet, as it does in the code. The link drops
at any point; `Notice` is each end's `onDisconnect`; `ArriveLate` is the Panel's old callback and
`Answered` may carry the answer to a packet of an earlier session, which the generations have to
tell apart. The Board's `poll` takes a loss at its start and drops the link (`BoardTakesLoss`), or
at its end, where it reports the loss and does not drop the link (`BoardTakesLateLoss`), so that
the channel may open again in the same connection; `span` remembers whether a connection had such a loss ("late") or message ids have come round in it
("long"), see the bounds below. `LineFlow` states the promise: within a session
of the receiver the lines read are the first lines of *one* session of the sender, without a gap.
The refinement mapping takes as the flow the lines received but not read, then the lines
not yet received as long as sender and receiver stand at the same id and offset (`Whole`).
The age of a partial line is abstracted to an input of `Expire`, the statistics are left out,
packets that no `Channel` sends are not generated.

**VscpCall** and **VscpLink.** `VscpLink` is the protocol itself: each line of text is a record with the
fields the code looks at (type, status, seq, id). The client's `transact` and `ping` loops are cut where they read
a line: `Call` is everything up to the write, then each line read is one step (`ClientHearsBye`, `ClientHearsPing`,
`ClientHearsReply`, `ClientHearsNoise`), or the wait ends by `ClientTimeout` or `ClientMissesLink`. The client's idle `poll`
reads with the same steps. The Board serves one line per step. What a handler answers is left open, and
`ServerExpires` is a handler that first finds the lease lapsed: then the Board's BYE goes out, before the OK of an INIT and
instead of any other response. Timeouts may strike at any moment, because
nothing bounds how long a line takes. `wire` is the kind of line, chosen at the start: whether it loses and damages
messages, how many it holds (a full queue refuses a message), and how many calls and PINGs there are. A BLE link drops (`Detachable`)
and comes back once the client has seen it. `hold` is left out, `BoardControl` has it. `VscpCall` is the promise: one call at a time, each is
served at most once, and a call ends with what the peer answered to *that* call or fails.

**BlePeripheral.** Callbacks take `stateMutex_`, so each is one action; `poll()` and `forgetBond()` take it piece by piece, so
they are a sequence of actions with their local variables in `loop`, and a callback may run between any two of them.
While the second half of the locked part runs (`Locked`) no callback may. The BLE host is external: one link at a time, handles
that are used again, a `disconnect` that takes effect later. Flash may fail to save, the bonds may fail to be
erased, power may fail at any step (`Restart`). Of the channel only `online_` and `loss_` are kept.
Two Panels are in the model because what matters is that the wrong one never gets a session. `invited` of a link remembers
whether the pairing window was open when it began. A few interleavings of a callback with the reads and writes around `edubox-ble/ble_peripheral.cpp:136-139` are merged
into their neighbours; no property tells them apart.

**BleCentral.** Public calls and callbacks take `stateMutex_` and are one action each, except that `scan`, `stop` and `forget`
first disconnect the channel (`CallBegins`) and then take the lock (`CallEnds`). The worker is a sequence of steps, each of which ends where
another task may change what the worker reads next; `worker` holds its place and its locals. It learns of a newer request
only where it compares its epoch with the present one. The radio, the Boards, the bonds kept by the BLE stack and the flash
are the environment; a wait with a timeout may end at any moment. The length of the backoff is left out
(`retry` is "due" or "later"). `OnPassKeyEntry` takes the check of the request, the injection of the PIN and the note of the bond (`edubox-ble/ble_central.cpp:133-142`) as one step;
`PasskeyIsAskedFor` is about the check, so it is the same either way.

**Drivers.** `hw` is what the drivers remember and the level of each GPIO: `pins` is `_pin...` of the objects, `shared` the static pins of
a driver's file, `servo` and `stepper` the motion. A GPIO is "input", "low" or "active", and of a PWM value only *off* and *not off* are
told apart. A parameter that a driver remembers is kept only where `attach()` applies it (Dc, Color7); elsewhere it only feeds the
next CONTROL, which may ask for anything anyway. A `service()` of the motors is a step when it is due and a stutter when not. `commanded`,
`shaft` and `homing` are history. The LEDC, Servo, tone, IRsend and CheapStepper libraries are external, modelled from how the drivers use them; the
queue of the tone library is taken as immediate. `RegistryOf(hw)` maps the drivers to the registry value of `DeviceRegistry`, which
abstracts a driver to "any subset of its own pins becomes active"; that abstraction is what `DriversKeepToTheirPins` checks.

**Encoder.** `startISR()` and `stopISR()` are taken apart into their statements (`at`), because the interrupt may preempt the loop between any two of them.
The interrupt itself is one action: it is installed from the loop, so it runs on the loop's core and the loop cannot see it half done. An edge that comes before the last one was
served is only latched, so the interrupt reads the pins as they are by then. The shaft turns by quarter steps, any number of them at a time.

**IrReceiver.** `reset()` and `detach()` are taken apart where the task could see the difference, and the task is a sequence of its accesses to what it shares with the loop. Objects are
numbers that are never used again; `Faults` is an access to one that was freed. The library's receiver and FreeRTOS are external.

**AnalogSensors.** A reading is abstracted to the resolution at which it was made, `reading.assumed` is the one at which the driver interprets it: that of `_res` in a formula, of the joystick's measured centre,
of the scale a threshold was chosen for. Ahall compares with `_lLimit` and `_hLimit`, which start as 1800 and 2000 of 4095 and which only an `llimit=` or `hlimit=` changes; `limits` is the scale of each, and a CONFIG may give any of them at any
scale. The constants in `init()` of four sensors (HallLin, GP2Y0A21YK0F, PHresistance, Heartbeat's 200 to 650) and in `update()` of the distance sensor are of the resolution of power-on. The `update()` of Heartbeat looks for rises of the
signal, at whatever scale. `init()` may succeed or fail whatever it read. A driver keeps its
configuration across connections, as the objects are static. The two microphones are one and the same code and one driver in the model.

**I2cSensors.** `bus` holds the pins I2C is open on, `wired` those each sensor was connected with. A chip may be missing at any request and may lose power.
`TwoWire::begin()` of an open bus changes nothing; the Adafruit drivers open a closed bus on the default pins. `_readyAtMs` is a stamp of the wrapping clock, and `MsLeft` the signed difference. `itime` is what the
driver's CONFIG made of `itime=`, which nothing validates: any int, of whatever sign. It feeds the stamp of the next enabling (`Planned`) and leaves the present one. `remaining` is history, the time truly left of what was
planned at the last enabling. The integration time that the chip then runs with (one of eight, 600 ms for any other `itime`) and the waits inside the Adafruit library are left out, because no step of the driver
depends on them: a read of a chip that has not finished gives whatever it gives.

**Codec** and **LineReader.** A text is a sequence of characters, a message a function from keys to values. The codec has no escapes, so the messages
of the model have values without "&" and keys without "=" (`LineReaderAssumption`); the code promises no more. The three keys the codec itself looks for, `type`, `status` and `error`, are texts of one letter. `side` tells who reads: the server, which parses requests, or the client, which parses
responses. `ReadLine` is the loop of `readLineImpl`; `eager` tells the desktop transports,
which report an overlong line when they meet it, from the Arduino one, which reports it when the line ends. Bytes arrive in any portions and noise
adds or ends lines. `EveryLineOnce` compares what the reader got with a definition of "the lines in these bytes" that knows no buffer: the line of a terminator is cut out of the whole of the bytes
(`LineUpTo`), and what it means is the fields it was *written* with if the codec wrote it (`AsWritten`).

Operators commented as *faulty variant* are not used by any specification. Each is a
definition with a plausible bug in it; put in place of the correct one it must make the property
named beside it in `PROJECT.json` (`mutants`) fail. They document what each property is sensitive to.

## 3. What the runs check

| Run | Instance | Shows |
|---|---|---|
| `DeviceRequests.cfg` | a motor, two RGB LEDs, a one-pin and a two-pin sensor; three output GPIOs, one input-only, one reserved, one invalid | `PinExclusive`, `NoStrayOutput`, `ChangesAreLocal` over every request sequence, duplicates in pin lists, reconnects and failing `init()` included |
| `BoardControl.cfg` | BLE and UART, one motor, a clock of 6 ticks, lease 4, probe interval 2, timeout 1 | session, endpoints and probes agree (`SessionIsOwners`, `CopiesAgree`), who may act (`OnlyOwnerActs`, `StaleLeaseNotRenewed`, `NoSessionAcrossLinks`), nothing runs without an owner (`NoOwnerNoOutput`), and `BoardControl` implements `ControlLock` (`LockSpec`). `LinkBacksOwner`, `OutputsAccounted`, `HandoverStops` and `RequestsSpec` are proved only |
| `BoardMain.cfg` | no device, a clock of 7 ticks, lease 5, probe interval 2, timeout 1, an iteration of one tick besides its handlers, a BOOT hold of 2 | `SilentOwnerGone`: a silent supervised owner is gone within lease + one poll gap; `NoEarlyExpiry`: never before a full lease; `ResponsiveOwnerKept`: an owner that only answers probes is kept; `SilenceEnds` under fairness |
| `BleLink.cfg` | the Panel writes lines of one packet, the Board of two; queues of two, ids that wrap at 3, at most three sessions | `LinesFlow`: `LineFlow` in both directions, so that lines arrive whole and in order; `LinesMove`: the link does not stall |
| `VscpLink.cfg` | sequence numbers on; two lines of two messages that lose and damage (three calls and a probe, two calls and two probes) and one of ten that only drops (four calls, a probe) | `PongsAreTrue`: no old answer keeps a session alive; `SessionsAgree`: client and Board never disagree silently on whether there is a session; `CallSpec`: `VscpCall` is implemented; `LinesFallSilent`: answers are never answered |
| `BlePeripheral.cfg` | two Panels, two handles, three links | `SessionIsTrustedPanels`, `TrustIsStored`, `NoReopenUntold`, `TrustWasInvited`; `LossIsTold` and `AdvertisesAgain` under fairness |
| `BleCentral.cfg` | two Boards, three requests | `SessionIsSavedBoards`, `ForgottenIsErased`, `PasskeyIsAskedFor`; `ReadyIsLinked` and `StopLetsGo` under fairness |
| `Devices.cfg` | one bench at a time: two of the twelve actuators on two GPIOs, with three servo angles and a stepper that goes two steps either way; the encoder, three quarter steps either way; the IR receiver with two codes and two tasks; two of the analog sensors at 10 and 12 bits; the three I2C sensors on two pairs of pins, a clock of 6 ticks and three integration times | `DriversKeepToTheirPins`, `OutputsAreSafe`, `MotionIsTrue`; `TicksAreTurns`; `TaskIsSafe`; `ReadingsAreScaled`; `SoleSensorHasBus`, `ColoursInTime` |
| `LineReader.cfg` | five requests or four responses, two noise bytes among three, lines of at most 9 characters, 16 bytes in all | `EveryLineOnce` |
| `VscpLatePong.cfg`, `BleFaultDoc.cfg`, `IrReceiver.cfg` | small instances | disagreements, section 6 |

**Bounds.** The clock modulus is larger than lease + poll gap, as in the code (10 s against 49.7
days), and small, so that stamps wrap many times in every behaviour and meet at every phase. Two
transports suffice for a handover in both directions, one of them with a link that can be lost;
a third would be a second wired transport, symmetric to the first. One device suffices in
`BoardControl` because the session only ever stops the registry as a whole (the runs of
`DeviceRequests` cover several devices, and the proofs any number). Five devices and three usable GPIOs
give each kind of conflict: actuator against actuator, actuator against sensor in both orders,
sensor against sensor (allowed), RGB against RGB, and too few pins for all.
Of a probe timeout shorter than one tick only "not yet" and "timed out" are distinguished. In `BoardMain` the lease is the least for
which `ResponsiveOwnerKept` holds: a probe is sent before the owner's silence has passed 2 * (`ProbeInterval` + `PollGap` - 1), and that and `AnswerTime` together must be less than the lease
(`ProbesSuffice`). With one tick less TLC finds the owner expired. The code's 10 s, 3 s and an answer within 500 ms (`src/BoardConfig.hpp:25-27`) satisfy it for iterations of
up to 1.75 s. The proofs put no bound on any of these.

`MaxGeneration` bounds the number of sessions in `BleLink`, so that the ends have two each, which is what it takes for a
packet, an answer or a callback of one session to meet the next. Three ids wrap within a session and tell a repetition from a gap.
A Board that reopens its channel in the same connection starts again at id 1, and a receiver that has meanwhile
counted exactly 65535 lines could not tell; `span` keeps late losses and a full turn of ids out of the same connection. The code has that limit, too far away to matter.

In `VscpLink` the number of calls stays below `MaxSequence`, so that no sequence number comes again: a response
would have to be late by 2^32 calls to be mistaken, and the model says nothing about that. Three calls, or two probes, let a late answer
of one meet the next and leave room for a session in between. `SessionsAgree` says that the two agree only of the line whose queues cannot fill, since
a Board's BYE that a full queue refuses is lost and the client learns of the end only from the next
refusal. In `BlePeripheral` three links make a session, its loss and a reconnection with a handle used before; in `BleCentral`
three requests let one overtake another whose results are still to come, with a third to show what was left. In `Devices` two actuators are
what it takes for one driver to touch the other's GPIO, and every pair of the twelve is tried, in all sequences of requests; two GPIOs let a device
move from one to the other, have both in either order, or the same twice. The drivers of three and four pins then use some GPIO more than once, which the router
accepts. The five benches share nothing, so one behaviour moves one of them. Three quarter steps either way take the encoder past a detent in both directions and let two edges fall
between readings; the proof has no bound. Two tasks are what it takes to see one too many, five objects allow two connections with a RESET. Two analog sensors suffice because a reading depends
on its own driver and on who set the resolution last, and two scales because all that matters is whether they are equal. Of the integration times of the colour sensor one is
negative, so that the stamp lies in the past when it is made, one is short, and one is half a turn of the clock together with the margin, so that the signed difference takes it for overdue. In `LineReader` 16 bytes hold two lines, the first of them too long, or three short ones, with noise between.

Deadlock is not checked where the model's inputs are bounded, so that the system may stop: the runs of `VscpLink`, `BleCentral` and `LineReader`.

**Fairness.** `VscpLink!FairSpec`: client and Board keep reading their lines (`ClientReads`, `ServerReads`), as the Panel's
loop and `loop()` do; nothing about timeouts, probes or faults. `BlePeripheral!FairSpec`: `forgetBond()` returns, and `poll()` goes on, strongly
fair because resets may interrupt it between two polls but each round of `loop()` has its poll. `BleCentral!FairSpec`: the worker and the main loop go
on, a call that has begun ends, a link told to end does and its callback runs, and the time of a retry comes; nothing about what is attempted, which may
always fail. `BleLink!FairSpec`: the Panel's worker, the Board's poll and both main
loops never stop, and a stack delivers what it accepted and then the answer; nothing about
the link, which may drop. `BoardMain!FairSpec` assumes weak fairness of `Loop` alone: Arduino calls `loop()` again and again and nothing in it waits for ever; time passes because every iteration
ends with a `delay(1)`. Nothing is assumed about
clients: they may send anything or nothing. That an iteration, device handlers apart, does not last longer than `PollGap` is an assumption of
`SilentOwnerGone`; the code does not
enforce it, and `docs/CONTROL_SAFETY.md:74-78` names it as a limit of the design. Safety properties outside `BoardMain` do
not depend on it.

## 4. What is proved

Every theorem holds for all values of the constants that satisfy the assumptions of its modules:

| Assumption | Says | Because |
|---|---|---|
| `RegistryAssumption` | sets of GPIOs and devices are nested as their names say; one to four pins per device | tables of `engine/` and `devices/` |
| `BoardAssumption`, `MainAssumption` | two distinct transports, durations below the clock modulus, lease and poll gap together as well, an answer within the probe's timeout | 10 s against 49.7 days |
| `DriversAssumption` | finitely many actuators, one device per driver except for the RGB LEDs, the pin count of each driver | the static objects of `devices/` |
| `ChannelAssumption`, `LinkAssumption` of `BleLink` | every line has a length, which may be too long or zero; queues, lines and ids have a positive bound; a packet carries at least a byte; the value that means "no transfer" is no transfer | the constants of `ble_channel.hpp`, ids of 16 bits, `packet` loses the link if the MTU leaves no room |
| `LinkAssumption` of `VscpLink` | no more calls, and no more probes, than there are sequence numbers | 2^32 of them, see Bounds |
| `PeripheralAssumption`, `CentralAssumption`, `IrAssumption` | the values that mean "none" are no Panel, handle, link, Board or code | |
| `CodecAssumption`, `LineReaderAssumption` | terminators are not printable, the signs of the codec and the status texts are; a line has room for a character; the keys are distinct, not blank at their ends, free of "&" and "=", values free of "&", both printable; a request has a type | what the codec's literals and `std::map` are; it has no escapes, and `writeLine` strips what is not printable |
| `AnalogAssumption`, `I2cAssumption`, `EncoderAssumption` | the resolution at boot is a resolution; a closed bus is no pair of pins; an `itime` is an int as wide as the clock, of either sign, and the driver's margin at most half a turn; a bound, however large | 12 bits; `toInt()` and `millis()` are both of 32 bits, the margin is 5 ms; nothing is assumed about what CONFIG asks for |

Three theorems have a hypothesis of their own. `CallsKeepTheirPromise` and `SessionsStayAgreed` are about links with sequence numbers (`Sequenced`); without them the promise is broken, as `VscpLatePong.cfg`
shows. `SessionsStayAgreed` assumes `[]RoomToClient`, that a line which loses nothing does not fill up on the way to the client either: a BYE the Board could not write is lost, and no one repeats it.
A Panel that reads its lines keeps a queue of four from filling; the run's line of ten satisfies it. `ResponsiveOwnerStays` assumes `ProbesSuffice`, see Bounds.

* `DeviceRequests_proofs`: `RequestsTypeOK`, `PinExclusive`, `NoStrayOutput`, and `ReservedPinsUntouched` and
  `SingleRgbDriver`, which no run repeats, and the action property `ChangesAreLocal`.
* `Board_proofs`, of `BoardControl`: `TypeOK`, `NoOwnerNoOutput`, `SessionIsOwners`, `CopiesAgree` (with its parts `HoldAgrees` and
  `ProbeAgrees`), `LinkBacksOwner`, `OutputsAccounted`, the action properties `HandoverStops`, `OnlyOwnerActs`, `StaleLeaseNotRenewed` and `NoSessionAcrossLinks`, and the
  refinements `Spec => LockSpec` and `Spec => RequestsSpec`: all that is proved of the registry under any requests holds of the Board's.
* `Board_proofs`, of `BoardMain`: `NoOwnerNoOutput`, `SessionIsOwners`, `LinkBacksOwner` and `OutputsAccounted` in the order of `loop()` (`LoopIsSafe`), `SilentOwnerGone`,
  the action property `NoEarlyExpiry`, and `ResponsiveOwnerKept`.
* `BleLink_proofs`: `TypeOK`, the invariant `LinkInv`, and the refinement `Spec => LinesFlow`, both directions of it.
* `BlePeripheral_proofs`: `TypeOK`, `SessionIsTrustedPanels`, `TrustIsStored`, and the action properties `TrustWasInvited` and `NoReopenUntold`.
* `BleCentral_proofs`: `TypeOK`, `SessionIsSavedBoards`, `ForgottenIsErased`, and the action property `PasskeyIsAskedFor`.
* `VscpLink_proofs`: `TypeOK`, `PongsAreTrue`, `SessionsAgree`, and the refinement `Spec => CallSpec`.
* `Devices_proofs`: of the drivers `TypeOK`, `MotionIsTrue`, `OutputsAreSafe` and the refinement `DriversKeepToTheirPins`; `TicksAreTurns`; `TaskIsSafe`; `ReadingsAreScaled`; `SoleSensorHasBus`
  and `ColoursInTime`.
* `LineReader_proofs`: `EveryLineOnce` (`LinesAreHeard`), and that the codec parses what it builds and the transports strip to the fields it was given (`RoundTrip`).

**Registry and session.** `RegistryInv` is inductive as the conjunction of the five: the collision check
of a CONNECT keeps pins exclusive only because every connected entry lists its pins, and a stop clears
an actuator's outputs only because nothing else may have driven them (exclusivity, no strays). None of the properties of `BoardControl` is inductive alone: a release stops everything only if the registry has no
stray output, the probe agrees only if `hold` agrees, and so on. `BoardInv` is their
conjunction, stated on board values as `BoardOK`, so that it composes as the handlers do: one lemma
per operation (`CloseSession`, `Release`, `PollSession`, `HandleInit`, `Serve`...) says that it takes
good boards to good boards and either keeps the owner or ends with all devices stopped
(`KeepsOrEnds`). A lemma per action then needs only the composition. `HandoverStops` and `NoOwnerNoOutput` give the
refinement: every step is a grant, a handover, a use or a withdrawal of `ControlLock`, or a stutter.
For `RequestsSpec` a handler is followed to the one operation of the router it may call (`Moves`). Where it stops everything, or the Board restarts, the registry is the initial one, because a well-formed registry with
nothing connected and nothing active is (`StoppedIsInit`); that a restart is a `StopAll` therefore needs the absence of stray outputs.

**Real time.** `TimedInv` is added: for a supervised owner the counted silence *is* the difference of wrapping stamps that the code computes, it is below lease + poll gap, and below the lease from
the first session poll of an iteration to its end. It is inductive because a supervised owner's stamp is never as old as a turn of the clock; without the order of `loop()`, which puts a session
poll before anything is served and another after it, `silence` could grow by the time of each handler. A step then belongs to one of a few classes: it keeps the silence (`KeepsSilence`), leaves the owner
within the lease (`WithinLease`), or only lets time pass; and one that ends control ends it justly (`EndsJustly`).
`PromptInv` follows the owner's probes: while none is under way (`Unasked`) the silence is within a probe interval and a gap of the age of the last probe and not beyond `SentBy`; while one is
(`Awaited`) it is at most `SentBy` older than the probe, and the probe at most `AnswerTime` old. The second interval in `SentBy` is real: the last probe's stamp may be
one the clock has just come round to, and then the next probe waits for it.

**The BLE channels.** `LineFlow` knows a flow, whether it is whole, and whether anything was heard; `LinkInv` says what the two channels and the transfers between them have to do with that. A packet of the present session is the next
fragment of the sender's first line, one of an earlier session keeps the present one from starting (`PacketIsNext`). The Panel's callback is of its session in this connection, and an indication the Board no longer waits for belongs to a connection
that has ended (`CallbackIsPanels`). Only a late loss lets the Board have two sessions in a connection (`TransfersAreOfSession`), and before its first the Panel has heard nothing (`UnopenedIsUntouched`). Short of a whole turn of
ids, id 1 means that nothing has been received (`IdsAreNew`), and who stands at its first line has a peer that has received nothing (`StartsTogether`): without these two a receiver could take a new session's first line for one it has had. None is
inductive alone. An operation of `BleChannel` is described by what it leaves true (`IsQueued`, `Takes`, `IsConfirmed`, `IsLost`), an action by its effect on both ends (`Queues`, `Sends`, `Arrives`, `Acknowledges`, `LinkEnds`, `Opens`, ...), and one lemma per
effect shows that `LinkInv` is kept and one that each direction makes a step: its flow is kept, grows at the end, is read, is cut off, is left by its receiver, or begins (`FlowStep`), which are the steps of `LineFlow`.
For a line that is completed to be the line written, `PartialIsPrefix` is added: where the flow is whole, what the receiver has is the start of the line at which the sender goes on.
The theorem is about the specification with `span`, see Bounds: in one connection either ids come round or a loss is taken late, not both.

**The BLE server.** A session opens only with a peer that is authenticated in the critical section that opens it. What is known of the peer rests on the handle: it is that of the present link or
none (`HandleIsLinks`), an authenticated peer is the candidate and, unless already trusted, to be saved (`PeerIsKnown`), and a Board without a peer has let the link in through its window (`PeerWasInvited`). From that
follow `SessionIsPeers` and `FlashIsTrust`, which names the one place, inside `forgetBond()`, where flash and RAM differ. `LossIsKept` follows a loss from the channel to the local variable of `poll()`
until it is reported.

**The Panel's BLE client.** Its worker may be overtaken by a newer request at any step, so `CentralInv` says of each place what holds there *or* that the worker is no longer `Current`: that a command is the one asked for
(`CommandIsAsked`), that an attempt to connect is one, with the PIN of this request (`AttemptIsAsked`), where the channel is closed (`ChannelIsClosed`), whose link it is (`LinkIsBoards`), and what `forget()` leaves between its
two deletions (`NothingIsKept`).

**The protocol.** Everything rests on what may be on the lines. `PingInv`: a PING on its way has a number up to the last probe, an acknowledgement is one the client gave. `CallInv`: the request waited for is the last call
(`RequestIsLast`), each request on the line is of an earlier call or not served yet (`RequestsAreNew`), and a reply that has the number of the request waited for is the answer of the peer to it (`RepliesAreTrue`). They hold whatever is lost, damaged or
delayed, because they speak of *every* message of a line. `SessionInv` is what makes the ends agree on a line that loses nothing: a client that trusts in its session has no INIT or BYE
under way, and without a session a BYE is still on its way to it; behind an OK to an INIT that found its lease lapsed there is one (`OkLasts`).

**The drivers.** The registry knows nothing of what drivers remember, so the refinement rests on `Orderly`: connected actuators have no GPIO in common (`PinsApart`, the router's collision check), what a file keeps in its static
variables is what its connected device has (`SharedAreOwn`), an output is driven by a device that was operated (`Driven`), and the motions are as their flags say (`ServoRests`, `StepperRests`). `Acts` is the frame: a CONTROL, RESET or
motion of a device changes only levels of its own GPIOs. "All devices" is a fold over the actuators; that every finite fold has the recursive form the proofs use is itself proved (`FoldExists`, `FoldKeeps`).

**The lines.** `LineInv` says that the bytes sent are some bytes read and those still on the wire, that everything read has been understood (`Said`), except that a desktop transport may have reported the overlong line it is in (`Owed`), and
that the buffer holds the printable part of the unfinished line, or nothing of one that is too long (`Holds`). Inside `readLineImpl` the invariant of the loop is `Ongoing` until it has something to report and `Done` from then on; it is kept by
`TakeByte` because a byte that ends no line grows the unfinished line by itself (`RestAppend`) and its buffer by at most one character. `Done` leaves an empty buffer and no unfinished line.
That the message heard is the one written rests on `RoundTrip`. The text of a message holds each field at the place where the text of the keys before it ends (`FieldsExtend`), so from the end of the text to its beginning each round of `parseParameters`
adds the field of its key to those of the later keys (`Later`, `FieldsParsed`), and the strip on the way takes blanks only from the end of the last value, which the parser trims anyway. Values may contain "=", be empty or be padded.
The induction theorems of the library take an operator as a parameter, which no installed prover can instantiate. The inductions here need none: each starts from `Least`, that a set of natural numbers has a smallest element, or from
`Induction`, that a set with 0 and the successor of each of its members holds every number; `Iteration` gives a recursive function its values from first to last.

**The sensors.** `EncInv` says at each statement of `startISR()` and `stopISR()` which handlers are installed and that the stored levels are those of the phase `seen` last. One quarter step then changes the
count by what the table says, and any number of them by that many up to an even number (`DeltaIsTurn`). `IrInv` holds until the first `detach()`, after which the task is out of anybody's control: the one task is the one the
object knows, no task runs while `reset()` frees, and what the object and the task point to exists. `AnalogInv` says that the resolution is that of the sensor that set it last, and that `probe` and `limits` hold resolutions; `BusInv` that a sensor connected
while no other was has the bus on its own pins; `StampInv` that, until half a turn of the clock has passed since the planned time was over, the stamp lies by `remaining` after the clock, modulo the clock: every step that moves one of them moves the other alike, and CONFIG moves neither.

A fault of the model was found on the way and corrected: `CASE` expressions of the drivers whose arms overlapped, so that TLA+ left open which of them `attach()` and `detach()` took.

**Only model-checked.** Every safety property of a passing run is proved. What stays with TLC:

* `SilenceEnds`, `LinesFallSilent`, `LinesMove`, `ReadyIsLinked`, `StopLetsGo`, `LossIsTold`, `AdvertisesAgain`: liveness under fairness, which needs `ENABLED` and is beyond the prover.

No run lists `TypeOK` of `BleLink`; the theorem `LinkTypesStay` is about it.

## 5. What the checks say about the code

**The session.** All hazards of the session that the model covers are handled: in particular the release stops the
devices before it clears the owner, the session poll before every request keeps a request queued behind a
lapsed lease from renewing it, and `Channel::open` refuses while a loss has not been seen by the main
loop, which is what keeps a session from continuing on a new link. The channel fails closed: whatever is
lost between the ends shows as a wrong id or offset and loses the link, even in the sessions
that `BoardTakesLateLoss` lets open inside one connection.

In `loop()` the release after a loss, the expiry and the bond reset come in an order that keeps the promises whatever the BLE task does between two statements.
The lease must exceed two probe intervals, two iterations and an answer, or an owner that answers every probe may be expired (`ProbesSuffice`): a probe that falls due just after a poll goes out one iteration
late, and the one after it again. The values of the code leave room for iterations of up to 1.75 s besides the time of its handlers.
BOOT is sampled once per iteration, so two presses on either side of a long handler count as one hold; a reset whose
`forgetBond()` fails returns before both polls and is tried again every three seconds for as long as BOOT is held, although the log (`src/main.cpp:265`) asks for BOOT to be released.

**The lines.** The client's promise needs sequence numbers, which are off by default. Without them a late response of any kind, also the
one to a BYE nobody waited for, is taken for the answer to the next request; the PING acknowledgement of section 6 is one instance. With
them, loss, damage and delay do no harm. An INIT that finds the Board's lease lapsed is answered by
BYE and OK in that order: the client reports "Peer disconnected" and ignores the OK, so that the Board has
a session its client does not know of, until the next INIT or the lease ends it. `SessionsAgree` is stated in the direction that holds.

**BLE.** In the BLE server a link that a Panel makes between the two locked parts of `forgetBond()` loses its handle and stays, without a session,
until the Panel gives up; no property is affected, as the Board has no use for that link, but no other Panel can connect meanwhile.
A loss that the last `takeLoss()` of `poll()` consumes (`edubox-ble/ble_peripheral.cpp:147`) leaves the status `ready=1` standing, and the next link may read it
before the Board's loop has accepted its subscription; the lines sent then still meet a closed or a new channel, as `LinesFlow` shows. The signed comparison of the pairing
window's deadline (`edubox-ble/ble_peripheral.cpp:43`) admits a first pairing again in the second half of every turn of the clock, 24.8
days on, which `docs/BLE_BRIDGE.md:97` does not say; `WindowTurns` therefore lets the window open and close at any time. That line asks for the first pairing within 120 s; what the
code asks for, and `TrustWasInvited` states, is that the link begins within them: the pairing itself may end, and be saved, later.

On the Panel a link whose end falls into the moment `disconnected_` is cleared is not lost sight of: the retry finds it. A retry time left from before a half turn of the
clock may put off a reconnection by as much as 24.8 days, and a `forget()` that another request overtakes before the worker takes it is never
carried out. Both are as the code has them, and `ForgottenIsErased` is about a Forget that is still the last request.

**The drivers.** `init()` of the servo makes its last angle 0, so that RESET goes to 0 at once whatever the speed; the
functions in `SG90.cpp` outside the class are not used. The static pins that Dc and the two-colour LEDs leave behind when they are
detached do no harm, because CONNECT replaces them before any use. The encoder's count is exact while no two edges fall between two readings of
the pins and off by whole detents otherwise, which the next RESET clears; the update of `_prevState` outside the critical section does no harm, as the loop never touches it while the interrupt is installed.
RESET of the IR receiver frees its receiver and its result, and only the next CONNECT makes a new result, so that after a RESET it
hears nothing until it is connected again. Its `detach()` is in section 6.

An analog reading is taken for one of another scale in four cases, and `ReadingsAreScaled` says in no other. (1) Ahall sets the resolution, but its thresholds do not follow a `res=` (`devices/Senzor_Ahall.cpp:11-12`): with the default 1800 and 2000, which
`docs/DEVICES.md:18` calls ADC thresholds, every reading at `res=10` is "NORTH" until the client gives an `llimit=` and `hlimit=` to go with it. (2) The thermistor does not set the resolution in `update()` and reads at that of any other sensor that did.
(3) The self-test in `init()` of the linear Hall sensor, the photoresistor, the distance sensor and the heartbeat sensor compares with constants, whatever `res=` an earlier CONFIG left: that of the sensor itself for the first two, that of whichever sensor set it last, also in an
earlier client's session, for the others. At `res=10` that of the linear Hall sensor cannot succeed, so it cannot be connected again before a
restart. (4) The distance sensor converts at 12 bits in `update()`, too. The self-test of the microphones is inverted: it succeeds only if all the readings it averages are zero.
On the I2C bus one sensor at a time works (`SoleSensorHasBus`); any `detach()` closes the bus for all, and a RESET that finds it closed opens it on the default pins. The colour sensor keeps `_tcsEnabled`
and `_readyAtMs`. Within half a turn of the clock an UPDATE waits for exactly what is left of the time planned when the sensor was last enabled (`ColoursInTime`), but that time need not be the chip's: a CONFIG leaves the stamp as it is, so that after CONNECT and
`itime=2` the first UPDATE still blocks the loop for up to 605 ms; after `itime=100000`, which nothing refuses, the first UPDATE after the next CONNECT blocks it for 100 s, while the chip integrates for 600 ms; after an `itime=` that
is no number, or a negative one, the UPDATEs after the next CONNECT wait next to nothing, and the chip's 600 ms are not over when the colours are read. The comment at `devices/Senzor_TCS34725.cpp:80` speaks of the first UPDATE after CONNECT or RESET, but RESET (lines 55-58) makes no stamp, so only that after CONNECT,
or after the sensor was found gone or dark, waits. Once 24.9 days have passed since its
CONNECT without an UPDATE, the first one blocks the loop for as long as the signed difference says. When enabling has failed (`_tcsEnabled` false) and `_blockFirst` is false, every UPDATE returns nothing, until the next CONNECT.

**Documents.** A line that is exactly full and is then
followed by an unprintable byte counts as too long, although that byte would have been dropped.

`docs/DEVICES.md:9` tells the reader not to share GPIOs because the firmware does not police conflicts ("firmware konflikt pinů
nehlídá"); `VscpDeviceRouter::handleConnect` (`engine/VscpDeviceRouter.cpp:151-157`) refuses them where one of the two devices is an actuator,
as `docs/CONTROL_SAFETY.md:67-70` says and `PinExclusive` shows. Between sensors nothing is refused.

## 6. Disagreements

* `libraries/vscp/README.md:134` says "PING acknowledgements never satisfy an ordinary transaction." Without sequence
  numbers one that comes after its timeout does (`vscp/vscp_client.cpp:56-77`, `vscp/vscp_ping.hpp:57-58`). Run `VscpLatePong.cfg`.
* `libraries/edubox-ble/README.md:19-21` says a malformed packet and its like "fail the link closed". One that arrives while
  `poll()` runs ends the session but not the link (`edubox-ble/ble_peripheral.cpp:147`), and the next `poll()` opens a session on it. Run `BleFaultDoc.cfg`.

* `devices/Senzor_IRrx.cpp:21` says of `detach()` "uvolnit další zdroje a resetovat stav" (release the other resources and reset the state), and `Senzor_IRrx.hpp:47` "uvolnění pinu a zdrojů"
  (release of the pin and the resources). It deletes the receiver, but only forgets the task and the result: the task goes on, perhaps inside `decode()` of the deleted receiver, and the next CONNECT starts another one. Run `IrReceiver.cfg`.
  `TaskIsSafe` shows that all is well until the first `detach()`.

## 7. Not modelled

* Logging (`UartDebugger`), wording of responses and help texts, the Board ID and PIN that `src/main.cpp` formats: no property depends on them. The tables of
  command names are left out, a type of a request is a value. `validSequence`, a pure test of digits, is abstracted to whether a sequence number is the expected one.
* The sensors DS18B20, DHT11, HC-SR04 and the digital inputs: one blocking measurement per UPDATE and no state that another request could meet. Of the modelled sensors, what a reading is
  converted to.
* The text of a pin list, which is a sequence of GPIOs here, and the length of the Panel's backoff.
* The Python emulator, the CI scripts and the vendored `lib/` drivers: not part of the firmware's logic.

## 8. Plan

Done, in this order: `ControlLock`, `DeviceRegistry`, `DeviceRequests`, `BoardControl` and their proofs; `BleChannel`, `BleLink`, `LineFlow`;
`VscpCall`, `VscpLink`; `BlePeripheral`; `BleCentral`; `Drivers`; `Codec`, `LineReader`; `Encoder`, `IrReceiver`, `AnalogSensors`, `I2cSensors`; `BoardMain`; the remaining action properties of `BoardControl` and
`DeviceRequests`, the lease in true time and the encoder's count proved; then the proofs of `BlePeripheral`, `VscpLink`, `BleCentral`, of the owner that answers its probes, of the sensors and of the drivers, and of the flow of lines over BLE.

Last came the proofs of `EveryLineOnce` and of the codec's round trip, and `BoardControl` as an implementation of `DeviceRequests`. All safety properties of the runs that should hold are proved. What is left is liveness,
which stays with TLC, and the parts that section 7 leaves out.
