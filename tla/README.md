# Weather desktop terminal: TLA+ models, checks and proofs

The program is an RT-Thread application on an STM32F407 board. It shows
the weather and the indoor climate on an LCD (LVGL), the time on a ring of
WS2812 LEDs, and sends its sensor values over MQTT to the Aliyun IoT platform.
About 1200 lines are its own (`src/project/applications/`, the LED strip in
`src/project/board/ports/led_matrix/`, the display port); the rest of the
repository is vendored. The models follow the own code and those parts
of the vendored code on which its behaviour depends: the MQTT client of
ali-iotkit with its RT-Thread socket port, the WLAN manager of RT-Thread with
its mutex and work queue, the response events of the RW007 driver, jsmn and
webclient as far as their results go, the timer and DMA drivers of the STM32
HAL, the AHT10 driver, and the timers of LVGL.

Run from this directory:

    tlc -workers 2 -config MqttClient.cfg MCMqttClient.tla
    tlapm MqttClient_proofs.tla

## 1. The system

| Part | State it keeps | Operations | Talks to |
|---|---|---|---|
| MQTT client (`iotx_mqtt_client.c`, `mqtt_api.c`, `infra_net.c`, `HAL_TCP_rtthread.c`, driven by `mqtt_main.c`) | client object, `client_state`, probes, reconnect timer, socket handle, five mutexes, `g_mqtt_client` | construct, connect, subscribe, yield (keepalive, reconnect, cycle), publish, release | called by `mqtt_main_thread` and, for publishing, by the lvgl thread; calls back `mqtt_recv_handle` |
| MQTT commands (`mqtt_main.c`) | two LED pins, the heap | `mqtt_recv_handle` | called in `mqtt_main_thread`; jsmn |
| LED strip (`drv_matrix_led.c`, HAL) | `RGB_Data`, `led_buffer`, state of the timer channel, of the DMA and its lock | fill, reset, reflash, the test commands, the interrupt | lvgl thread, tshell, DMA |
| LED clock (`led_clock.c`) | none (RTC) | `led_matrix_example_entry` | called by `timer2_callback` |
| UI timers (`lv_weather_widgets.c`, `lv_timer.c`) | two timers, `count`, last readings, labels | `timer_callback`, `timer2_callback` | AHT10, ap3216c, weather, MQTT, LED clock |
| AHT10 (`aht10.c`) | calibration (in the sensor), a mutex | read humidity, read temperature | called by the UI |
| Weather request (`weather.c`) | response buffer, `bytes_read`, `winfo`, the heap | `timer_callback`, `weather_get_test`, `weather_get_comm` | webclient, jsmn |
| WLAN (`wlan_connect.c`, `wlan_mgnt.c`, `spi_wifi_rw007.c`) | `_sta_mgnt` (state bits, the network's name), `mgnt_mutex`, completes, response events, reconnection timer, one work item, saved networks | scan and join at boot and in the shell, automatic reconnection, dispatch of the module's events, `ntp_sync` on READY | RW007 module, shell, system workqueue, RTC |
| Display port (`lv_port_disp.c`) | flush flag | `disp_flush` | LVGL, LCD |
| Boot (`main.c`, `lv_rt_thread_port.c`) | threads | `main` becomes the lvgl thread, the UI starts MQTT | all |

Threads and priorities (lower number first): soft timers 0; `wifi_handle`, which
dispatches the packets of the WLAN module, 8; lvgl, which is the main thread,
10, as is tcpip; WLAN workqueue 15; `mqtt_main_thread` and tshell 20; system
workqueue, which runs the automatic reconnection, 23. All of them run on one
core, and the DMA with its interrupt beside them.

**What is hard.**

- *Two threads on one MQTT client.* The mutexes protect single reads of
  `client_state` and the send buffer, but not the sequence "look at the state,
  take the buffer, send, write the state". The socket is closed and opened by
  the other thread in between.
- *Failure everywhere.* The network goes and comes, a broker refuses, a dead
  connection still takes bytes, a packet buffer cannot be allocated.
- *One thread for the screen, sensor, weather, clock and uploads.* What
  stalls in it stalls everything.
- *Test-and-set without atomicity* in the HAL, between two threads and an
  interrupt, and a busy wait in the thread of the higher priority.
- *A mutex that is not released as often as it is taken.*
  `rt_wlan_complete_create` releases `mgnt_mutex` when it fails, and its callers
  release it again; `rt_wlan_connect` keeps it when its scan fails; the work of
  the reconnection releases it on ways on which it was never taken.
- *Answers that come late.* A join gives up after ten seconds, its answer and
  its outcome may still come, and the next command waits on the same event.
- *One heap, and exits that keep what they allocated*, in two threads.
- *Priorities*: a thread of priority 20 that never waits starves the one of 23.
- *Boundaries*: backoff doubling, probe limit, periods, the LED encoding.

`PROJECT.json` lists the hazards at their lines with the properties
for them, or why there is none.

**What makes each part correct.** MQTT: never claim a session that is gone,
never lose a socket or a mutex, always recover. Strip: send the whole frame,
one transfer at a time, never stop the user interface. Clock: every time
readable. UI: stalls bounded, sensor and labels recover. Commands and weather:
every block in use or knowingly lost, nothing wrong shown, switched or written
without a text the code cannot take, the weather back after bad answers. WLAN: one call at a time, a link that
is lost is joined again, a link that is up is not dropped.

## 2. Modules

| Module | Models | Kind |
|---|---|---|
| `MqttLink` | what the client promises its publisher | abstract specification |
| `MqttClient` | the client, two threads, network, heap, timers | detailed specification |
| `MqttClient_proofs` | theorems about `MqttClient` | proofs |
| `LedMatrix` | strip, two threads, HAL, DMA, interrupt | specification |
| `LedClock` | the encoding of the time on the strip | algorithm and its users |
| `LedMatrix_proofs` | theorems about `LedMatrix` | proofs |
| `LedClock_proofs` | theorems about `LedClock` | proofs |
| `UiTimers` | the two timers, the AHT10, upload counter | timed specification |
| `UiTimers_proofs` | theorems about `UiTimers` | proofs |
| `StaWatch` | what the automatic reconnection promises | abstract specification |
| `WlanSta` | the WLAN station: boot, shell, reconnection, module | specification |
| `WlanSta_proofs` | theorems about `WlanSta` | proofs |
| `JsonUsers` | weather and commands on one heap | specification |
| `JsonUsers_proofs` | theorems about `JsonUsers` | proofs |
| `MC*` | the instances TLC checks | |

### MqttClient

`mqtt_main_thread` is `pc`, the publish of the lvgl thread is `pub`. An action
is what a thread does between two accesses to state which the other thread can
see. `lock_generic` brackets one read or write at a time, so each of these is
a step. `lock_yield` and `lock_read_buf` are only taken by one thread and are
left out. `lock_list_pub` and `lock_write_buf` are variables.

| Code | Actions |
|---|---|
| `IOT_MQTT_Construct`, `wrapper_mqtt_init`, `wrapper_mqtt_connect`, `_mqtt_connect` | `Construct`, `Dial`, `WriteBufLocked`, `ConnectSend`, `ConnackAccepted/Rejected/Missing`, `Redial`, `Accepted`, `Report`, `Register` |
| `mqtt_main_subscribe`, `MQTTSubscribe` | `Subscribe`, `WriteBufLocked`, `SubscribeSend` |
| `IOT_MQTT_Destroy`, `wrapper_mqtt_release` | `Teardown`, `TeardownSend`, `TeardownClose`, `TeardownState`, `TeardownFree`, `TeardownClear` |
| `mqtt_main` with `pclient` NULL | `Spin` |
| `iotx_mc_keepalive` | `KeepaliveIdle`, `KeepalivePing`, `PingSend`, `KeepaliveState`, `DropSocket`, `SetReconnecting` |
| `iotx_mc_handle_reconnect` | `KeepaliveState` (the timer), `AttemptReconnect`, the connect above, `Reconnected`, `ConnectFailed` |
| `_mqtt_cycle`, `iotx_mc_cycle` | `Cycle`, `Read`, `PubInfoProc`, `CycleAgain`, `YieldReturns` |
| `mqtt_main_publish`, `wrapper_mqtt_publish`, `MQTTPublish` | `PublishStart`, `PublishCheck`, `PublishLock`, `PublishSend`, `PublishFailed`, `PublishFreed` |
| outside | `NetChange`, `MemoryChange`, `TimerExpires` |

`handle` is the value in `ipstack.handle`: `"closed"` is -1, `"zero"` is what a
failed `HAL_TCP_Establish` leaves, `"open"` a socket. `acked` and `alive` are
facts about the other end. A dead socket may take bytes or refuse them. `memory`
says whether a packet buffer can be allocated (`WITH_MQTT_DYN_BUF`). A publish
that runs after the client was freed is undefined behaviour: `PublishFreed`
ends in `"undefined"` and nothing is claimed of it.

Abstracted: packet contents, topics, and durations (a timer that runs is a
positive `wait` which `TimerExpires` sets to zero). Two facts of timing are kept as
guards. A ping is only due when, on a live socket with memory, the last one was
answered, because the ping interval is far longer than the reading cycle. And
`"up"` means that a broker answers within the request timeout.

### LedMatrix

`lvgl` may preempt `tshell` at any step and runs until its drawing is done.
The model splits `HAL_TIM_PWM_Start_DMA` and `HAL_DMA_Start_IT` at each
test and each set. The interrupt (`Complete`) is atomic for the threads. A
colour stands for 24 bits; `taken` counts the LEDs that took a
colour since the last RES pause. `overtaken` counts the redraws that fall into
one command and saturates at `Overtakings`, a definition and not a parameter: it
is the number at which the protection of the HAL ends.

`NoGateStaysShut` is about the ways out of the HAL that refuse a frame halfway.
They leave the channel BUSY, and nobody looks at what they return; the strip is
not closed by this, because the transfer or the thread in whose favour the frame
was refused is still there to open the channel, the lock and the DMA again.

### LedClock

`led_matrix_set_time` is the sequence of its calls of `Set_LEDColor`
(`Writes`) and the frame they leave on a dark strip: the last write to an LED
(`Final`) gives its colour (`ColourAfter`). The RTC walks through all minutes of a day or is set by NTP.
`FaceIsReadable` reads the LEDs by the rule of `src/README.md`, section
关于时钟的阅读, and compares.

### UiTimers

Time is in seconds and passes only in the steps that wait. The order is that of
the list of LVGL: `timer2` was created last and runs first; `last_run` is taken
when the callback starts. The bus and the calibration of the AHT10 change at any
moment. The two readings of one callback are separate steps, and so are, in each,
the check of the calibration (`ReadHumidity`, `ReadTemperature`) and the read of
six bytes after it (`HumidityData`, `TemperatureData`): a sensor that is not
calibrated costs 1500 + 500 + 450 ms, is initialised and shown as no reading; a
read of six bytes that fails goes unnoticed, and an arbitrary value (`"stray"`)
is shown and uploaded as if it were good.

### WlanSta

Three threads issue commands to the module: `main` at boot, `shell` when its
user scans or joins, `work` (the system workqueue) for the automatic
reconnection. `pc` says where each is inside `rt_wlan_connect`,
`rt_wlan_connect_adv`, `rt_wlan_disconnect` or `rt_wlan_scan_with_info`. The
thread that dispatches the module's packets has the highest priority of the
four, so each packet is one step.

| Code | Actions |
|---|---|
| `wlan_connect_thread_entry`, `rt_wlan_config_autoreconnect` | `Boot`; then `main` scans and joins |
| `wifi scan`, `wifi join` in the shell | `Command` |
| `rt_wlan_connect` before its lock | `Enter` |
| `MGNT_LOCK`, `rt_wlan_complete_create`, the scan | `Lock`, `LockWithoutMemory`, `ScanAnswered`, `Scanned`, `ScanTimesOut` |
| `rt_wlan_connect` after its scan, `rt_wlan_disconnect`, `rt_wlan_connect_adv` | `Join`, `JoinWithoutMemory`, `DiscAnswered`, `Disconnected`, `JoinAnswered`, `Joined` |
| `rt_wlan_cyclic_check`, the delayed work, `rt_wlan_auto_connect_run` | `TimerFires`, `DelayExpires`, `AutoRun`, then the actions of a join |
| response events of the driver | `EvAnswer` (`resp` keeps an event until someone waits for it) |
| `rt_wlan_event_dispatch` | `EvScanDone`, `EvOutcome`, `EvDrop` |
| outside | `Lose`, `BusChanges`, `AccessPointChanges`, `MqttStarts` |

`owner` and `hold` are the recursive mutex. Pairs of take and release that nest
inside one call are seen by no other thread and are left out; what a call keeps,
and what it releases once too often, is not. A take at the limit of the count fails.
The commands do not look, and go on; `rt_wlan_auto_connect_run` looks and gives
up, but the way out it jumps to releases the mutex all the same (`AutoRun`). `owed` are the packets the module
has yet to deliver, from the command on. `leaked` and `late` are ghosts: which
threads have kept the mutex after a failed scan, and whether an answer came after
its join had given up. Two properties are stated up to `late`, because the code
cannot tell a late answer from a timely one.

`StaWatch` is the automatic reconnection without threads, mutex and packets: a
link, a timer that is armed whenever the link is down, and an attempt that is
submitted once, made only over a link that is down, and never lost. `KeepsWatch`
reads its attempt off two pieces of state, the work item and the place of the
thread that runs it. If the two disagree the attempt is `"lost"`, which is no
state of `StaWatch`.

Abstracted: there is one network with one access point; the module refuses a
command only on a bad bus; DISCONNECT is not lost; a packet dropped by the driver
for lack of memory counts as lost on a bad bus; the delay of the work item does
not expire between the reset of the item and the end of the work;
`rt_wlan_set_mode` succeeds. Saved networks are in RAM only, since the program
installs no flash operations. A thread that waits for the mutex lends its
priority to the owner (`CanRun`).

### JsonUsers

The heap is a number of units of 600 bytes: a `weather_info` (1), the response
buffer (2), a webclient session (2), 150 jsmn tokens (5), the copy of a command
(1). `ui` is the lvgl thread, `mqtt` the MQTT thread.

| Code | Actions |
|---|---|
| `timer_callback` | `TimerCallback`, `SetLabels` |
| `weather_get_test` | `AllocBuffer`, `ParseText` (`Parse`, `ParseWithoutTokens`), `FreeBuffer` |
| `weather_get_comm` | `CreateSession`, `Get`, `Read`, `Close` |
| `mqtt_recv_handle` | `CommandArrives`, `AllocTokens`, `RejectCommand`, `Obey`, `ObeyWithoutTokens` |

An answer is sent in one or two pieces (`answer`), with its length or in chunks,
and may not come to its end. `Read` follows the two loops of the code and reads
one piece at a time: each `webclient_read` writes to the start of the buffer and
overwrites `bytes_read`. So of an answer in two pieces only the last is left
(`"tail"`), which does not parse, and a chunked answer ends with zero bytes read
and never parses.

A text that parses is one of three (`Texts`). A `"whole"` one has every key, each
with a value that fits. An `"odd"` one lacks a key or a value: the pointer is used
uninitialised. A `"misfit"` has every key, but not as the code takes them:
`weather_get_test` copies with unchecked `strcpy` and `strcat` into fields of 10,
20 and 25 bytes (`weather.h`), and takes the date apart at its dashes. A longer
value, such as a weather of seven characters in `day1_text`, runs into the next
field, and from the last fields past the block. Both kinds may leave wrong
values in `winfo` or write where nothing should be written. Of a command the
same is true when a key is missing (`Obey`), or when the payload has no NUL
behind it, up to which it is copied (`CommandArrives`).

Without tokens, `jsmn_parse` only counts. `broken` stands for a write through
NULL (a failed allocation the code does not look at), through a pointer that was
not set, or past a block; the model stops there, for the code's behaviour is not
defined. `leaked`, `failed`, `bad` and `wanted` are ghosts; `bad` says which of
the two threads has been sent a text the code cannot take.

`GoodTextsDoNoHarm` does not say that the code takes every text the server may
send: it does not. It says that harm has its cause on its own side: labels by a
weather text, LEDs by a command, each a text the code cannot take, or else a
heap used up; and that nothing but these causes a stray write. Neither the cut
texts, nor the losses, nor the order of the two threads are a cause.

## 3. Runs

| Run | Properties | What it shows |
|---|---|---|
| `mqtt` | `TypeOK`, `ConnectedHasSession`, `NoSocketLeak`, `ProbesBounded`, `BackoffBounded`, `LocksMatch`, `ServedClientIsKept`, `KeepsPromise`, `SelfHealing`, `PublishReturns`, `BootEnds` | over all interleavings, networks and allocations: the state the publisher reads is backed by a session, no socket and no mutex is lost, the counters are bounded, a served client is never freed, `MqttLink` is implemented; with fair threads and timers a served client recovers from every outage, a publish returns, the boot ends |
| `mqtt_linkup` | `LinkComesUp` is violated | one failed boot, and the client is never built again |
| `led_matrix` | `TypeOK`, `ClockIsRedrawn`, `NoFrameRefused`, `TransfersDontOverlap`, `NoGateStaysShut`, `RedrawEnds` | whatever command the clock preempts, its own frame is whole; one or two redraws in one command cannot start overlapping transfers; a refused frame leaves no gate of the HAL shut for good; without commands no frame is lost and the UI goes on |
| `led_wait` | `WaitEnds` is violated | a command preempted between the BUSY state and the enabled stream stops the lvgl thread for ever |
| `led_rest` | `RestBeforeClock` is violated | the dark frame and the clock are sent without the reset pause |
| `led_clock` | `TypeOK`, `FaceIsReadable`, `WritesInRange` | each of the 1440 times is drawn in range and reads back as itself only |
| `ui_timers` | `TypeOK`, `GapBounded`, `SensorRecovers` | the gap between two uploads is six callbacks with their stalls and one fetch at most, for stalls do not add up; a repaired sensor is shown again |
| `ui_five` | `UploadsEveryFiveSeconds` is violated | even when nothing takes any time the uploads are six seconds apart, not five |
| `wlan` | `TypeOK`, `OneCallAtATime`, `KeptOnlyAfterFailedScan`, `DownIsWatched`, `ConnectingEnds`, `KeepsGoodLink`, `KeepsWatch` | boot and reconnection on a bus that fails, with allocations that fail: no two calls overlap, the mutex stays only with a failed scan, the timer runs while the station is down, the connecting bit ends, a good link is kept, `StaWatch` is implemented |
| `wlan_shell` | `LockIsGranted`, `WorkIsRecycled`, `Reconnects` | with a user in the shell and a bus that loses nothing: the mutex is granted even while the MQTT thread spins, the one work item comes back, a saved network in range is joined again by the work alone |
| `wlan_spin` | `TriesAgain` is violated | an MQTT thread without a connection spins above the system workqueue: a lost link is not tried again |
| `json` | `TypeOK`, `HeapIsAccounted`, `FailsOnlyAfterLeaks`, `GoodTextsDoNoHarm`, `WeatherReturns` | answers and commands of every kind on one heap: every block is in use or lost to a text that did not parse; nothing is refused before such texts have used up the heap; labels, LEDs and memory go wrong only by a text of their own side that the code cannot take, or by a heap used up; the weather comes back |

Each passing property has a mutant in `PROJECT.json`: an operator of the module,
marked `Bug:`, which changes one definition the way a slip in the code would,
and under which the property fails.

**Bounds and why they are enough.**

- `MqttClient`: `ConnectTries = 2` (8 in the code) has a first, a further and a
  last try; `ProbeMax = 2` is the value of the code; `IntervalMin = 1`,
  `IntervalMax = 3` doubles past the maximum and is clipped as 1000..60000 does
  (here 1, 2, 4, 3; there 32000, 64000, 60000). There is one client, one
  publisher and no further bound: everything else is finite by itself. The
  proofs hold for all values. The violation run `mqtt_linkup` takes still
  smaller values, since its counterexample needs none of them.
- `LedMatrix`: two LEDs, one lit. A drawing that is half done, a frame after a
  frame and a mixed buffer exist with two; the HAL does not look at the length.
  `Overtakings = 3` is the first number for which the protection of the HAL does
  not hold any more; `TransfersDontOverlap` states it for fewer and the state
  space has the rest.
- `LedClock`: nothing is bounded; the NTP times are three starting points of the
  day.
- `UiTimers`: `WeatherPeriod = 30` instead of 600 s. What matters is that it is
  longer than a gap, so that at most one fetch falls into one
  (`TimesAssumption`). `Recovery = 2` (2.45 s in the code), `UploadMax = 2`,
  `FetchMax = 3` are longer than the period of `timer2`. The bound is reached.
  Two uploads are six callbacks apart (`count` starts again at 1), so the
  shortest gap is six seconds. `ui_five` sets the three stalls to 0, so that
  nothing but `count` can be the reason for its sixth second.
- `WlanSta`: `HoldMax = 3` instead of 255 lets the count reach its limit, at
  which a further take fails. The run `wlan` has the boot and the work on
  a bus that loses a join's answer and the end of a scan, the two waits with the
  most to go wrong after them; `wlan_shell` has all three threads on a bus that
  loses nothing. All three on the bad bus together passed the same safety
  properties once (15.9 million states), but take too long to be one of the
  runs; the theorems cover them.
- `JsonUsers`: `HeapUnits = 20` instead of about 200 has room for both threads
  at work (14 units) and a few lost texts, so that every allocation
  is refused in some state. Two pieces have a first and a last; a piece between
  them would leave the buffer as the first does.

**Deadlock** is checked in every run but `json`, where a write through NULL ends
the model on purpose.

**Fairness.**

- `MqttClient!FairSpec`. `mqtt_main_thread` gets the processor whenever lvgl
  sleeps or waits, and a mutex is handed to the thread that waits for it: strong
  fairness of its steps and of the steps of a publish that has begun. The 200 ms of
  a yield end (`YieldReturns`), the ping timer expires (`KeepalivePing`), the
  reconnect timer expires (`TimerExpires`). Nothing is assumed of the network or
  the heap beyond the premise of a property, nor that the UI publishes.
- `LedMatrix!FairSpec`. lvgl has the highest priority of the two threads; the
  hardware finishes a transfer. Nothing is assumed of tshell. The violation
  `led_wait` therefore is not an unfair schedule: the thread that could help
  cannot run, by priority.
- `UiTimers!FairSpec`. The lvgl thread runs and each of its waits ends.
- `WlanSta!FairSpec`. The scheduler runs each thread that may run (`CanRun`
  excludes the workqueue while the MQTT thread spins, which is how `wlan_spin`
  comes to be) and hands the mutex to a thread that waits for it again and again
  (strong fairness of `Lock`: waiters queue by priority and each call is
  finite). The timers fire. On a good bus the module answers. Strong fairness of `Scanned("work",
  TRUE)`, `Join("work")` and `EvOutcome(TRUE)` says that an access point which
  stays in range is not missed by every scan and does not refuse every join.
  Neither the shell's user, nor the bus, nor the access point is fair.
- `JsonUsers!FairSpec`. The lvgl thread fetches again and again. Nothing is
  assumed of the server or of the commands.

## 4. Proofs

The theorems hold for all values of the constants that satisfy the named
assumptions of the modules. Nothing else is assumed.

**`MqttClient_proofs`**, for every `ConnectTries > 0`, every `ProbeMax` and every
`0 < IntervalMin <= IntervalMax`:

| Theorem | States |
|---|---|
| `TypeCorrect` | `Spec => []TypeOK` |
| `SessionBehindConnected` | `Spec => []ConnectedHasSession` |
| `NoSocketIsLost` | `Spec => []NoSocketLeak` |
| `ProbesAreBounded` | `Spec => []ProbesBounded` |
| `BackoffIsBounded` | `Spec => []BackoffBounded` |
| `LocksAreMatched` | `Spec => []LocksMatch` |
| `ServedClientLives` | `Spec => []ServedClientIsKept` |
| `ImplementsLink` | `Spec => KeepsPromise`, the refinement of `MqttLink` |
| `BootIsShort` | `Spec => [][Booting /\ pc' # pc => BootWork' \in 0 .. BootWork - 1]_vars` |

The argument. `ConnectedHasSession` is not inductive: from a state in which
`mqtt_main_thread` is about to close the socket while the state reads CONNECTED,
one step breaks it. `SessionInv` adds that such states do not exist: at each
point of the thread where the socket is dropped or built, the state is not
CONNECTED (`Untold`). A late publish failure cannot undo this, because it only
ever writes DISCONNECTED. It also adds that at the two places which write
CONNECTED, a CONNACK was read on the socket still in use (`Acknowledged`), and
that no socket is held where one is dialled (`HandleInv`). `ProbesInv` says where a count
above `ProbeMax` can be seen at all. `LocksInv` follows the
two mutexes until a publish runs on freed memory, which needs the client to be
freed first. `BackoffBounded` is inductive with the types. For the refinement,
`LinkStep` maps every step to `Open`, `Close`, `Tell`, `Untell`, `Serve`,
`GiveUp` or a stutter of `MqttLink`, under `SessionInv`.

`ServedClientIsKept` needs to know who calls: a failed connect frees the client
when the boot made it and keeps it when a reconnect did. `KeptInv` ties `caller`
to the places of the thread, the heap to them, and the state to whether anybody
can have been told of the client yet (`Told`). It also says how far the freed
client can be seen: inside `IOT_MQTT_Destroy`, after a subscription that failed,
and nowhere else.

`BootIsShort` is the safety half of the run's `BootEnds`. The boot goes through
the places of `BootGraph`, and `BootWork` ranks a place with the tries that are
left: every step of the boot to another place lowers the rank, whatever the
network and the heap do, and the rank is a natural number of at most
`4 * ConnectTries + 16`. What is left to fairness is that the thread takes its
steps. The rank is not a property of a run, since its definition belongs to the
proof; TLC confirmed it for three tries before it was proved.

**`WlanSta_proofs`**, with or without the shell, on any bus, for any set of
packets it may lose and any `HoldMax >= 2`:

| Theorem | States |
|---|---|
| `TypeCorrect` | `Spec => []TypeOK` |
| `CallsDoNotOverlap` | `Spec => []OneCallAtATime` |
| `KeptByFailedScanOnly` | `Spec => []KeptOnlyAfterFailedScan` |
| `DownWatched` | `Spec => []DownIsWatched` |
| `ConnectingIsOwed` | `Spec => []ConnectingEnds` |
| `GoodLinkIsKept` | `Spec => KeepsGoodLink`, a property of steps |
| `ImplementsWatch` | `Spec => KeepsWatch`, the refinement of `StaWatch` |

The argument is that of a lock. `Owned`: a thread inside a call owns the mutex,
and the work owns it from its take to its end. It would not survive a release too
many, unless the takes are counted: `Counted` says that the owner has taken the
mutex no more often than its place tells (`Levels`), except after a failed scan.
A step of a thread begins, locks, goes on or ends (`ThreadKinds`), and one that
ends releases what it owes or has failed its scan. `Signals` ties each complete
to the owner's place. `Answered` and `Named` say what is known of the packets of
a join as long as no answer was late: an answer finds its join, a join that was
taken has its outcome to come, the outcome finds the network's name, and the
work on its way to a join is not overtaken by a link without a name. For the
refinement, `WatchStep` maps every step to `Enable`, `Up`, `Down`, `Submit`,
`Run`, `End` or a stutter of `StaWatch`. It rests on `ItemInv`: the item is
running exactly while the workqueue runs its work. The lemma `WatchThread` says
that no step of a thread touches the link or the timer, and that only the last
step of the work ends the attempt.

**`JsonUsers_proofs`**, for every heap that has room for both threads at once:
`TypeCorrect`, `EveryBlockIsAccounted`, `FailureHasLeaks` and `HarmHasCause`
state the four invariants of the run. The types bound what is used by the size of
the heap, which needs the account, and the account needs the types, so `HeapInv`
proves them together. `HarmHasCause` adds `Traced`, in three parts: a text the
code cannot take, from the answer to the labels (`LabelsTraced`), the LEDs
(`LedsTraced`), and the stray writes (`WritesTraced`) each have their cause
recorded already. It says nothing of what such a text does, which the code
leaves open.

**`LedMatrix_proofs`**, for a strip of any length and any lit LEDs:

| Theorem | States |
|---|---|
| `LedTypeCorrect` | `Spec => []TypeOK` |
| `ClockAlwaysRedrawn` | `Spec => []ClockIsRedrawn` |
| `NoFrameIsRefused` | `Spec => []NoFrameRefused` |
| `TransfersNeverOverlap` | `Spec => []TransfersDontOverlap` |
| `GatesReopen` | `Spec => []NoGateStaysShut` |

`Planned` says which drawings each thread can have before it. `Redrawn` follows
lvgl through the loops of its two drawings, LED by LED; it holds because tshell
does not run meanwhile. `Alone` ties the state of the channel, the lock and the
DMA to the place of lvgl until a command is given.

`TransfersDontOverlap` needs to know how the three gates stand when lvgl
preempts a command at each of its places. `Gates` says it: `ShellGates` for the
time in which lvgl has not yet reached the first gate, `LvglGates` for the
places of lvgl beyond it, each for every place of tshell. Whenever a test that
tshell has passed is no longer true, a transfer of lvgl and its interrupt have
come in between, and that has cost a redraw: a stale channel one, a stale lock
or a stale state behind it two. Only a third could pass all gates, and that is
the number in the property. `NoGateStaysShut` has no bound and is
inductive with the types.

**`LedClock_proofs`**, for any times an NTP answer may set: `ClockTypeCorrect`
(`TypeOK`), `WritesAlwaysInRange` (`WritesInRange`) and `FaceAlwaysReadable`
(`FaceIsReadable`). The invariant is `FaceShows`: what stands on the strip is
the frame of the time drawn. There are at most four writes; `OneMoreWrite` says
what one more does to the frame, and `FrameIs` adds them up to the colour of
each LED without the order of the writes (`FaceOf`). Reading it back
(`FrameIsReadable`) is then arithmetic on the digits of the minute.

**`UiTimers_proofs`**, for all durations and every period of the weather longer
than the gap: `UiTypeCorrect` and `GapIsBounded` (`GapBounded`). The bound is that
of the code's six callbacks; the five seconds of `src/README.md` do not hold.
`PaceInv` says
how much time there can be behind the callback under way (`Paced`, from the
upload counter, the place of the thread and whether its second has passed
already), without a fetch since the upload or with one. In the second case the
timer of the weather has waited no longer than the gap, so no second fetch is
due.

Every invariant and every action property of the passing runs is stated by a
theorem. Only model-checked: the liveness properties (`SelfHealing`,
`PublishReturns`, `BootEnds`, `RedrawEnds`, `SensorRecovers`, `LockIsGranted`,
`WorkIsRecycled`, `Reconnects`, `WeatherReturns`). They hold under fairness, whose
`ENABLED` the proof system does not reason about.

## 5. Where the code and its documents disagree

Five violation runs, each against a line of the repository (quoted in
`PROJECT.json`): no further attempt after a failed boot of the client;
the wait for the DMA that may never end; the missing reset pause;
the lost WLAN link that is not tried again while the MQTT thread spins
(`src/README.md:25`); the upload every six callbacks instead of the five seconds
of `src/README.md:45`, because `count` is reset before it is incremented.

A failed TCP connect counts as a success: `HAL_TCP_Establish` returns 0,
`connect_tcp` looks for -1, and the CONNECT is sent on handle 0, whose write
fails. `MqttClient` models it so (`Establish`, `handle = "zero"`); it needs one
path and no interleaving, and has no run of its own.

Three redraws that each preempt the same shell command at one particular
instruction, seconds apart, can also make two transfers overlap. That is too
unlikely to be called a finding; it is the reason for the number in
`TransfersDontOverlap`.

## 6. Not modelled

- Vendored code beyond what the modules take from it: LVGL, the RT-Thread
  kernel, lwIP and SAL, the RW007 and LCD drivers, jsmn, webclient, QoS 1 and 2 of
  the MQTT client (never used here). It is more than 99% of the repository, most of
  it never built for this board (drivers of other chips, demos, fonts,
  headers); the share of all lines the models cover is small for this reason.
- `ntp_sync`, run in the WLAN workqueue on READY: packet I/O whose only effect is
  a new time, which `LedClock` takes from any set (`NtpSync`).
- The READY event of lwIP and the user's callbacks on the WLAN workqueue: they
  print, or start `ntp_sync`.
- The access point half of `wlan_mgnt.c`: this program has no access point.
- The display port: one synchronous copy in the lvgl thread.
- The ap3216c: two reads without state.
- The order of the boot: fixed at link time, without other interleavings. What
  starts while something else is not ready yet is in the modules (`Boot`,
  `MqttStarts`, `Construct`).
- Durations in the MQTT client and the WLAN (a timeout is a step that may be
  taken), the texts and layout of the widgets, and the lengths of texts beyond
  whether they fit: a value its field, an answer its buffer, a payload its end.

The components meet in four places, each modelled on one side by what the other
does to it: the publish of the lvgl thread is a thread of `MqttClient` and a
bounded wait of `UiTimers` (`UploadMax`); the fetch is `ui` of `JsonUsers` and a
bounded wait of `UiTimers` (`FetchMax`); the redraw is `Tick` of `LedMatrix` and
`led_matrix_example_entry` of `LedClock`; the MQTT thread's boot is `Spin` of
`MqttClient` and `mqtt` of `WlanSta`.
