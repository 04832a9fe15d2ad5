# Formal models of the rainwater-harvesting sensor system

TLA+ modules, TLC configurations and TLAPS proofs for the code of this
repository: sensor nodes that log a rain tank and send what they log, and
gateways that carry it to a cloud. Paths are relative to the repository, which
is mounted as `src/`.

## 1. Inventory

The repository keeps five generations of the system side by side. The two
programs with the most state and the most concurrency are the v12 node
firmware (interrupts against a loop, a watchdog, two stores) and the v3 nRF
cloud gateway (eight threads and work items around three groups of event
flags). They are the core of this project; the radio links of the generations
before them (v4_CZ, v2, the Grove sketches of v3) are modelled beside them.

| Part | Code | State it keeps | Operations | Talks to |
|---|---|---|---|---|
| Sensor node v12 | `v5 Blues/v12` | two interrupt flags, rain counter, record number, debounce time, 5 V rail, watchdog, real-time clock timer, SD and Notecard logs | `setup`, `loop`, three interrupt handlers, `processEventAndLog` | SD card, PCF8523, Notecard |
| Cloud connection | `v3/nrf-thingy-91x/.../cloud_connection.c` | `cloud_events`, `ready_timeout_work`, `initial_association` | connection thread, network handler, library handler, timeout, `disconnect_cloud` | nrf_cloud library, message queue, provisioning |
| Device message queue | `.../message_queue.c` | bounded queue of pointers, `send_failure_count` | `send_device_message`, `consume_device_message`, its thread | producers, cloud connection |
| Provisioning | `.../provisioning_support.c` | `prov_events`, `provisioning_started`, two work items | `modem_mode_cb`, `device_mode_cb`, network handler | nrf_provisioning library, conn_mgr, cloud connection |
| LED patterns | `.../led_control.c` | three atomics, `led_events` | `short_led_pattern`, `long_led_pattern`, `stop_led_pattern`, animation thread | every other gateway part |
| Shadow configuration | `.../shadow_config.c`, `shadow_support_coap.c`, `handle_shadow_event` | `accepted_rcvd`, `config_sent`, the applied `test_counter_enabled` | accepted shadow, delta, report, reject; poll thread of the CoAP build | cloud, connection, application |
| Gateway application | `.../application.c`, `location_tracking.c`, `temperature.c` | place of the main thread, a running location request, `device_deleted` (of the connection) | sampling thread with its pauses, test counter, location callbacks, AT command handler | message queue, connection, shadow |
| Firmware update | `.../fota_support*.c` | none of its own | poll, reboot | nrf_cloud library, connection |
| LoRa link v4_CZ | `v4_CZ/TX`, `v4_CZ/RX` | rain counter, event flag, last logged count and levels, CSV log of either side | `setup`, `loop`, two interrupt handlers, `identifyAndLog`, `writeToCSV`, `transmit`; `parseLoraLine`, `logData` | LoRa radio |
| Star network v2 | `v2-code/star_tx_rx`, `component-validation/test-tipping-bucket/feather` | rain counter, watchdog, card, modem buffer | `setup`, `node_send`, `isr_bucket`, `loop` with sleep; `node_recv`, `recv_prase` | LoRa modem, SD card, serial port |
| Serial monitor | `wifi/star_rx_serial_monitor.py` | serial line, CSV file | read a line, write a row to both stores | star receiver, InfluxDB |
| Grove sketches v3 | `v3/grove_rx_light_and_switch`, `v3/adalogger-m0/sample_grove_rx_and_wire` | count of pending sends, two flags, queue of parsed data | `loop`, two interrupt handlers, `recv_prase`, `requestEvent` | LoRa modem, I2C master |
| Loggers v1, v8b, `v4_CZ/noLORA` | see PROJECT.json | as v12, less | as v12, less | SD card |
| Other serial gateways | `wifi/*.py`, `component-validation/arduino-mkr-1500/main` | one line buffer | read a line, publish | serial port, InfluxDB or MQTT |

### How the parts interact

* In the node, interrupt handlers share `bucketCount`, `flag_event_change` and
  `rtcTriggered` with `loop()`. `loop()` copies and clears the flags, calls
  `processEventAndLog()` for the digital and then for the timer event, switches
  the watchdog off, looks at the flags again and sleeps. A timer call powers the
  analog sensors over a 5 V rail. Each row goes to the SD card and to the
  Notecard, and both results are ignored.
* In the gateway, parts wait for bits in `k_event` groups: the connection thread
  for `NETWORK_READY`, `PROVISIONING_IDLE`, `CLOUD_CONNECTED`,
  `CLOUD_DISCONNECTED`; the message thread for `CLOUD_READY`; `modem_mode_cb` for
  `NETWORK_UP` and `NETWORK_DOWN`. `disconnect_cloud()` is called from five
  contexts (library thread, network management thread, system work queue,
  message thread, and the location library's through
  `cloud_transport_error_detected()`) and takes no lock. When the library refuses
  to disconnect it goes on as if it had not.
* The library thread of the gateway applies and answers shadow deltas while the
  user edits the desired value; the main thread reads the applied value and the
  connection's `device_deleted`; a location time-out, and with CoAP a time-out of the shadow or of the firmware poll, is reported as an error of the connection.
* In the star network and the Grove sketches interrupt handlers share a count or a
  flag with `loop()`, with no interrupts masked; a packet goes from the modem's
  buffer to a printed line to a row in a file and in a database, and may be lost
  on each leg.

### What is hard

Lost wake-ups, and flags cleared before or after the work they stand for;
resets and power loss between any two steps; partial writes to two stores; event
bits posted by one context and cleared by another for a different connection;
timeouts that race the answer they wait for; a bounded queue whose length is
looked at before the put; shadow messages of two directions that cross, wait for
a device that is offline or fail unnoticed; counts that are read and written in
two steps; callbacks that block for an event that another
callback reports. PROJECT.json lists each hazard at its line with the properties
that cover it.

## 2. Modules

| Module | Models | Composes |
|---|---|---|
| `SensorNode` | the v12 firmware, one action per step of `setup()`, `loop()` and `processEventAndLog()` and per interrupt handler | refines `WakeLoop` |
| `WakeLoop` | what the node promises about its inputs and flags | |
| `MCSensorNode` | bounds and scenarios of the `SensorNode` runs | `SensorNode` |
| `SensorNodeProofs` | proofs about `SensorNode` | `SensorNode` |
| `CloudConnection` | `cloud_connection.c`, MQTT build | |
| `MessageQueue` | `message_queue.c` | refines `MessageStore` |
| `MessageStore` | a bounded store of messages | |
| `CloudGateway` | connection and queue together | `CloudConnection`, `MessageQueue` |
| `CloudConnectionProofs` | proofs about `CloudConnection` by itself and with the queue | `CloudGateway`, `MessageQueueProofs` |
| `MessageQueueProofs` | proofs about `MessageQueue` | `MessageQueue`, `MessageStore` |
| `Provisioning` | `provisioning_support.c` | |
| `LedControl` | `led_control.c` and those who request patterns | |
| `ProvisioningLedProofs` | proofs about these two, which share no state | `Provisioning`, `LedControl` |
| `ShadowConfig` | `shadow_config.c`, the shadow events of `cloud_connection.c`, `shadow_support_coap.c` | |
| `Application` | `application.c`, `location_tracking.c`, what an update does | `ShadowConfig` |
| `ApplicationProofs` | proofs about `Application` and the shadow | `Application` |
| `LoraLink` | `LORA_TX.ino`, the radio, `LORA_RX.ino` | |
| `MCLoraLink` | scenarios of the `LoraLink` run | `LoraLink` |
| `LoraLinkProofs` | proofs about `LoraLink` | `LoraLink` |
| `StarNetwork` | nodes, receiver and serial monitor of v2 | |
| `StarNetworkProofs` | proofs about `StarNetwork` | `StarNetwork` |
| `GroveNode` | the two Grove transmitters and their receiver | |
| `GroveNodeProofs` | proofs about `GroveNode` | `GroveNode` |

### SensorNode and WakeLoop

`pc` is the place `loop()` has reached; an interrupt can run between any two
steps. The steps are as small as what interrupts can tell apart: copying and
clearing one flag is one step, since a flag set again between the two assignments
is set for the same call, but the test and the zeroing of the rain counter
are two, and so are the check before `LowPower.sleep()` and the sleep.
`todo` is `processDIG`/`processRTC`, `mode` the argument `isRTC`, `data` the
`SensorDataBatch` on the stack. The four digital inputs are one abstract value and
the analog readings are reduced to whether the rail was up when they were taken,
because the code copies them and decides nothing by them. `sd` and `notes` are
the rows that reached each store; `WriteSD` and `AddNote` may fail, as the
ignored results allow. A watchdog reset or a power loss (`Reboot`) empties RAM,
keeps the stores and the state of the PCF8523, and leaves the rail pin floating
until `setup()`. `lastTip`, `debounced` and `used` are observers.

`WakeLoop` keeps only flags, claimed work, inputs and the last sample, so that
nothing but resets has to be bounded and liveness can be checked. `SensorNode`
implements it (`ImplementsWakeLoop`): the refinement maps `pc` to a phase and
what `processEventAndLog` has in hand to claimed work.

### CloudConnection

`con` is the place of the connection thread, which begins with the setup of the
library and the credential check (either may be its end, `Stopped`);
`disc[c]` is that of `disconnect_cloud()` in each of its five callers, `timer` whether
`ready_timeout_work` is scheduled. `disconnect_cloud()` is five steps (cancel the
timeout, clear the flags, clear `initial_association`, call the library, post
`CLOUD_DISCONNECTED`), so that all callers interleave. The library may refuse to
disconnect (`cloud_connection.c:203`): then it keeps its connection, which `left`
remembers until that connection ends or is reported ready, and the caller posts
`CLOUD_DISCONNECTED` all the same. `lib`, `handler`, `account` and `link` are the nrf_cloud
library and the cloud, outside `src/`, as its events and return values are used
by the code: it reports one event at a time from its own thread. Time is left
out. A delay ends at any moment; when it ends amid a step of another context,
or before an answer that is due, it counts as one of the `MaxFaults` faults.
Waiting for provisioning is the gap between two steps here, and `Provisioning`
has the detail.

### MessageQueue, MessageStore, CloudGateway

A message is a producer and a number. `stage[p]` follows a producer through
`send_device_message()`, `place` the message thread. The look at the queue
length, the allocation and the put are separate steps. `sent`, `discarded` and
`rejected` are the three ways a message is freed; `rejected` also holds a message
that its maker could not stamp or fill (`NotFilled`). `MessageStore` is the promise: an
accepted message is delivered, or lost only when the store is full and one more
is in flight. `CloudGateway` instantiates the queue with the `CLOUD_READY` bit of
the connection in place of `ready`; a send succeeds only over a ready
connection, and the message thread's `disconnect_cloud()` is the `"msg"` caller of
`CloudConnection`, in place of its `MessageThreadReset`.

### Provisioning

`modem_mode_cb()` runs in two contexts, the work queue (`init`) and the library
thread (`thread`); `at[w]` says where each is, and the two blocking waits are
`IsOffline` and `IsOnline`. The network handler takes two steps per event and
lags behind the network by up to `MaxEvents` events. `delay` is
`provisioning_idle_work`: scheduled, or due and waiting for the work queue.

### LedControl

A request (`start_led_pattern()`) is three steps, `StorePattern`, `StoreFrames`
and `Post`, for the other threads (`"app"`) and for the LED thread itself
(`"led"`), which asks for the idle pattern the same way. The LED thread reads
pattern and frames in two steps and clears the event in another. The requests of
the connection thread and of the message thread never overlap, because a
connection is requested a delay after the last message; and they are so far apart
that the LED thread, which has the same priority, gets to a place where it waits
in between (`Request`). A frame of 100 ms outlasts a call (`FrameEnds`). All four
builds of the two Kconfig options are initial states. The frame counter of
`long_led_pattern` is any negative number here: it would take almost seven years
to wrap. A board without a LED device ends the thread at its start (`"off"`). The light of a pattern
and the frame number are left out.

### ShadowConfig and Application

The configuration section of the shadow has one key that the code applies,
`counterEnable`; its values here are on, off, one the device must reject (`bad`)
and none. `desired` and `reported` are the cloud's copies, `down` and `up` the MQTT
messages on their way, in order; the CoAP build has no messages but a thread that
fetches the difference and answers in the same pass (`poll`). A fetch that times out takes
the connection down (`PollTimesOut`); a difference that cannot be processed is not answered,
and may have been applied already (`PollProcessFails`). The build is chosen in
the initial state. The cloud is modelled from how the code uses it: it publishes a
delta whenever an update leaves the two copies different, keeps it for a device
that is offline, and sends the accepted shadow at the start of a connection. A
report may fail, which the code only logs. `unsure` marks that a report failed, or
crossed an edit in a way that nothing later makes up for; it is an observer,
and the condition under which convergence is promised. `wanted`, the values desired
since the connection began, is the other.

`Application` adds the main thread (`app`), which samples, counts when the applied
configuration says so, and reads `CLOUD_READY` and `device_deleted` in two steps;
location tracking; and the account. A deleted device is expelled by the cloud and
answered again only when the user has added it. Whether location tracking could be started or
cancelled is not looked at in the code, and either may fail. Transport errors are among the
causes of `Dropped`, an update and a fatal error among those of `Restart`.
`CloudConnection` has the connection itself, which is one action here.

### StarNetwork and GroveNode

In `StarNetwork` a node is a thread with the steps of `node_send()` and `loop()`; the
rain count is read in one step and zeroed in the next, and a tip can come between.
A command to the modem is heard or not, answered in time or not. The receiver
empties its buffer when it asks for a packet and takes one; what it prints
while no monitor has the port open is gone. The monitor has one row in hand (`line`):
it writes it to InfluxDB (`ToInflux`), where the write may fail, and then to its file
(`ToFile`), and may end between the two (`MonitorStops`): by an exception that it does not
catch, a failed write to the file among them. A packet that was cut when the buffer was
emptied (`"Cut"`) is skipped with the next one, if that comes at once. Otherwise
`recv_prase()` stores what an empty port gives and writes beyond `recv_buf`; of all that
this can do, the model takes that the receiver stops (`Overrun`), here and in `GroveNode`. A packet has a number of its own in the model
only, so that rows can be told apart. The transmitter is mapped to `feather.ino`, the
receiver to `star_tx_rx.ino`, of which the former is a copy.

`GroveNode` has both transmitters, chosen by `sketch` in the initial state:
`count_test_sends--` is a read (`Load`) and a write (`Store`), with interrupts between.
The receiver's `q.push()` is copied, then counted, and the interrupt of the bus pops
in between; the queue library is outside `src/`.

### LoraLink

`pc` is the place of the transmitter's `setup()` and `loop()`. Both interrupt
handlers run between any two steps, and steps are as small as they can tell
apart: the timeout test reads the counter, the clock and the time of the last tip
in three steps and zeroes in a fourth; `identifyAndLog()` compares the bucket,
reads it again, writes, sends and then remembers; a switch is read once. A packet
is sent once and is heard (`Receive`) or not (`Lost`), in order, because the
radio sends one at a time. `event` and `era` tag rows and packets so that
rows of the two logs can be compared: they are observers, as are `reported` and
`missed`. The code is built with `DEBUG_MODE` true, so that `loop()` ends in a
delay and never sleeps. A watchdog reset or power loss (`Restart`) empties RAM.

## 3. Runs

`tlc -config X.cfg M` in this directory.

| Run | Module, cfg | What it asks | Bounds |
|---|---|---|---|
| `node` | MCSensorNode, Node | inductive invariant (rail, watchdog, control flow, powered rows), no change of an input is forgotten, order and agreement of the two stores, refinement of `WakeLoop`, with interrupts at every step or a reset at every step | two scenarios: 1 tip, 2 input changes, 1 timer tick, 1 clock tick; or 1 input change, 2 timer ticks, 1 glitch, 1 clock tick, 1 reset |
| `node_rain` (violation) | MCSensorNode, NodeRain | the rain counter is zeroed only after inactivity | 1 tip |
| `wake_loop` | WakeLoop, WakeLoop | every settled input reaches a row, every flag is worked off | 3 input values, 1 reset |
| `connection` | CloudConnection, Conn | no lost disconnection, no stale readiness, recovery | 2 faults |
| `queue` | MessageQueue, Queue | ownership, capacity, order, progress, refinement of `MessageStore` | 2 producers, 2 messages each, capacity 2, 1 failure tolerated |
| `gateway` | CloudGateway, Gateway | accepted messages are sent across resets and faults, resets reconnect | 1 fault, 1 producer, 1 message, capacity 2, 0 failures tolerated |
| `provisioning` | Provisioning, Prov | flags follow the network, mode switches return, the idle mark returns | 2 losses, 1 reboot |
| `led` | LedControl, Led | no frozen pattern, no blocked animation | 4 requests, 2 frames |
| `lora` | MCLoraLink, Lora | nothing forgotten, counts in order in both logs, the logs agree on rain and floats, moved switches are taken up for logging (the write itself may fail) | three scenarios: 2 tips, 3 ticks; 1 tip, 1 change, 3 ticks; or 2 changes, 1 restart |
| `star` | StarNetwork, Star | no rain counted twice in any store, rows unique and in order, the file has what the database has, no watched sleep, nodes keep sending | 2 nodes, 1 tip, 2 packets heard, 1 reset |
| `grove` | GroveNode, Grove | pending sends never wrap, the queue hides nothing, sending ends | capacity 5, 4 presses, 3 flashes |
| `app` | Application, App | no stale configuration is applied, device and shadow converge, the counter follows, a deleted device pauses | 2 edits, 2 faults |

Why the bounds are enough. `node` and `lora` bound the stimuli by scenarios, each
with what one question needs, and not by their product. In the first scenario of
`node` one tip and two changes give a digital event that is accepted, one that is
rejected as too fast and one more during either call; the one clock tick crosses
`DebounceGap`, which is 1 here. In the second one a reset separates two power cycles, and two
timer ticks give a row on each side of it. The clock constants are 3, 2 and 1 (2 in `node_rain`): only
their order matters (`TimeAssumption`, which the proofs use too). Two faults in
`connection` let two contexts disconnect at once beside the library's own, or one
disconnect while a delay races a new attempt; the one fault of `gateway` comes on top of
the resets of the message thread, which are not counted. Both also hold with one fault
more (865,000 and 900,000 states), for which the time of a run is too short. In `queue` four messages overfill a queue of two by
the message thread's own and by one in each producer. In `gateway` every failed
send resets the connection (`MaxFailures = 0`), so that the two machines meet as
often as possible, and room for every message makes the promise
unconditional.

Four requests in `led` are a start, a pattern that ends and one that meets its
end, and one more; two frames make the last frame differ from the first. In
`lora` the debounce time is 0 and the timeout 1 tick (only their order matters):
three ticks are a tip, a timeout and a tip after it, or a tip between the steps
of the timeout test; the change of the second scenario moves a switch before,
during or after the round of the sensors that a tip has started; in the third one
the second change can undo the first and the restart can separate them. `Word` is
larger than the counts, so that the 16 bits of a packet do not wrap before 65536
tips, and `Wrap` larger than the time, so that only a negative difference wraps.

Two nodes in `star` can have packets in the receiver's buffer at once, two packets
can be in it or on their way to the two stores, and the tip falls on either side of
the reading and the zeroing, with a reset between any two steps. With two tips, one on
either side, the run passes as well (1.9 million states). `grove` has the
real capacity of the queue and enough presses for one during each step of a
decrement that is itself after another. Two edits in `app` undo each other or
follow a rejected one; two faults are a deletion or drop and a failed answer
or a reset around it.

`CHECK_DEADLOCK FALSE`: in `node`, `node_rain` and `lora` the bounded stimuli run
out and the node sleeps or waits; in the gateway runs the system is at rest when no
fault, event or message is left; `nrf_provisioning_init()` may fail, which ends the
activity of `Provisioning`; in `star` and `grove` every part may have stopped in its
setup.

### Fairness

* `WakeLoop`: weak fairness of the steps of `loop()`, which nothing blocks, and of
  the timer tick, because timer B of the PCF8523 reloads in hardware;
  this takes `rtcManager.begin()` to have succeeded, after whose failure `setup()` goes on
  (`v12.ino:63`) with no timer. Nothing is
  assumed of inputs, tips, glitches or resets. Resets are bounded; with
  endless resets no property of this kind could hold.
* `CloudConnection`: weak fairness of threads, work queue and library. The
  network comes back and the user associates the device: without either the
  cloud can never be ready. Faults get no fairness
  and are bounded; a delay of half a minute or more that ends amid a step of another
  context, or before an answer that is due, counts as a fault. `ReadyAgain` and
  `AssociationReconnects` except the time in which the library keeps a connection that it
  refused to end (`left`).
* `MessageQueue`: weak fairness of the steps, of readiness coming and going, and
  strong fairness of `AwaitReady` and `SendSucceeds`: `k_event_wait` is woken by
  the post itself, and a send that can never succeed would hide every other
  question.
* `CloudGateway`: the fairness of both parts, with the same exception. A delay before a
  reconnection that ends while the message thread is in a step of a send or of a
  disconnection is possible too, and counts as a fault.
* `LedControl`: weak fairness of the LED thread, of a call that was begun, and of the
  frame timer. Nobody has to request anything.
* `Application`: weak fairness of the main thread, the library's handler, the poll
  thread, the connection thread (which reconnects: `ReadyAgain` of
  `CloudConnection`), and of the cloud, which delivers and answers what it has.
  Nothing is assumed of users, drops, failures or resets; convergence is promised
  only once the user leaves the configuration and the account alone.
* `StarNetwork`, `GroveNode`: weak fairness of each processor's `loop()`, which
  nothing blocks for longer than a timeout, and of the monitor while its port
  is open. Tips, presses, requests, resets and the radio get none.
* `LoraLink`: weak fairness of `loop()`, which nothing blocks, and of the watchdog
  in a hang; strong fairness of a start that finds the card, since without a card
  no transmitter works. Inputs, time, radio and resets get none.
* `Provisioning`: weak fairness of handler, work queue, timer and library thread;
  strong fairness of the idle mark during a pause, since the pause (half an
  hour and more) is longer than the delay (five seconds).

### Differences

The violation run shows where the code does not do what a comment of it says: the
rain counter that is zeroed by any event (`node_rain`). PROJECT.json quotes the
lines.

Some more statements of comments and READMEs are written down as properties that
the code does not have either. No run lists them; TLC refutes each one under the
constants of the run named here, with the property put in place of that run's.

| Property | Kind | Under | What happens |
|---|---|---|---|
| `CloudConnection!TimeoutSparesReadyConnection` | property | `connection` | the readiness timeout is scheduled just after readiness was posted, and later takes the ready connection down (`cloud_connection.c:104` against line 88) |
| `CloudConnection!UnreadyConnectionIsTimed` | invariant | `connection` | an attempt that finds the library connected is waited for without a timeout (`cloud_connection.c:281` against line 85) |
| `CloudConnection!ConnectionMaintained` | property | `connection` | the library refuses to disconnect and `disconnect_cloud()` goes on: `CLOUD_READY` is cleared, the next attempt finds the connection, takes it for success and starts no timeout, and nothing posts `CLOUD_READY` until that connection is lost by itself (`cloud_connection.c:203`, `:281` against README.rst:83); in TLC's trace the refused disconnection is the one after an initial association |
| `MessageQueue!FailedMessagesAreKept` | invariant | `queue` | a message whose send failed finds the queue full and is thrown away (`message_queue.c:153` against README.rst:108) |
| `Provisioning!NoFalseStart` | invariant | `provisioning` | the idle mark of one check appears during the next one (`provisioning_support.c:122` against line 129) |
| `LedControl!LongPatternShown` | property | `led` | a long pattern requested while another one ends is never shown (`led_control.c:268` against `led_control.h:29`) |
| `LedControl!ShortPatternEnds` | property | `led` | a success pattern takes over the endless duration of the idle request (`led_control.c:182` against `led_control.h:22`) |
| `LoraLink!LeafAgrees` | invariant | `lora` | transmitter and receiver give the leaf switch opposite labels (`LORA_RX.ino:92` against `LORA_TX.ino:140`) |
| `LoraLink!TipsAreLogged` | invariant | `lora` | the counter was reset and the last logged count was not, so that a tip that equals it is not logged (`LORA_TX.ino:82`) |
| `LoraLink!CounterKeptWhileItRains` | property | `lora` | `lastBucketTime` is newer than the `millis()` it is subtracted from, or the tip falls between the test and the assignment (`LORA_TX.ino:81`) |

Losses and omissions that are steps of the models, with no promise in the code
that they would break:

* a tip between the reading and the zeroing of the rain count, and the whole rain of
  a packet whose send failed, reach no store (`feather.ino:254`, `:268`); a node
  without a card spins, and one whose modem missed one answer in `setup()` idles,
  both without the watchdog (`feather.ino:305`, `:313`);
* a press that sets `flag_switch` between the send and line 97 of
  `grove_rx_light_and_switch.ino` is lost; a bus request amid a push leaves the count
  of the queue one too high;
* an answer to a delta that fails while the connection stays is not repeated
  (`cloud_connection.c:394`): the shadow disagrees until the next edit or connection;
* the comment at `application.c:452` names network trouble *or* a deleted device as
  the reason to pause, and line 455 asks for both; only the MQTT build ever
    sets `device_deleted`, and a deletion while the device is offline is not noticed;
* the same comment says "turn off sensors", and the result of `location_request_cancel()`
  is not looked at: tracking may go on while the main thread pauses (`application.c:457`);
* an edit between the accepted shadow and the library's info, back to the value last
  reported, makes no delta, and the device keeps the other value (`shadow_config.c:183`);
* the monitor ends by an exception of its write to the file and leaves the row in InfluxDB
  alone (`star_rx_serial_monitor.py:187`, `:193`); a packet cut by the emptying of the
  buffer makes `recv_prase()` read on without a bound (`star_tx_rx.ino:114`,
  `GroveLora.cpp:88`);
* an interrupt of the clock whose pulse is over when `isr_rtc()` reads the line is not
  taken for a tick (`v12.ino:235`), and record numbers start again with each power cycle,
  so that only the model tells rows of two cycles apart;
* when `nrf_provisioning_init()` fails nothing marks provisioning idle, and the
  connection thread waits for it (`provisioning_support.c:163`).

## 4. Proofs

Every invariant of every run is proved, for every value of the constants that its
module's named assumption allows, and with it the two refinements, the action
property of the shadow, and what the composition of connection and queue inherits. The
bounds of the runs (resets, faults, tips, packets, edits) are constants too, so that
the theorems hold for any number of them. An assumption that a theorem needs beyond
that is in its statement.

### Sensor node (`SensorNodeProofs`)

`PinAssumption`, `TimeAssumption` (the order of the three times) and
`LimitAssumption` (the limits are numbers) are what it starts from.

* `TypeCorrect`, `NodeInvariant`: `Spec => []NodeInv`, the inductive invariant;
* `RailSafe`, `WatchdogSafe`: the discipline of the rail and of the watchdog;
* `ChangesSafe`: `ChangesArePending`; `RowsOrdered`: `RowsInOrder`; `StoresConsistent`:
  `StoresAgree`;
* `NodeImplementsWakeLoop`: `Spec => ImplementsWakeLoop`.

None of the properties is inductive by itself. That stored rows were powered needs the
row in the loop's hands to be powered (`RowsArePowered`), which needs the rail up at
the readings of a timer call (`RailUpForAnalog`), which needs to know which branch each
place belongs to (`Flow`), and the discipline of the rail itself. That the stores are
ordered and agree needs the row under construction to be newer than everything stored
(`NewestRow`, `StoredRows`): a record number is taken before the row is built and never
again in the same power cycle, a row is written to the card and then to the Notecard,
and either write may fail. That no change is forgotten needs `RamIsBlank` (before
`loop()` there is no last row to differ from), and the refinement `ClaimedOnce`: an event
being served is no longer marked to be served. The proofs have one step per action. In
the refinement an interrupt is an interrupt of `WakeLoop`, the rejection of a digital
event is its rejection, and the steps of a call from sampling to the last store are
one sample and stutters.

### Message queue (`MessageQueueProofs`)

From `QueueAssumption`: the bounds are numbers, the capacity is positive, and the
placeholder of `held` is no message.

* `QueueInvariant`: `QSpec => []QueueInv`, with `QueueTypes`, `QueueOwnership` and
  `QueueCapacity` as parts of it;
* `AttemptsOrdered`: `QSpec => []FirstAttemptsInOrder`;
* `QueueImplementsStore`: `QSpec => ImplementsStore`, the refinement of `MessageStore`.

`QueueInv` joins types, ownership, capacity and `HeldWhileSending`: a message that is
rejected is a message only because its owner is its producer, and it is new to the
queue only because it has one owner. `AttemptOrder` is what keeps first attempts in order
although a retry goes to the end of the queue and so overtakes nothing but is overtaken:
a message not yet tried comes after all tried ones of its producer and after the untried
ones ahead of it. The proof has a lemma per step; what several steps share (a message is
freed, a place changes, a producer releases its message) is stated once over what they
assume of the step. For the refinement, a queue without repetitions has as many
elements as places (`DistinctCardinality`), so that the capacity of the queue is that of
the store, and the message that is held is the one more in flight.

### Connection, and connection with queue (`CloudConnectionProofs`)

* `ConnSafe`: `CSpec => []ConnInv`. The two properties are inductive once `HandlerInv`
  is known: the library's thread is inside `disconnect_cloud()` exactly while its
  handler has not returned, and a handler that has been told of readiness can only have
  seen the connection begin to close since. The proof follows the contexts: connection
  thread, `disconnect_cloud()` in any of its callers, library handler, the other
  callers, and the library.
* `GatewayConnSafe`: `GSpec => []ConnInv`, with the message thread in place of
  `MessageThreadReset`. Its reset is one more caller of `disconnect_cloud()`, for which the
  lemma about callers was stated, and every other step of the queue leaves the connection
  alone.
* `GatewayImplementsQueue`: `GSpec => MQP!QSpec`. Each step of the gateway is a step of the
  queue, in which the `CLOUD_READY` bit coming or going is its readiness coming or going, or
  leaves it alone. `GatewayAssumption` is `QueueAssumption` of the instance.
* `GatewayQueueSafe` then takes ownership, capacity, order and refinement from the
  theorems about the queue, which are used as an instance and not proved again. Only the
  safety of the parts composes in this way; the fairness of `QSpec` is restated in none of
  them (`QSpec` has no fairness, `QFairSpec` has).

### Provisioning and LEDs (`ProvisioningLedProofs`)

* `ProvSafe`: `PSpec => []ProvInv`. The handler works in two steps and lags behind, so that
  the flags alone say nothing. `ProvInd` adds that the latest event says what the network
  is (`LatestIsTrue`), what can have happened before `provisioning_started`
  (`NothingBeforeStart`), and which flag is clear between the two steps (`OneFlag`). One
  lemma covers every step that posts an event, another every step that touches neither
  network nor flags.
* `LedSafe`: `LedSpec => []LedInv`, inductive by itself: only `Clear` takes an event back,
  on the way to the place that turns the LEDs off or asks for the idle pattern.

### Application and shadow (`ApplicationProofs`)

* `AppSafe`: `FairSpec => []AppInv`;
* `NeverStale`: `FairSpec => NoStaleConfig`, an action property.

`wanted` begins anew with each connection, while messages of the connection before may
still be on their way. `Fresh` says why none of them is applied: what waits in `down`
from before comes ahead of the accepted shadow, everything from the accepted shadow on is
wanted, there is no accepted shadow before the cloud was asked, and
`accepted_rcvd` is set only by one. The lemmas are about messages that are delivered,
appended and kept over a drop.

### LoRa link (`LoraLinkProofs`)

* `LinkInvariant`: `LSpec => []LinkInv`, from the inductive `LinkInd` (`LinkInductive`), which
  adds the two conjuncts that only the next theorems need, `RainInOrder` and `EventsMatch`;
* `CountsRise`: `CountsIncrease`, and `LogsAgree`: `RainAndFloatsAgree`, both with the
  hypothesis `MaxTips < Word`. `Word` is 65536 in the code: with more tips than that since the
  program began the counts of a packet wrap and both statements are false.

`LinkInv` is `NothingForgotten`, `SwitchesKept` and `RainKept`. `NothingForgotten` speaks of a loop at rest. `SwitchesKept` and `RainKept` speak of every
place: a switch that differs from what was logged for it has raised the flag since or is
among those that `identifyAndLog()` has still to look at (`Ahead`); the bucket's count
differs from the last logged one only with the flag up or the bucket's turn not over.
`RainInOrder` orders the card, the packets in the air and the receiver's log
(`NotAhead`: a row says no more than was sent last, or is being sent), which needs
`RainKept`: without it a count could be sent twice. `EventsMatch` says that an event has
one row and one packet at most, and that they were made from the same value.

### Star network (`StarNetworkProofs`)

* `StarInvariant`: `FairSpec => []StarInv`, with `PathInOrder` and `RainAccounted`;
* `NeverOvercounted`: `RainNeverOvercounted`, `RowsUnique`: `RowsOnceInOrder`, and `FileFollows`:
  `DatabaseWithinFile`.

`StarInd` is inductive. `PathInOrder` puts modem buffer, USB line, the row in hand and the rows
in the order of the packets. `RainAccounted` is a balance: rain in the rows, in hand, on the
line, in the modem, in the packet being prepared and in the count is never more than fell,
for card, file and database each by itself; losses only lower it. It says nothing of one
store against another: the database may be ahead of the file by one row, or behind it by
any number. `RowInHandIsLatest` is what `DatabaseWithinFile` needs beyond itself: the row in hand is
the last that the database can have.

The balance is over sums of logs of any length. `Rain` is a recursive function of the
number of rows, and a function that is defined recursively has first to be shown to
exist. The library's induction theorem cannot be used (its parameter is an operator), but
induction over a *set* of numbers can be: `LeastNumber` takes the least member of a
nonempty set from `NatLessThanWellFounded`, `SetInduction` follows from it, `SumsExist` and
`SumsUnique` apply it to the set of lengths up to which the sums exist and agree, and
`TotalsSum` is the recursion equation. `RainAppend` and `RainTail` say what a new row
and a delivered one do to the sum; the actions need no more than these two.

### Grove sketches (`GroveNodeProofs`)

* `GroveSafe`: `FairSpec => []GroveInv`, for at most 255 presses (`GroveAssumption`): more of
  them, unsent, would wrap the byte by themselves. The decrement is split in two steps;
  `CountAhead` says that what the first one read is not zero, because a flag is set together
  with the count and cleared only after it has been taken off. `PushInProgress` does the
  same for the queue's count, which a request may lower amid a push.

### Only model-checked

* Liveness: every property that needs fairness (`wake_loop`, `gateway`,
  `ReadyAgain`, `AssociationReconnects`, `EveryMessageSettles`, `ModeSwitchReturns`, `IdleAgain`, the
  three of the LEDs, `MovedSwitchIsLogged`, `NodesKeepSending`, `SendsStop`,
  `PausesWhenDeleted`, `ConfigConverges`, `CounterFollowsShadow`). The prover has no rule for
  `ENABLED`, and so none for fairness.
* `WakeLoop` and `MessageStore` are specifications that others implement; what they imply
  under fairness is checked (`wake_loop`) or not claimed.

## 5. Not modelled

* The values and formats of rows, notes and messages; GPS, the Notecard's own
  queue and upload.
* `coap_connect()` of the gateway's CoAP build (one blocking call in place of the
  library's events); date and time; the temperature and button alerts, which go
  straight to a library; the firmware update itself, which is a library.
* The local timer sensors and radio set-up of the LoRa receiver; GroveLora, which
  passes text to a serial port; what the registers of the Grove receiver hold.
* v1, v8b, `noLORA`, and the other three sketches of v2: earlier copies or forms of the
  parts modelled.
* The serial gateways but one: sequential programs around a database or broker that is
  not in the repository.
* Day files and headers of `Logger.cpp`: a reset between the creation of a file and its
  header leaves a file without one; the content of files is below the level of rows.
* CAD, data analysis, plots, logs, single-component tests.

## 6. Plan

1. Done: the node, the gateway's connection, queue, their composition, provisioning, LED
   patterns, shadow and application; the LoRa link, the star network and the Grove
   sketches; every invariant of the runs, the refinements of `MessageStore` and `WakeLoop`,
   `NoStaleConfig` and the safety of `CloudGateway` as theorems.
2. Proofs next: the step invariants behind the liveness properties (that a blocking mode
   switch waits only while an event is on its way, that a paused application has a deleted
   device, that a pending digital event is not masked by a timer event); that the two
   machines of `CloudGateway` refine one abstract store that loses its connection; what the
   rows of `SensorNode` say about rain (`bucketCount` between two resets of it).
3. Modules next: the CoAP build of the connection; day files and headers of
   `Logger.cpp` against the rows written to them; the MKR 1500 gateway.
4. Compositions next: provisioning with the connection thread; `Application` with
   `CloudConnection` in place of its one-step connection.
