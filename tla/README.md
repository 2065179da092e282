# Verification of the atom device tree

TLA+ models of the programs in the device tree for Xiaomi's atom (MediaTek
MT6873): the Bluetooth HAL and its vendor library, the voice relay daemon, the
lights and fingerprint HALs and the XiaomiParts app. This directory holds the
specifications, the configurations TLC checks them with, and the proofs TLAPS
checks. `PROJECT.json` maps every definition that models code to its lines and
lists the hazards, runs, mutants, findings and theorems.

## Inventory

| Part | State it keeps | Operations | Talks to | What makes it correct |
|---|---|---|---|---|
| Vendor library `mediatek/bluetooth/libbt-vendor` | `btinit` (chip, NVRAM record, script), `btinit_ctrl` (thread, mutex, condition variable), statics `cmd_status`, `wOpCode`, `fgGetEFUSE`; the NVRAM file | `op(FW_CFG)`, `cleanup()`, the init thread, two completion handlers | HAL by callbacks (`xmit_cb`, `fwcfg_cb`), controller by the HAL | the handshake of three threads: no lost termination, no join of a thread that waits for ever, success only when every command was acknowledged, one address in controller and file |
| HAL `interface/vendor_interface.cc` | `hci_`, `lib_interface_`, the global `internal_command`, the low power flags | `Initialize/Open`, `Shutdown/Close`, `Send`, `HandleIncomingEvent`, `OnFirmwareConfigured`, `OnTimeout` | library, watcher, packet protocols, client | answers reach whoever asked; nothing is deleted while it is used |
| Watcher `interface/async_fd_watcher.cc` | `running_`, the watched descriptors, the timeout, a pipe | start, stop, configure timeout, the thread's loop | HAL | stop always joins; a wake-up is not lost |
| Packet framing `hci_packetizer.cc`, `hci_protocol.cc`, `h4_protocol.cc`, `mct_protocol.cc` | packetizer state, bytes read and remaining | data ready, write | watcher, UART | the packets handed on are the ones in the byte stream |
| HIDL service `bluetooth_hci.cc` | `unlink_cb_`, `death_recipient_` with `has_died_`, `g_vendor_interface` | `initialize`, `close`, `send*`, `serviceDied` | several binder threads | one session at a time, whatever the order of calls |
| `btremoted` | three descriptors, `main_buf` with `head`, `tail`, the last sequence number | start-up, poll loop: connect, disconnect, SCO packet, write to client | one client, the SCO server | a client gets its own session's audio in order |
| Its concealment `sbcplc.c` | `PLC_State`: history, lag, lost frames in a row | lost frame, received frame, reset | `btremoted` | what is heard is a seamless repetition, and nothing left in the history by an earlier connection |
| XiaomiParts doze service | `mThread`, pending notifications, the display node, two settings; sensor objects with an executor each; registered observers | `onCreate`, `onDestroy`, screen on and off, `onChange`, delayed threads, `onDCSwitch` | SystemUI by settings, fingerprint HAL by the node, sensors, display service | HBM is off when not needed and on when needed, whatever the boot receiver and the user's switch write; sensors listen while the screen is off, and only then; dimming gives way to the fingerprint view |
| XiaomiParts screens and tile | preferences, service connections | taps, leaving the screen | doze service by binding, display node, display service | a switch reaches the service, or nothing is left of it |
| Clear speaker | `mMediaPlayer`, a posted timer, an audio parameter | switch, 30 s, `onStop` | audio HAL | the sound ends, the earpiece is given back |
| Lights HAL | battery and notification states, last brightness mode, a mutex | `set_light_*` | sysfs | the more important light wins, and its colours are told one way of showing it; the display's mode is the backlight's |
| Fingerprint HAL | the vendor's service | forwarded calls; `onHideUdfpsOverlay` writes the display node | touch feature service | forwarding |
| Shims, log collector, init scripts, patches, tools | none of their own | | | |

Hard behaviours: the three threads of the library (binder, init, watcher) share
`cmd_status` and a mutex created and destroyed by one of them; the HAL hands a
callback from one thread to another in unlocked globals, which survive a session
while the library, unloaded by `dlclose()`, starts anew; threads of XiaomiParts read a
setting, then write a node; threads are started and forgotten; the HAL's one
object is used by every binder thread without a lock or a count; bytes come and
go in pieces. `hazards` in `PROJECT.json` names each of them at its line, with
the property that would catch it or the reason why none does; where a property
excepts the hazard's own failure, because the code does nothing against it, the
hazard's note says which part is caught and which is only shown.

## Modules

| Module | Models |
|---|---|
| `FwScripts` | the 23 command functions as frames (opcode, announced and real lengths) and the four script tables of `radiomod.c` |
| `FwInit` | a session of the vendor library: binder thread, init thread, completion handlers |
| `FwInit_proofs` | its theorems |
| `VendorInterface` | the HAL around it, with the watcher thread, `internal_command`, the UART and the client; refines `FwInit` |
| `VendorInterface_proofs` | its theorems, among them the refinement |
| `FdWatcher` | `AsyncFdWatcher`: descriptors, thread, notification pipe, timeout; with `Send`'s wake and `OnTimeout`, the low power timer that lives in it |
| `BluetoothHci` | the HIDL calls on several binder threads, clients that die, and the life of the `VendorInterface` object |
| `BluetoothHci_proofs` | its theorems |
| `HciFraming` | `HciPacketizer`, `H4Protocol`, `MctProtocol`, `WriteSafely`, byte by byte; each channel refines `PacketChannel` |
| `HciFraming_proofs` | its theorems, among them the refinement, and the one about `FdWatcher` |
| `PacketChannel` | a channel of whole packets |
| `HbmObserver` | `HBMObserver.onChange`, the threads it and `enableHBMDelayed` start, crash and restart of the service, the other writers |
| `DozeSensors` | `DozeService`'s life, the screen, the settings screen, the two sensors and their executors |
| `ClearSpeaker` | `ClearSpeakerFragment`: player, timer, audio parameter, life cycle |
| `XiaomiParts` | both in the one process they share: what one throws ends the other |
| `XiaomiParts_proofs` | its theorems, and the one about `HbmObserver` |
| `DcDimming` | the DC dimming switch, its bindings, `DCBinder.onDCSwitch`, `UdfpsViewObserver` and its threads |
| `DcDimming_proofs` | its theorems |
| `Lights` | `lights.c`: five lights over one LED and the backlight |
| `Lights_proofs` | its theorems |
| `BtRemoted` | the voice relay's poll loop, its buffer, its clients and the SCO server |
| `BtRemoted_proofs` | its theorems, and those about `SbcPlc` |
| `SbcPlc` | `sbcplc.c`: what a lost or received frame does to the history and what is heard |
| `MC...` | the instances TLC checks |

Operators whose comment begins with "Variant" are wrong versions of the action
that follows them. No specification uses them; each shows that some property
notices the mistake (`mutants` in `PROJECT.json`).

### FwInit

A step is a critical section of `btinit_ctrl.mutex` or one access outside it.
`api` is where the binder thread is, `thr` where the init thread is:

- `api`: `Open` (VendorInterface::Open), `FwCfg`/`FwCfgFails` (mtk_fw_cfg up to
  and with `pthread_create`), `SetRunning` (the flag, set only after the thread
  exists), `StopListening` (Close stops the watcher and closes the UART),
  `Cleanup`, `NotifyThreadExit`, `Join` (BT_Cleanup).
- `thr`: `ThreadInit`, `LoopTest` (loop condition, then the debug properties),
  `Arm` (CMD_PENDING), `Send` (the command function and `xmit_cb`), `WaitDone`,
  `ThreadExit` (result, mutex destroyed), `Report` (`fwcfg_cb`), `ClearRunning`.
- `Complete` is the handler on the watcher thread. `ServiceDies` may happen at
  any time and leaves only the NVRAM file and the chip.
- `Join` ends with `dlclose()` of the library (`Unload`): the next session's
  `dlopen()` finds `cmd_status`, `fgGetEFUSE`, `btinit` and the flags as in a fresh
  process. A failed configuration (`FwCfgFails`) is reported to nobody.

The bytes of addresses and parameters are abstracted: an address is where it
came from (`zero`, `default`, `random`, `efuse`, `nvram`), a command its name.
The ten tries for the chip id and the NVRAM daemon are one nondeterministic
outcome each. `device` is the chip, the eFUSE and the build: `BD_ADDR_AUTOGEN` is
defined for eng builds only, and only there does a default address become a
random one (`ChosenAddr`). What is chosen is saved in both (`SaveAddr`: the call of
`WriteBDAddrToNvram` is after the `#endif`), so a user build saves a default
address as it is. `AddressSettled` says what holds of either. A spurious wakeup of `pthread_cond_wait` needs no step of its own:
the loop around it goes back to waiting (the mutant `WaitOnce` drops the loop).
Locking a mutex that was never initialised or is destroyed is undefined: the
model lets the store go through or the process die.

### VendorInterface

It repeats `FwInit`'s variables and calls its actions (`Lib!...`), except where
the HAL takes part: `transmit_cb` is three steps (callback, opcode, write),
`HandleIncomingEvent` is six (test callback, match opcode, save, clear, call, or
pass to the client), all of them on globals without a lock. Close is `CloseStop`, `CloseJoin`, `CloseDelete` and the
library's cleanup. `Lib == INSTANCE FwInit WITH listening <- (w # "none"),
xmit <- InFlight`: the HAL listens while there is a watcher thread, and a
command is out while the UART or the watcher holds it or its answer. `Implements`
says every step of the HAL is a step of `FwInit` or changes nothing there, so what
`FwInit` shows about the library holds in the real HAL.

One case is no step of `FwInit`. The controller may send a Nop, a Command Complete
of opcode 0x0000 that only returns credits. Until the first command of the
process is registered `internal_command.opcode` is 0, so a Nop that comes between
the two writes of that first `transmit_cb` matches and its parameters go to the
library's handler. `mixed` is the history variable of a session in which this
happened; `Implements` takes steps into and out of it as they are, and `RoutingOK`,
`LifeTimes` and `LibrarySafeInHal` say what holds of it: the handler finds its mutex
and the init thread at the command, and the session is never reported a success.
`InterfaceAssumption` only keeps unasked events from answering one of the library's
own commands.

Events arrive whole: that the packetizers see to it is `HciFraming`. `Send`'s low
power part is in `FdWatcher`; it touches nothing of this module. When the init
thread sends after Close has deleted `hci_` (`TransmitToNull`) the process dies,
which is one more way for `ServiceDies`.

### FdWatcher

Three kinds of threads: the one in Open and Close (`cpc`), those in `Send` or
`OnFirmwareConfigured` (`pc`), and the watcher (`w`). Each statement that reads
or writes a shared flag is a step. `timer` is `timeout_ms_` with its callback;
`ConfigureTimeout` sets it and writes a byte to the pipe (`note`), which the
thread reads one by one, each with a round of its own. A round reads the
descriptors (`ReadFds`) and then the timeout (`ReadTimeout`), neither under the mutex
the writers take, so either may change before `select()`; `watching` and `timed` are
what was read. `fw` is the configuration of the firmware: the report tells the
client first (`Tell`), so calls of `Send` overlap the rest of it
(`IdleTimeout`, `StartLowPowerWatchdog`). A configuration may fail before its thread
exists (`"failed"`), and then nobody notifies the watcher: the second descriptor, if
it was added too late, stays unwatched until a `Send` or the end, which
`NoLostWakeUp` and `DataIsRead` name instead of hiding. Two descriptors are what
`MctProtocol` asks for; the library of this tree always answers USERIAL_OPEN with
one, so this path is in the HAL's code and not reached on this device. `ArmedKnown`
says that the timer a client restarts has a timeout. `raced` is a history
variable: in this session a `Send` has run into an `OnTimeout`.

### BluetoothHci

`pc[b]` is where a binder thread is in a call, `ptr[b]` the pointer it got from
`VendorInterface::get()`: `"stale"` once the object was deleted. `proc` says how
the process ended: the assertion in `Shutdown`, a null pointer or empty function,
the init thread's transmit to a deleted `hci_`, or a use of a deleted object.
`initialize()` may be answered by the call itself (VendorInterface's Open returns
false), by the init thread, or, when the configuration fails before that thread
exists, by nobody: the session is then open and silent (`fw` stays `"none"`).
Binder gives each call a thread and delivers deaths of linked clients; a client
makes one call at a time, and may die inside it. `past` is a history variable
of what the clients did to each other: two calls of which one opens or closes
the session overlapped, or an `initialize()` was refused. Without either the
code must be safe (`OrderlyIsSafe`); with them it is not, which the model shows
and no document promises. A session that begins while the last one's init
thread lives ends as `"undefined"`: nothing is claimed of it.

### HciFraming and PacketChannel

A packet of the controller is a sequence of bytes below `Radix`, with its length
field where `hci_internals.h` has it (two bytes for ACL data). A read returns any
number of the bytes there are, up to what the packetizer asked for; a write takes
any number. `reader[ch]` is a protocol with its packetizer: the type, the state
and the bytes so far. On the way out, `job` is what a thread still has to
write, `rx` what the controller is in the middle of; it has lost its place
(`garbled`) when the next bytes are not the next ones of that packet. An empty
payload stops the packetizer until the next packet makes the descriptor ready,
and then the process ends: `Delivered` and `ChannelsOfPackets` hold before that
point. `ChannelsOfPackets` maps the packets sent and announced on each channel
to `PacketChannel`.

### HbmObserver

`view` and `need` are SystemUI's two settings. A service registers an observer
(`RegisterObserver`) and unregisters it when it is destroyed
(`UnregisterObserver`), but notifications posted to it and threads it started go
on. For each observer `pending` counts the posted notifications and `mThread` is the
thread it remembers; `onChange` is the line the handler is at. Each thread is
asleep, about to read the setting, or about to write what it read. `node` is what
the panel was last told. An interrupted sleeper ends; past its sleep a thread no
longer looks at the flag. Starting a live thread again throws on the main thread,
so the process dies with its threads (`Crash`), as it may for another reason
(`AppDies`); START_STICKY brings the service back (`Revive`). The other writers are
`BootCompleted` (the receiver, once, by the preference), `UserSwitch` (the display
settings, the same two commands) and `HideOverlay` (the fingerprint HAL). `excused`
is a history variable: HBM was turned on by a writer (a thread, the receiver or
the user) that came after the end of the need, or the need ended while no
observer was registered.

### DozeSensors, ClearSpeaker and XiaomiParts

`main` is the main thread's queue: service creation and end, screen broadcasts,
and the check of the service that a change of a preference posts. A service
instance has its own sensor objects, and each of them an executor whose tasks
(`executor`) register and unregister the listener; an instance may be gone while
its tasks are not. A broadcast whose receiver was unregistered while it waited
is dropped in its turn (`Forgotten`, the message `"gone"`). `Toggle`, `OnPreferenceChange` and `OnCheckedChanged` are the
user. `raced` and `stale` are history variables: sensors no longer wanted since
a gesture was switched off with the notice of the screen on its way, and
listeners that were unregistered while near. The times that tell a wave from a
pocket are abstracted: `MayPulse` is where a pulse is possible.

`ClearSpeaker`'s timer may outlive its fragment (`"orphan"`). `XiaomiParts` joins
both in one process: an exception of the fragment is `Die` of both.

### DcDimming

The feature is switched by three hands: the fragment (`Switch`), the threads of
`UdfpsViewObserver` (`SetFeature`), and nobody after boot. `switches` are the
connections still waiting for `onServiceConnected`; each carries a value.
`Close` drops the last one (the only one the activity unbinds), `CleanUp` the
leaked ones. `reg` counts registrations, since registering twice notifies twice
and unregistering removes all. `asleep` has the threads in the order of
starting, with the flag each read in `onChange`; `SetFeature(k)` lets any of them
go first. History variables: `late` counts the threads that were overtaken,
`lost` the services a switch never reached, and `excused` says that dimming may
be wrong: the last to write was not a thread in its turn, a write failed, nobody
watched, or the user switched it over the view.

### Lights

One action per `set_light_*` function, and below the lock one per case of the
switch in `set_speaker_light_locked`. A device is the set of sysfs files it has,
so a way to blink may be missing for one colour only; and the driver of a file
that exists may refuse a write, every one of them (`write_int`), even the second
of the two a timer takes (`"half"`). `rc` is kept between the cases, as in the code.
`told` is the last word each LED's driver took, and by which file: brightness,
blink or timer. So a colour that was told to blink and then its brightness counts
as constant, and two colours in different ways are told apart. `refused` are the
LEDs that did not take the brightness of the last `set_light`. The backlight's level
is 0, 1 or the dim level of low persistence; `missed` says that the last write of
the persistence mode was refused, after which mode and display differ until the
next one that is taken.

`ShownInEffect` is about what was told. It does not say what glows: a driver that
refuses its brightness keeps what it had, an LED that is no colour of a blinking
state goes on as it was told before, and a dark state with a flash mode writes
nothing.

### BtRemoted

One thread, one action per entry of `fds` it handles; `pc` is the entry whose
turn it is and `revents` what poll() announced for this round, so that whatever
the stack and the clients do between poll() and the entry's turn interleaves.
Before the loop, `OpenServer`, `Daemonize` and `ReadProperties` may fail or choose the
mode; a client may connect from `OpenServer` on.
`Poll`, `LoseSco`, `ScoPacket`, `Accept` (an SCO socket is open), `AcceptAndOpenSco`,
`AcceptWithoutSco`, `AcceptFails`, `LoseClient`, `Send`, `SendNothing` and
`SendToGone` are the branches of the loop, each with the POLLOUT update or the
clean-up that ends it.

`main_buf` holds positions in the connection's audio instead of samples: unit 7
is what was recorded seventh, whether decoded or concealed, so order, repetition
and origin can be read off it. `mode` is the two properties read at start (without
decoding the other has no effect). Packets arrive whole, are numbered from 0 on
each connection, as the code assumes, and may be lost, garbled (no sync or
sequence code) or undecodable. `since`, `got`, `heard` and `frames` are history
variables. `OwnSession` is the client for which the SCO connection was opened; the
guarantees are stated for it, since the client that replaces another is first
sent what was buffered for the old one. The trim length is a property nobody
checks, 0 when it is not set: with one that leaves the buffer no room for a frame
a client never gets anything, which `RelayAssumption` allows and the proofs
cover. In `SendToGone` the daemon fails or dies, as SIGPIPE is set;
then the system stops, which is why the run does not check for deadlock.

### SbcPlc

Pure operators named after the functions of `sbcplc.c`. A sample is the set of
positions in the received audio it was computed from, so a mixed sample is a
union; scaling and clipping do not matter to it. `PatternMatch` returns any
window that can match (0/0 of a silent one never wins). In `Substitute` the loop
that copies within one array, reading what it has just written, is a recursive
function. `InitPLC` leaves the end of the array alone, as the code does; `Leftover` is
what an earlier connection left there. The decoder in front of the concealment is
not reset between connections at all (`msbc.c:983`): its ringing, and the samples it
gives out first, may carry the connection before. They are sources like any other
here (`Ringing`), and nothing is claimed of where they come from.
`BtRemoted` abstracts from it: there a concealed frame has the place of the lost one.

## Runs

| Run | Question | Bounds |
|---|---|---|
| `fwinit` | safety and liveness of the library | none but the data: the four real scripts and an unknown chip, every address origin in NVRAM and eFUSE, eng and user builds, any number of sessions |
| `vi` | routing, life times, refinement, shutdown and answers of the HAL | two short scripts (with and without address query, RESET in both, one debug command), one client opcode (HCI Reset, which the library also sends), Nops and events that complete nothing, `MaxDown` = 1 of them beside the answer, fewer address origins (`FewSpec`) |
| `watcher` | late descriptors are read, wake has a timer and is released | the two descriptors of MCT, two binder threads and the init thread in `Send`; configurations that succeed, fail, or fail without a thread |
| `hci` | safe sessions, one answer each, a dead client's session ends | two clients, two binder threads |
| `framing` | packets whole, in order, delivered; commands whole | both protocols, two packets of the controller out of four kinds (one empty, one of three bytes of length two), `Radix` = 2, two writers |
| `hbm` | HBM off when not needed, on when needed | two live threads, the observers of two services, two pending notifications each |
| `parts` | gestures and pulses, who listens to a sensor, who gives the earpiece back | two service instances, the two gestures that share a sensor, two messages and one task waiting |
| `speaker` | a statement of `strings.xml` that the code does not keep | none |
| `dc` | who watches the view; dimming as the view and the preference want it | two service instances, two notifications, two threads, two bindings under way, two registrations |
| `lights` | what the LED is told | seven states of the LED, three devices, any write refused |
| `backlight` | what the display is told, and which requests are refused | three modes, two levels, with one light of the LED and the buttons, on devices with and without the node, any write refused |
| `btr` | order, completeness and timing of a session's audio | frames of 2 units, trim 3, buffer 5 (a second frame fills it up to the last unit, a third is dropped), 5 packets per connection, 3 lost in a row |

Where a component has several facts about single states, its run checks their
conjunction: `TypeOK` and the named parts

- `vi`, `HalInv`: `LifeTimes`; `watcher`, `WatcherInv`: `IdleTimerRuns`, `ArmedKnown`, `NoLostWakeUp`;
- `framing`, `FramingInv`: `OutFramed`; `hbm`, `HbmInv`: `OnlyExcusedLeftOn`;
- `hci`, `HciInv`: `InitThreadHasObject`, `AnswerPending`, `DeathIsNoticed`;
- `parts`, `PartsInv`: `AtRest`; `backlight`, `LightsInv`: `PersistenceTold`, `RefusedIfUnable`;
- `btr`, `RelayInv`: `InOrder`, `AskedToWrite`.

`MCFwInit` also has the assumption `WireFramed`, which TLC evaluates: the commands
of the concrete tables are whole HCI packets. `MCBtRemoted` has four about `SbcPlc`,
for every pattern of up to five lost and received frames and every window that
may match: the history is what was heard last (`HistoryIsHeard`), nothing an
earlier connection left in it is heard or scales what is heard, though `InitPLC`
does not clear all (`NothingLeftover`), the repetition has no gap at the borders of frames
(`RepeatsSeamlessly`), and after a loss the received audio is reached
(`Reconverges`). Every index is inside the array, or the evaluation would fail.
The sizes are small but in the order of the real ones (`PlcAssumption`): the
repetition wraps within a frame, a window reaches past what was written, and the
history is shorter than two frames.

Why the bounds are enough: the init thread treats all commands after the address
alike, so in `vi` a script of three has a first, a middle and a last one; the
stack has one command out at a time, as HCI's flow control demands; an
unsolicited event can come before an answer and after it, and the proofs need no
bound. `FewSpec` leaves out a second default address and the user build, which the
HAL never looks at and `fwinit` has. In `HbmObserver` two threads suffice
for every race (an interrupted one that is past its sleep and its successor, or
a delayed one), and two observers are a service and its successor; the proof has
any number of both. In `FdWatcher` the second binder thread
meets the first and the init thread inside `Send`; the pipe's bound, two bytes
for each actor and three, is derived, not chosen, and proved for any number of
them. In `BluetoothHci` a client can meet only one other session,
and every pair of calls overlaps with two threads; a third client would be
refused like the second. In `HciFraming` a byte of two values makes both bytes of
the ACL length count, and a second packet is what a lost place would damage. In
`DozeSensors` the two gestures of one sensor are those whose preferences can
contradict each other; the pickup sensor is the same code with one. In `DcDimming`
a thread needs one other to be overtaken, an instance one predecessor, and a
switch one before it; the proofs need no bound. `Lights`' devices have each way
to blink complete, absent, and present for some colours only; the backlight
shares only the lock with the LED, so it has a run of its own. In `BtRemoted` five packets let the sequence number wrap after a full gap (one
heard, three lost, the fifth heard), the trim ends within a frame, and the buffer
is full after two frames of a client that reads one unit at a time.
In all models the number of sessions, crashes and changes is unbounded; the HAL's
globals survive into the next session, the library's do not.

### Fairness

- `FwInit!FairSpec`: the init thread, and the binder thread while inside a call,
  take steps for ever. Nothing forces a client to open or close. `StartIsAnswered` assumes in its own formula
  that the controller answers (`ControllerLives`), because the wait has no timeout.
- `VendorInterface!FairSpec`: the same, and the watcher thread, which is real-time
  (SCHED_FIFO). `ShutdownReturns` holds with a silent controller; `InitAnswered` and
  `ClientAnswered` assume one that answers.
- `FdWatcher!WatcherFairSpec`: calls that have begun go on, the watcher runs, and a
  `select()` that nothing ends times out. The init thread's report is strongly
  fair: the thread returns from every wait (`FwInit`), between which it sends.
- `BluetoothHci!FairSpec`: every call of a binder thread goes on and the init
  thread ends. The notice of a death is strongly fair, because it needs a free
  binder thread, which others may take in between.
- `HciFraming!FairSpec`: the watcher reads what there is; nothing is asked of
  the controller or of writers.
- `XiaomiParts!PartsSpec`: the main thread and each executor run, and Android
  restarts the process. Nothing is asked of the timer.
- `DcDimming!FairSpec`: the main looper handles what was posted, and some
  sleeping thread goes on; which one, and whether its write succeeds, is open.
- `HbmObserver!HbmFairSpec`: the main looper works off its messages, threads run,
  and Android restarts the sticky service. Every fair action is weakly fair:
  no step is disabled again and again by another that the code lets overtake it
  for ever.
- `BtRemoted!FairSpec`: the daemon's loop runs on. Clients are taken to read what
  they are sent (an open client's socket is always announced as writable, though
  a send may take one unit only). Nothing is asked of the stack: it may stop
  producing at any time, and then what is buffered must still go out.

## Findings

One run lets TLC find a behaviour that contradicts what the tree says:
`MayBeRun`, the clear speaker feature, is to be run "once or twice"; leaving its
screen after the 30 s, or 30 s after leaving it, stops a released player, which
throws and ends the app with its doze service.

Other weaknesses are in the models as behaviours the properties name or
except, since no document says otherwise:

- `fwinit`, `hci`, `watcher`: a configuration that fails before the init thread exists
  is never reported, the session stays open, and nobody wakes the watcher for a
  descriptor that was added late (`FwCfgFails`, `fw`).
- `vi`: a Nop between the two writes of the first registration runs the library's
  handler, and the session fails (`mixed`).
- `lights`: a blinking state leaves LEDs that are not its colours blinking, and a
  dark one with a flash mode writes nothing; `backlight`: the mode is remembered though
  its write was refused (`missed`).
- `btr`: a trim length that leaves the buffer no room keeps everything from the
  client; the decoder's memory outlives the connection (`Ringing`).
- `hbm`: a thread that has read the setting writes HBM on after `onChange` turned
  it off (`excused`); an interrupted thread past its sleep is forgotten while it
  lives; starting `mThread` again while it lives kills the service (`StartTwice`).
- `btr`: a client that comes while the SCO socket is open is sent audio recorded
  before it came (`OwnSession`).
- `watcher`: an `OnTimeout` that runs into a `Send` can stop the timer that was
  just armed; wake then stays asserted to the end of the session (`raced`).
- `hci`: overlapping closes, a close during a send, or a second `initialize()`
  lead to the assertion, a null pointer or a deleted object (`past`); a client
  killed inside `close()` gets a second `close()` by its death notice when it was
  not yet unlinked.
- `framing`: an event or packet without payload ends the process with the next
  byte (`"nothing"`); a failed write leaves half a packet behind (`spoilt`).
- `dc`: threads that overtake each other leave dimming on over the fingerprint
  view, or off without it (`excused`); leaving the screen before the service is
  connected loses the switch (`lost`).

## Proofs

`FwInit_proofs` proves, for every set of commands, every set of chips and every
script table that satisfies `ScriptAssumption` (scripts begin with the address
commands and never repeat them), that `FwInit!Spec` implies

- `TypeOK`, `NoJoinDeadlock`, `CompletionAwaited`, `SuccessMeansConfigured`,
  `ThreadWithinSession` and `AddressSettled` in every state, and
- `TerminateSticks` for every step.

They rest on one inductive invariant, `IInv`. None of the properties is
inductive alone:

- `NoJoinDeadlock` needs `TerminateAsked` (while a join is pending a thread that
  can still look at `cmd_status` finds CMD_TERMINATE), which needs
  `FlagCoversThread` (when BT_Cleanup reads the unlocked flag it is TRUE if the
  thread lives) and `ThreadWithinSession`;
- `CompletionAwaited` needs `HandshakeInv` (nothing is out unless the HAL
  listens, and while it listens no CMD_TERMINATE meets a command being sent);
- `SuccessMeansConfigured` needs `ScriptInv`: everything before the index was
  acknowledged or may be skipped;
- `AddressSettled` needs `AddrInv`, the trail of the address from NVRAM or eFUSE
  to the controller.

The proof goes action by action: `TypeStep`, `ControlStep`, `ProgressStep` and
`AddrStep` each show one part of the invariant preserved by every action and
`InvStep` puts them together; `FlagsStep` holds the Boolean variables apart. `IInv`
itself was checked by TLC before it was proved, as were the other invariants
below; these runs are not kept, because the proofs subsume them.

`VendorInterface_proofs` proves `HalInv`, `RoutingOK` and the refinement
`Implements`, for every script table, set of client opcodes, set of unasked
events (Nops included) and length of the queue (`ScriptsAssumption`, `InterfaceAssumption`). The
proof does not repeat `FwInit`'s: it instantiates `FwInit_proofs` with the
refinement mapping, and `SameLibrary` says that this instance and the one in
`VendorInterface` are the same. The invariant has two cases. After a Nop was taken
for an answer (`MixedInv`) the library's script is on its way to its failure and
nothing is out; until then it is `FwInit`'s through the mapping and

- `SessionInv`: what Open and Close leave alive at each of their steps;
- `ReportInv`: what the client was told, by where the init thread is;
- `OneCommandOut` and `QueueBound`: one command is on its way up, answered on its
  way down, or in the watcher's hands, and the controller's own events leave
  room for the answer;
- `OwnerInv`: whose a packet is; a packet of the library's is the awaited command,
  with its handler registered;
- `RegistrationInv` and `ResetInv`: `internal_command` through its two writes, its
  match, and its reset, which nothing registered survives.

`HalKeeps` shows these kept, `RefinementStep` that each action of the HAL is an
action of the library or leaves it alone, and `LibraryKeeps` takes `FwInit`'s
invariant along. The two rest on each other's parts: an answer reaches the
handler only while `FwInit`'s handshake holds, and a step of the HAL is one of the
library only while answers have their owners. `MixStart`, `MixedStep` and `Afresh` are
the way into the other case, through it, and back. `LibrarySafeInHal` restates what
`FwInit` promises, inside the HAL.

`BluetoothHci_proofs` proves `HciInv` and `OrderlyIsSafe` for any number of clients and
binder threads (`ClientsAssumption`). `CallInv` holds whatever happened: whose the
object is, and that a client has one `initialize()` at a time. `OrderInv` holds in an
orderly past only: a call of a close or an `initialize()` is alone (`Alone`), a thread
holds what its place needs (`ThreadFacts`), and object, watcher and init thread
belong to the one session (`SessionFacts`).

`HciFraming_proofs` proves `FramingInv`, that no byte of a packet is taken for a type
(`KeepsPlace`), and that each channel is a `PacketChannel` (`ChannelsOfPackets`), for every
radix, every number of writers and packets of every length. That what was read
and what is on the wire is the concatenation of the packets sent would be an
induction over the packets; instead `ChannelOK` says that some function
`stream` gives the bytes from each packet on, and each step hands the next state
its witness: sending extends it at the end, receiving leaves it and moves on by
one packet. `OutInv` says that on a channel where no write failed one writer at
most is in the middle of a packet and the controller is where that writer is.

`WatcherTheorem`, in the same module, proves `FdWatcher`'s `WatcherInv` for any
descriptors and any number of threads in `Send`. `IdleTimerRuns`
needs `TimerInv`: without a race whoever is about to assert wake has armed the
timer, and `OnTimeout` stops the timer only after wake was deasserted. The bound
of the pipe is not inductive: `PipeInv` also counts the bytes that
can still come before one is read, one of each actor that has passed its test or
may still pass it (`May`), those `OnTimeout` writes and lets others write
(`Lately`), the report's, and Close's. Two senders write less than the bound
allows; with three, an `OnTimeout` that deasserts wake lets every actor arm the
timer a second time before the thread reads the pipe.

`XiaomiParts_proofs` proves `PartsInv`, `EarpieceRestored` and the action property
`PulseHasCause` for any instances, gestures and bounds. What listens when nothing
waits depends on what the queues would still have done, so the invariant speaks
of the future: `Ordered` (no service is created where there is one),
`BroadcastInv` (the last broadcast tells the screen), and `ListenInv` (a listener
that is registered, or will be by its executor, is wanted, or a message that
waits will stop it). `NearInv` says that what a sensor remembers is what was
reported to it last, or is older than its registration. The lemmas about queues
(`AppendAfter`, `TailAfter`, `ForgottenAfter`, ...) say what one more or one less
message changes in this. `EarpieceRestored` is inductive together with
`ClearSpeaker`'s types and needs nothing of the service.

`HbmTheorem`, in the same module, proves `HbmObserver`'s `HbmInv` for any number of
threads, observers and notifications: HBM that is on without need or excuse is about to be
turned off (`OffToCome`).

`Lights_proofs` proves `LightsInv` and `ShownInEffect` for any states, devices and
refusals: only the holder of the lock is in `set_light`, on a way of showing that the
state asks for or falls back to (`LedInv`); the mode is the node's unless the write
was refused (`BacklightInv`).

`BtRemoted_proofs` proves `RelayInv`, `KeepsTime` and `ClientHasSource` for frames, buffers,
trims and connections of any length, from `RelayAssumption` (at most three packets
missing in a row). `KeepsTime` needs
`SeqInv` (the daemon's last sequence number is that of the last packet heard, 3
before the first) and `PacketInv` (no more than `MaxLost` packets passed since, and
a packet's turn finds a packet); the arithmetic is the lemma `NumLostExact`. The
order (`InOrder` in `RelayInv`) needs `BufferInv`: units in the buffer are increasing,
after the last one sent, not beyond what was heard, and each at or after its
place in the audio, so that trimming the buffer trims the audio. The steps of
the daemon and of its environment are separate lemmas.

The same module has the theorems about `SbcPlc`, for all sizes that satisfy
`PlcAssumption`. Of a connection with any number of frames, lost and received in any
order, `ConnectionTheorem` proves what `HistoryIsHeard`, `NothingLeftover` and
`RepeatsSeamlessly` say of five; `ScaleTheorem` is the part of `NothingLeftover` about
AmplitudeMatch, and `Reconvergence` is `Reconverges` without the remainder: each
sample of the repetition is the one a period before it. Here induction over data
is needed, over the samples the copying loop writes (`CopyLoop`: the recursive
function in `Substitute` exists) and over frames. It is done by least
counterexamples: `LeastOf`, from the library's theorem that Nat is well-founded,
takes a set where the induction theorems take an operator.

`DcDimming_proofs` proves `TypeOK`, `WatchFollowsPref`, `OnlyExcusedWrong` and `OffStaysOff`
for any number of services, notifications, threads, switches and registrations
(`DimmingAssumption`: bounds are positive, `None` is no service). The inductive
invariant has three parts besides types: `WatchInv` (a service no switch missed
is registered as the preference says once no switch is on its way; a service
that is gone is not registered), `OffInv` (switched off with nothing under way)
and `OrderInv` (once every change is noticed, the youngest thread not overtaken
carries what the view is). `OffInv` needs `WatchInv`: a view that changes while
the preference is off must find nobody watching. What a thread's leaving does to
the sequence of sleepers is `Without` and `LeaveStep`.

Liveness under fairness is only model-checked (the prover has no ENABLED). But what
keeps a lost wake-up from ending it is safety, and proved: a state in which
nobody is left to make the next step happen does not occur.

| Liveness, by TLC | rests on, proved | which says |
|---|---|---|
| `StartIsAnswered`, `ShutdownReturns` | `NoJoinDeadlock` | while the init thread waits, its answer is out or close() will still ask for the thread's end, before it joins |
| `DataIsRead`, `WakeIsReleased` | `NoLostWakeUp` | a watcher in select() with something stale has a byte in its pipe; only for a new descriptor somebody may still be on the way to write it, or, after a configuration that failed without a thread, nobody |
| `DeathEndsSession` | `DeathIsNoticed` | the owner of a session is linked to its death or a close is at work, unless calls overlapped |
| `Drained` | `AskedToWrite` | while something is buffered for a session's client, POLLOUT is asked for |

`NoJoinDeadlock` is inductive with `HandshakeInv`: an answer is only lost between the
stop of the watcher and the notification, and it is `TerminateAsked` that carries it
through the join. `NoLostWakeUp` needs `SessionInv`, which says who may still be about to
write a byte. `DeathIsNoticed` holds even though a refused initialize() replaces
`unlink_cb_`: whoever is about to make an object is linked (`NoticeFacts`).
`AskedToWrite` needs of `BufferInv` that a connection which has heard nothing has
nothing in the buffer, so that a client that joins it finds POLLOUT right.

`GivesWay` rests on `OnlyExcusedWrong` in the same way, and `InitAnswered` on
`NoJoinDeadlock` through the refinement. Of `ClientAnswered`, `Delivered`, `NeedIsServed`
and `OffIsWatched` no such part is stated: they are model-checked only, as is
`WireFramed`, an assumption about concrete tables. Every invariant and every action
property of the runs that pass is a theorem.

## Not modelled

SBC decoding (numerical signal processing), the HIDL interface
declarations, shims, scripts, build files, overlays, SELinux policy and patches
for other repositories (no behaviour of their own here). The meaning of the
values written to the display node is the panel driver's: the tile's commands
differ from those of the switch for the same preference, and the model does not
say what follows. The controller, the NVRAM daemon, Android's looper, binder,
sensors, activities and settings provider are environment: modelled from how the
code uses them.

Left out of modelled parts: partial SCO reads and
compiled-out metrics of `btremoted`; the gesture times, the always-on setting
and the notification about IMS in `DozeService`; failures of `pipe2`, thread
creation and `select` in the watcher; the vendor library's operations that do
nothing, `WritevSafely`, which has no caller, and the start-up timer, which
only logs; the fingerprint HAL's calls that are forwarded unchanged.

## Plan

What is left, in this order:

1. `BtRemoted` and `SbcPlc`: the audio a client is sent as `SbcPlc` computes it, in
   place of a concealed frame that has the place of the lost one. `ConnectionTheorem`
   has the facts about the history that this would need.
2. `FdWatcher` in `VendorInterface`: the two watchers have the same thread; a
   refinement would say that what the HAL assumes of it is what it does.
3. The times between sensor events, which tell the gestures apart.
