# Verification of the Raspberry Pi 5 device repository

TLA+ models, TLC runs and TLAPS proofs of the program code in this repository: the
audio HAL with its A2B network, its streams, its tables and its effects, and the
small HALs beside it. Paths below are relative to `src/`; `ContinuousOutput.cpp:66`
means line 66 of that file. `PROJECT.json` maps each definition of a module to the
lines it stands for, each property to mutations of the code's behaviour that TLC
catches with it, and each hazard to the properties aimed at it.

Contents: [Inventory](#inventory) · [Modules](#modules) · [Runs](#runs) ·
[Findings](#findings) · [Fairness](#fairness) · [Proofs](#proofs) ·
[Environments that the runs leave out](#environments-that-the-runs-leave-out) ·
[Not modelled](#not-modelled)

## Inventory

The repository is an Android device tree. Most of it is data: overlays, policy
files, key layouts, register tables. The programs are these.

### Audio HAL (`audio/`)

One process. Binder threads call in; each open stream has a worker thread; the A2B
output adds a realtime writer and a control thread; devices add I/O threads; each
effect has a thread.

```
 client of the HAL
   │ commands, buffers                      binder threads
 Stream.cpp worker ── StreamCommonImpl ──── Module.cpp: ports, patches, streams
   │ start/transfer/pause/...      ▲          │ setConnectedDevices()
   ├─ stub, offload, MMAP drivers  │          ├─ submix routes
   ├─ StreamPrimary ───────────────┤          ├─ Bluetooth port proxies
   │    ├─ StreamAlsaMonoPipe ── I/O threads  └─ USB profiles and mixers
   │    └─ A2bPcm ── ContinuousOutput (writer thread)
   ├─ StreamUsb ── devices │ allowAudio()? clockFailed()      a2bctl (a process)
   └─ StreamBluetooth      │                                     │ socket, files
                        A2bController ◄──────────────────────────┘
                           │ run(phase), verifyNodes()
                        Profile executor ── I2C: main node, nodes, amplifier

 EffectFactory ── effects: binder calls against a thread that reads bursts
```

| Component | State | Hard behaviours | Correct when |
| --- | --- | --- | --- |
| **Continuous output** (`a2b/ContinuousOutput`) | a ring, a generation and underrun flags per client, the running flag | producers sleep on a condition variable while flush, detach, teardown and the writer change what they wait for; the audible flag is sampled outside the lock | every frame is played once, in order, or counted as canceled; no wakeup is lost; muting is heard within a period |
| **A2B controller** (`a2b/A2bController`) | profile, ready, clock, quiesced, mute selection, transport under `mLock`; two atomics without it | atomics written between two stores of a locked operation; each bus phase may fail with or without effect; the process may restart under a playing amplifier | audio is allowed only on a verified, unmuted network; a failed selection is rolled back; the selection survives a restart |
| **Profile executor** (`a2b/Profile`) | registers on the bus that decide which device answers | any of several routing writes fails, also after taking effect; a crash leaves routing behind | each access reaches the device it names; a result is true |
| **a2bctl** (`a2b/a2bctl.cpp`) | profile files, `.previous`, `.new` | a kill or power loss between any two steps of a replacement; two writers | the installed file is whole; an install can be undone |
| **Stream workers** (`Stream.cpp`) | stream and drain state, connected flag, command and reply queues | callbacks of the driver race commands; close() races everything | states follow the AIDL contract; drivers are called in their states; calls return |
| **Offload driver** (`stub/StreamOffloadStub`) | clips and frames left, what to notify, the parser's rest of a burst; a DSP thread | the DSP thread decides under the lock and calls back without it; a burst cuts an MP3 file anywhere | no callback is lost; a clip is as long as its frames |
| **Primary stream** (`primary/StreamPrimary`) | selected and current card, the A2B client, open devices, standby flag | a second between two lock sections of start(); cards vanish between enumeration and open | one sink at a time, counted once, nothing held in standby, start ends |
| **ALSA and USB streams** (`alsa/`, `usb/`) | devices, the pipe to the I/O thread, the position | devices change while the worker runs; short writes, overruns, blocking pipes | frames go on where they were, to connected devices only; transfers return |
| **ALSA utilities** (`alsa_utils/`, `alsa/UtilsAlsa`, `alsa/Mixer`) | a device's profile, a mixer's controls | masks and bounds of what a device tells | what is offered opens; all cards have the master volume |
| **Module** (`Module.cpp`) | ports, port configurations, patches with their index, streams | a failed step of a multi-step operation must undo the others; profiles lent to mix ports | every reference names something that exists |
| **Remote submix** (`r_submix/`) | a process-wide map of routes: a pipe, open and standby flags, a count | check and removal of a route are separate critical sections | a route lives while a stream uses it |
| **Bluetooth** (`bluetooth/`, `Bluetooth.cpp`) | a port's state, cookie, session; proxies kept by port id, device type and connection | the lock is released around calls of the stack; waits time out before the answer | one call at a time, which returns; a port is one stream's |
| **Stream switcher** (`deprecated/`) | the inner stream, what it missed | a switch that fails half-way | requests reach the next real stream |
| **Effects** (`Effect*.cpp`, `libeffects/`) | an effect's state, thread, queues; sessions; library parameters; rings and blocks | the worker waits on an event flag and a mutex in turn; lists shared by effects; tails, ring wraps and overlaps | calls return, no burst is lost, the library follows the client |
| **Policy files** (`XsdcConversion`, `*XmlConverter`, `Config`, `main.cpp`) | module configurations, strategies with their ids, volume groups | ids and defaults that depend on what came before in the file; volumes that the first client has converted | routes join the ports they name; a name has one id |
| Sound dose, telephony, primary mixer | parameters | – | – |

### Other programs

| Component | State | Hard behaviours | Correct when |
| --- | --- | --- | --- |
| **Boot control** (`boot_control/`) | a control block on `misc`, two autoboot files, the trial property, a one-shot firmware flag | power losses between the writes; a trial that fails | an ordinary boot goes to a slot that has booted |
| **Bluetooth HCI** (`bluetooth/`) | a client, the socket, the watcher, rfkill | a second client, the client's death at any point | a dead client's socket is closed |
| **HDMI CEC** (`hdmi/cec/`) | enabled flags, callback, logical addresses, an event thread | the event thread against calls | a disabled HAL passes nothing on |
| **USB gadget** (`usb/`) | functions, links, a monitor of endpoints | a delayed pull-up against a new set of functions | a success tells of the gadget asked for; a call returns |
| Health, lights, suspend blocker, Java receivers | none | – | – |

## Modules

`X` is the model, `MCX` its instantiation for TLC where the `.cfg` does not suffice,
`X_proofs` its theorems; `Device_proofs`, `Streams_proofs` and `Audio_proofs` are about
all parts of `MCDevice`, `MCStreams` and `MCAudio`. Each module starts with a comment that says what it stands for; names are the code's
where TLA+ allows it. A critical section, or a call that nothing interrupts, is one
action; where the code lets others in (an unlock, a wait, a callback, a crash) the
operation is split, with a program counter per thread. Definitions commented
"Mutant:" are deviations of the code used to test the properties; no specification
reaches them. Names carry a prefix where modules are combined (`rs`, `bt`, `fx`, …).

### A2B: ContinuousOutput, FrameFifo, A2bController, ProfileExecutor, ProfileStore

`ContinuousOutput` has a thread per caller, the writer, and the destructor. The ring
buffers are real rings, copied by the code's loop; a frame is its number in the
stream of its client, so that loss, replay and reordering show. enqueue() is
`Enqueue` up to its first wait and `Resume` from each wait to the next; the writer is
`WriterTop` (samples the audible flag without the lock), `WriterMix` (one critical
section), `WriterNotify`, `WriterWriteOk/Fails`, `WriterBackoff`; the destructor is
`StopRunning`, `StopNotify`, `StopJoin`. Notifications come after the lock is
released, and a condition variable may wake for no reason. Mixing is left out.
`FrameFifo` is what this promises a client: a bounded FIFO. The instance `Fifo` of
`ContinuousOutput` maps a ring to the sequence it holds; every step is a FIFO step or a
stutter (`ImplementsFifo`). `Total`, `OwedFrames` and `Counts` add up the frames of all
clients without recursion, as the cardinality of disjoint bars.

`A2bController` is serialized by `mLock`; but `mAllowAudio` and `mClockFailed` are
atomics that the writer reads and writes without it. An operation under the lock is
therefore split where it touches one of them after time has passed on the bus: `pc`
names what the holder of the lock does next. A bus phase succeeds, or fails with or
without effect, and `amp` is what the amplifier does. `load()` may fail and leave the
profile alone (`error`) or store a profile and then reject its id (`mismatch`).
`Restart` is the death of the process: only the property and the amplifier survive.

`ProfileExecutor` runs one accepted sequence of operations at a time, transfer by
transfer, on explicit routing registers; `Crash` is possible between any two.
`Sequences` is what parseProfile() lets through.

`ProfileStore` is `a2bctl`: the files as a disk with contents that are in memory,
settled or lost, the lock, and each system call of a replacement as one step
(`ReplaceSteps`); `Kill` and `StorePowerLoss` come between any two. A2bController
reads these files as `LoadResults`.

### Streams: StreamOutStates, OffloadStream, MpegBursts, PrimaryStream, StreamInput, AlsaStream, SwitcherStream

`StreamOutStates` is the transition table of `StreamOutWorkerLogic`, shared by all
output streams. `OffloadStream` is the worker with an asynchronous client above the
offload driver: `Obtain` the lock, one action per command, `Postponed` for queued
callbacks; the DSP thread decides in `Play`, with the lock, and calls back in
`CallBuffer`, `CallClips`, `CallComplete`, without it. `MpegBursts` is the parser
below it: a file is a set of items (frames and tags) with their lengths, a burst cuts
it almost anywhere (`HidesTag`), and the state between bursts is the code's
`MpegFrameState`.

`PrimaryStream` is the same table with a synchronous client above the three drivers
`StreamPrimary` chooses from. start() is split at its critical sections
(`SelectDevice`, `Probe`, `Recover`, `Commit`, `StartA2b` or `StartAlsa`), as is
setConnectedDevices(); `Plug` and `SetOutput` are the world. A LOG(FATAL) leads to
`aborted`. `A2bController` models what its acquire and release do.

`StreamInput` has the client with its one command in flight, the worker, the thread
in close() and the stub driver, plain or with shared memory that a DSP thread fills.
`AlsaStream` is a stream above ALSA devices: with the mono pipe and an I/O thread, or
direct (USB), with a binder thread that changes its devices; frames are numbers, the
kernel's buffer a count. `SwitcherStream` is the stub that becomes a real stream.

### Tables: AudioModule, PolicyConfig, SubmixRoutes, BluetoothPort, BluetoothProxies, AlsaDevice, UsbMixer

`AudioModule` is the module's registry: one action per call, each with the code's own
undo when a driver fails. `PolicyConfig` is where a module's ports come from: a file
is any sequence of elements, each converted in turn or ending the service; main()
then serves the modules while a client may ask for the engine's configuration.
`SubmixRoutes` splits connect, the worker's cycles and its
exit at their critical sections on the routes. `BluetoothPort` is a port's states
under two threads of its stream and the stack's callbacks; a call is split where the
port's mutex is given up. `BluetoothProxies` is how ports pass between the module and
streams. `AlsaDevice` describes a device by ranges and masks, reads its profile as
the code does and opens it; the TinyALSA library is external. `UsbMixer` sets the
controls of all cards.

### Effects: EffectInstance, EffectConfig, EffectSessions, BundleContext, ReverbContext, DynamicsProcessing, VisualizerCapture

`EffectInstance` is an effect's life against its thread, with the three queues and
their event flag; `fxKind` tells an effect that keeps its state, or checks more, from
a plain one. `EffectConfig` parses the elements of the configuration file in any
order and reports what the factory can create. `EffectSessions` is the bundle's lists
of contexts per session. `BundleContext` is one effect of it: modes, tails, levels.
`ReverbContext` maps the client's parameters to the library's. `DynamicsProcessing`
has the engine with its stages and the block converter's overlap, in frame counts.
`VisualizerCapture` is the ring of captured frames and the ring of measurements.

### Services: BootSlots, HciClient, CecEvents, UsbGadgetHal

`BootSlots` writes the control block and both boot files step by step; power may fail
and files may be torn in between; the firmware, the trial boot and the update client
are the world. `HciClient` runs calls and death notices on one binder thread, with a
client that may die inside openHci(). `CecEvents` splits the event thread where it
reads what binder threads write. `UsbGadgetHal` is the binder thread's switch of
functions against the monitor thread; the kernel's UDC and configfs are external.

### Combined instances: MCDevice, MCStreams, MCAudio

These put programs, threads of different streams, or parts behind different locks
into one instance. In the code the parts share no variable, so nothing is gained by
interleaving them: a behaviour is of one part, picked at the start, and each
sentence of a property speaks of that part's behaviours. Fairness conditions on
steps of different parts are joined, since only one part ever takes steps. What does
interact is inside one module, or shared through an operator both sides use.

## Runs

Times are of two workers. Each run's `properties` are in its `.cfg`.

| Run | States | Shows |
| --- | --- | --- |
| `output_safety` | 174,866 | One client; two threads; ring 3, period 2, calls of up to 4 frames, 2 flushes. A call is longer than the ring and the ring wraps: **Conservation**, **NoLostWakeup**, **NothingStaleIsHeard** (no replay, muting within a period, underruns counted once), refinement of the FIFO. |
| `output_two_clients` | 351,866 | Two clients blocked at once on rings of one frame: **EnqueueReturns** and **TeardownCompletes** even when all PCM writes fail. |
| `controller_life` | 75,406 | Two streams, two profiles one of which does not start muted, all commands, failures and restarts: **AudibleOnlyWhenReady**, **SilencedAmplifier**, **SelectionIsQuiet**, **ClockFailureStops**. |
| `profile_calls` | 75,798 | Every accepted sequence of up to two operations on two nodes and three peripherals, two on one node and two with one address, in every phase, any transfer failing: **AccessReachesTarget**, **ResultIsTrue**, **CallReturnsInTime**. |
| `offload_safety` | 1,064,998 | MPEG, all commands, two clips of two frames: **NoCallbackLeftBehind**, **OnlyPromisedDrainReady**, **WorkerOwnsState**. |
| `offload_pcm` | 65,149 | PCM, all commands but flush and close: **DrainEnds** and **CommandAnswered**. pause() waits for a DSP thread that may itself wait for the worker. |
| `primary_sinks` | 826,272 | One stream, an A2B and a USB card, both outputs, all routes, two attempts: **UsersMatchClients**, **HeldSinksAreInUse**, **StartEnds**. |
| `stream_threads` | 280,722 | An input and its closer, a Bluetooth port and the stack, a USB or pipe stream and its I/O thread, an effect and its binder calls: **DriverCallsAllowed**, **OneCallAtATime**, **FramesContinue**, **EffectBurstsAreKept**, **WaitsEnd**. |
| `audio_tables` | 508,794 | Every sequence of calls on fourteen parts that one lock guards: **TablesAgree**, **SharedFollowsStreams**, **CardsAreServed**, **MpegClipsAreExact**, **NoFrameIsLost**, **ReportedCanBeCreated**, **OpenEffectHasInstance**, **ParametersAreApplied**, **RequestsAreFollowed**. |
| `device_services` | 198,980 | The five programs beside the audio service: **FallbackIsConfirmed**, **TrialFallsBack**, **AnswersAreTrue**, **ProfilesSurvive**, **ServicesReact**. |
| `primary_opened`, `usb_static` | – | the [findings](#findings) |

A property with several sentences has a mutant for each part or sentence that could
fail on its own: 75 mutants in all, and TLC refutes each under the run's own
configuration.

Why these bounds. Ring 3 and period 2 are the smallest that are coprime, so the ring
wraps at every offset; a call of 4 blocks at least once. Two callers are enough for a
lost wakeup: one sleeps, the other changes the predicate. The controller has no
unbounded state. Two operations show that one leaves routing for the next; two nodes and
a shared address show a wrong device. Two clips are the code's own limit; one callback
queued per command is what a DSP thread can produce while the worker holds the queue.
`Attempts` is 2 where the code has 3: a first and a last one, while the theorems hold
for any number. In `audio_tables`: three ids of ports let one be used, given back and
given again; two patches share a port; two or three streams of one route show one that
leaves while another comes; three effects, of which two share a type, and two sessions
with room for no third; an MP3 of six items and bursts of seven lengths, which cut every
item at its first, last and inner bytes; a block of 3 with an overlap of 1 and bursts
smaller and larger than it; four elements of policy files, of which three strategies
make a default, a repeated name and a new one; a ring of 4 frames whose capture of 2
with a latency of up to 2 starts at every offset. Three HCI clients are a dead one, a
living one and one that comes between. Counters that grow are bounded by constants named
in the modules (`MaxFrames`, `LastId`, `LastPatch`, `LastParameter`, `LastPortId`,
`MaxPolicyElements`, `MaxRoutes`, `MaxQueued`, `InputFrames`, `AlsaFrames`).

Deadlock is checked for the controller and the executor, which always can go on. The
output may be torn down, a stream may exit, a bounded client stops: the other runs do
not check it. `WaitsEnd`, `CommandAnswered`, `EnqueueReturns`, `StartEnds` and
`ServicesReact` say what matters there.

## Findings

Each is a run that checks one statement of the repository and a counterexample of
what the code does.

1. **Abort after a connect during start** (`primary_opened`): start() reads the
   selection twice (StreamPrimary.cpp:110, 132); a card stored in between is
   committed but only the stub was started, and the next burst hits "no opened
   devices".
2. **Offered with the policy's profile, never opened** (`usb_static`): a USB output
   that does not tell its parameters keeps the product's profiles on purpose
   (ModuleUsb.cpp:98), but opening it for a stream reads the parameters again and
   fails there (UtilsAlsa.cpp:453) without having tried pcm_open().

Weaker observations, which contradict no sentence of the repository, are in the notes
of the hazards.

## Fairness

Only what threads and locks of the code give; no run assumes that a client sends
anything, that a card appears, that the stack answers or that a write succeeds.

- `ContinuousOutput`: weak fairness of each notification, of a woken producer, of the
  writer and of the destructor. The writer's pcm_writei() returns.
- `A2bController`: weak fairness of the holder of the lock, since a bus operation
  returns; strong fairness of the control thread's return from a command and of its
  health check, since a released lock is granted in the end to a thread that keeps
  asking; weak fairness of the timeout of poll().
- `ProfileExecutor`: weak fairness of the call. A transfer returns.
- `OffloadStream`, `PrimaryStream`: weak fairness of each worker and the DSP thread.
- `StreamInput`: weak fairness of the worker and of join(); strong fairness of the
  write of the exit command, which waits on a queue the worker empties again and
  again while a client fills it.
- `BluetoothPort`: weak fairness of both threads. A wait for the stack has a timeout.
- `AlsaStream`: weak fairness of the worker and the I/O thread; the device takes or
  refuses frames in time.
- `EffectInstance`: weak fairness of the binder thread's and the effect thread's
  steps; none of the client that writes bursts or reads statuses.
- `BootSlots`: the firmware starts, and a watchdog ends a boot without progress.
- `HciClient`: strong fairness of death notices, which queue behind other calls.
- `UsbGadgetHal`: weak fairness of the binder and the monitor thread; strong
  fairness of the monitor's end, since its poll() sees the stop event in the end.

## Proofs

TLAPS checks the theorems below for all values of the constants: any ring and period
size, any number of callers, profiles, nodes, operations, streams, cards, attempts,
effects and sessions. They assume only the `ASSUME`s in the models, which TLC
evaluates, and what the theorem itself names.

| Module | Theorem | Argument |
| --- | --- | --- |
| `ContinuousOutput_proofs` | `TypeCorrect` | TypeOK is inductive: the ring index stays inside the ring by the `%` of `Cell`, and the copying loop, which stops at the free space or at the end of the call, never overfills it. |
| | `MuteTakesEffect` | `LateInv`: a period that may still be audible is the one sampled, and none was late before. |
| | `WakeupsReachWaiters` | TypeOK and NoLostWakeup together: each step that makes a predicate true leaves a notifying thread behind, and `CopyLoopSleeps` shows that a caller goes to sleep only when the predicate is false. |
| | `NothingStale` | `FreshInv`: calls and queued frames of a client are newer than its latest flush, and a queue that was started has been fed since. |
| | `OutputIsFifo` | Each step maps to a FIFO step or a stutter: filling the ring is concatenation, advancing its read index is a suffix. |
| | `NoFrameDisappears` | `OrderInv`: a ring holds a client's frames in increasing order, so the frames mixed in a period and the slots removed are in bijection; what each step adds to one counter it takes from another (`TotalChange`). |
| `A2bController_proofs` | `TypeCorrect`, `AudioIsSafe`, `AmplifierIsSilenced` | One inductive invariant. The safety properties speak of states in which the lock is free and are not inductive: `LockInv` adds, for each `pc`, what the rest of an operation relies on; `ReadyInv`, `AllowInv` and `AmpInv` relate the flags in all states. The mute selection counts only once resume() has stopped the network (`SelectedMute`). |
| | `SelectionsAreQuiet` | two action properties and `QuiescedStaysDown`, from the same invariant |
| | `SelectionIsSaved` | `SelectionInv` on top: a candidate is not saved yet, the profile to return to is. It needs that load() leaves the profile alone when it fails, which a file with another's id breaks. |
| `ProfileExecutor_proofs` | `TypeCorrect`, `TargetsAreReached`, `ResultsAreTrue` | `Selecting`: what each half of select() has achieved; `ClearedBetween`: routing between two operations, as long as nothing failed; `Progress`: how far the loop came. The parser's refusal of the routing registers (`AcceptedSequence`) is what keeps them the executor's. |
| `OffloadStream_proofs` | `CallbacksAreRun` | The queue is empty unless the worker holds it. |
| | `NoSpuriousDrainReady` | `OwedInv`: what is still owed bounds what each drain state may send. |
| | `WorkerOwns` | A callback that finds the queue held only appends; `ClosedInv`: the DSP thread has ended between two of its cycles when the state is CLOSED. |
| `PrimaryStream_proofs` | `TypeCorrect` | with `StartInv`: steps of start() are taken from a state that accepts it |
| | `CountedOnce` | Every step attaches one stream, releases one, or leaves clients and count alone; cardinality lemmas do the rest. |
| | `SinksAreInUse` | `ClientInv`: a client outlives no pause, so start() never finds one; `ProxyInv`: open devices are on the current card and never on the clock's, so A2bPcm can start only for a stream without devices. |
| `Streams_proofs` | `DriverIsNotBroken` | `DriverInv`: in the states that take a burst the driver has been started since its standby; `ShutDownInv`: nothing runs after the exit. The state STANDBY says nothing of the driver, which is why it must take no burst. |
| | `PortIsNotShared` | `PortInv`: at most one of the threads is inside a call of the port, also while its mutex is given up, and what a start found in `mEnabled` and the proxy holds as long as it lasts. |
| | `BurstsAreKept` | `FxInv`: a reopen with other sizes leaves the queues as they were, yet the smaller of the two fits the work buffer (`Fits`), and a burst is as long as the smaller one; no more data than its size is in a queue (`CapacityInv`); a closed effect has no context and no worker (`ClosedInv`). |
| | `FramesGoOn` | `FramesInv` for shared memory. For ALSA: `PositionInv`: a position told to the client is not above what the counters give now; `CaptureInv`: the pipe goes on after the client's last frame, and the I/O thread's buffer after the pipe, up to the last captured frame; `FedInv`: unless the connect flag is set, the open devices are the connected ones. |
| `Device_proofs` | `FallbackConfirmed` | The property is not inductive: an update overwrites a confirmed slot. `NamedInv`: once a boot is marked, the file names the slot that runs, and only the other one is overwritten; `RunningInv`: a boot that completed is confirmed. |
| | `DisableIsPrompt` | `LateCecInv`: one message may come late, after the test of the flag and before the next. |
| | `SuccessIsTrue` | `MonitorInv`: the pull-up flag does not outlive its monitor, and none lives from setup to start; `LinksInv`, `PulledInv`: what is linked and pulled up at each step of the call; `AnswerInv`: a SUCCESS holds until the next call. |
| | `DeathIsNoticed` | `SessionInv`: who waits in openHci(), and what of a session exists in each state. |
| | `StoreIsSafe` | `StoreInv`: for each place in the plan of a replacement, what the disk holds and what of it a power loss may still take (`TempInv`, `CallersInv`). The order of fsync() and rename() is what carries it. |
| | `FallbackOfDevice`, `AnswersOfDevice`, `ProfilesOfDevice` | The same of `DeviceSpec`, which the runs check: the program that runs keeps its invariant, the others rest. |
| `Audio_proofs` | `OpenEffectsHaveInstances` | releaseSession() takes the first context of a type out of a list. `OneOfType` and `Home` make it the effect's own: a context is in the list of its session, alone with its type. Needs `~Moves`. |
| | `ReportedIsCreated` | inductive as it stands: each element that reports an effect has opened its library |
| | `NoFrameIsLostEver` | `FillOK`: the converter keeps less than one advance, by arithmetic over any block and overlap; `CountedOnceOnly`: an effect that was enabled counts once, a volume by its flag or bit, the others by their tail; `CaptureInv`, `PastInv`: a place of a ring holds the entry last written there, or nothing after it was erased. |
| | `ParametersStayApplied` | `ReverbInv`: the library has the value that the last accepted parameter or preset maps to; `DynamicsInv`: the engine has the stages and bands of the architecture in use. |
| | `RequestsStayFollowed` | `SwitcherInv`, `ProxiesInv` and `DynamicsInv` carry four action properties. |
| | `SharedStaysWithStreams` | `SubmixInv`: each entry of the table of routes has a witness, a stream that holds it, a worker that leaves, or a connect that just made it (`TableWitnessed`), and the count of a route is the cardinality of its inputs; `OneOwner`: no two streams hold a proxy. Needs `~Reconnects` and `~ConfiguresInUse`. |
| | `TablesStayAgreed` | `ModuleInv`: ids below the next one, routes and patches between ports that exist, each call with its undo; `PolicyInv`: `ModulesAreConverted`, `StrategiesHaveIds`, `GroupsAreSingle` say what the elements read so far have become. Needs `~StreamsMayFail`. |
| | `CardsStayServed` | `AlsaInv`: what is offered is what the profile of the present device gives, and a channel count of it is in the device's range (`CountsFit`); "the first of a table" is the least element of a set of naturals (`WFMin`). `MixerInv`: every control has the value the master asked for. Needs `~WideDevices`. |
| | `MpegStaysExact` | `RestInv`: what is pending is the rest of an item of the file, of known length if its bytes count as audio, and with nothing pending the parser stands where an item begins; `SeenInv`: a tag of version 2 in the unread part of a burst is recognized, or passed together with the frame's header behind it. `LastsTo`, the duration of the file up to a byte, grows inside a frame by no less than the burst's part of it, since quotients are superadditive (`QuotientsAdd`), and a clip's by that part as a cardinality (`LongerClip`), so no sum over the file is needed. |

`~Moves`, `~Reconnects`, `~ConfiguresInUse`, `~StreamsMayFail` and `~WideDevices` are
hypotheses of these theorems and settings of the runs: with the environments they leave
out, which the [next section](#environments-that-the-runs-leave-out) lists, the
statements are false, as TLC shows. The other assumptions are about constants.
`SizesAssumption`, `AlsaDeviceAssumption`, `VzAssumption`, … say that sizes are natural
numbers and not 0 where the code divides by them; `CallersAssumption`,
`SubmixAssumption`, `PrimaryAssumption` that threads and streams are finitely many;
`NoCallAssumption`, `StoreCallersAssumption`, `HciClientsAssumption`, … that the value
for "none" is none of the others. `ModuleAssumption` says what the built-in
configuration of a module is (ids below the first one given, routes between its ports),
`PolicyAssumption` what the schema of a policy file enforces (the default output is an
output device, legacy ids are distinct and below `VENDOR_STRATEGY_ID_START`),
`ReverbAssumption` and `DpAssumption` how the tables of the effect libraries look, and
`FilesAssumption` what an MP3 file is: items one behind the other from byte 0 on, each as
long at least as the header it is known by, a tag of version 2 in front of a frame, one
of version 1 in front of a frame or the other tag, or at the end.

Only model-checked: liveness (`EnqueueReturns`, `TeardownCompletes`,
`ClockFailureStops`, the return of `CallReturnsInTime`, `DrainEnds`,
`CommandAnswered`, `StartEnds`, `WaitsEnd`, `TrialFallsBack`, `ServicesReact`),
because fairness and ENABLED are beyond the installed provers. Every other property of
the runs is a theorem. Nothing is proved by induction over data, and no module that is proved about
reaches a RECURSIVE operator.

## Environments that the runs leave out

Some constants name an environment that the passing runs exclude because the code
does not cope with it and no text of the repository promises that it does. Setting
one to TRUE gives the counterexample; the hazard's note tells of it.

| Constant | Environment | What happens |
| --- | --- | --- |
| `StreamsMayFail` (AudioModule) | a stream's driver refuses new devices | the patch index keeps the old entries, streams told before keep the new devices |
| `Reconnects` (SubmixRoutes) | an output is given devices again while its pipe is reset | "without a pipe!" ends the process |
| `ConfiguresInUse` (BluetoothProxies) | a device that a stream plays to is configured again | the second configuration shares the proxy |
| `WideDevices` (AlsaDevice) | a device whose smallest channel count exceeds the standard ones | it is offered with a count it refuses |
| `Moves` (EffectSessions) | an open effect's session is changed | the close takes another effect's instance |

Likewise: clients of the runs start an output before they write, as the platform
does, and the models abort on the other order, as the code does; an MPEG stream in
which a stale callback is applied may drain for ever (`DrainEnds` is checked for
PCM); and no burst ends inside an MP3 tag of version 2 that it does not begin with, nor
in the first bytes of the frame behind it (`HidesTag`).

## Not modelled

- Sample values, gains, formats, mixing and filtering; logging; the text of profiles
  and messages; latencies and timestamps beyond order.
- MMAP outputs, latency modes of streams and microphone descriptions: stored values.
- Of the policy files: profiles, gains, formats and surround formats, which are
  converted one by one; the criteria and domains of the configurable engine, which
  the build leaves out unless a release flag asks for them (`Android.bp:43`); and the
  built-in tables of `Configuration.cpp`. A strategy with an explicit id may have the
  id that a name without one got: the converter does not compare them, and
  `StrategiesAreNamed` speaks of names without ids only.
- Sound dose, telephony and most effect parameters: getters and setters of values
  that no other part reads.
- A2B register tables and bench scripts, health, lights, the suspend blocker, Java
  receivers, overlays: data and single writes.
- The TinyALSA, MonoPipe, FMQ and fixed-point libraries, the Bluetooth stack, the
  kernel's configfs and the firmware: external, modelled only by how this code uses
  them.
- Interactions between parts of one combined instance: none share a variable in the
  code except through the calls each module models as its environment's.
