# TFLunaControl: a formal model

TFLunaControl is the firmware of an ESP32 data logger: a lidar, an environment
sensor, a real-time clock and a display on the bus, an SD card, a web page and
a serial console. Almost all of it runs in one cooperative main loop; the hard
parts are where that loop meets something that runs by itself: the I2C task,
the worker of the SD library, the network task with the web server's handlers.
This directory holds TLA+ models of those parts, the TLC runs that check them
and the proofs about them.

The loop is always the same (`main.cpp`, `TFLunaControl::tick`): the button;
the commands queued by the console and the web page; the access point's wishes;
`i2cOrchestrator.tick()`; `sdLogger.logSample()`; the lidar; `sdLogger.tick()`;
the status, its broadcast and the light; the console; and after the tick
`processDeferred()`, where everything that may block is done.

## Inventory

### I2C orchestrator (`src/src/i2c/I2cOrchestrator.*`)

* State: for each client (raw operation, RTC set, RTC read, environment
  trigger, environment read, display, bus recovery, bus scan) a pending flag, an
  active token and a deadline; the snapshots it publishes (raw, scan, RTC time,
  recover status, health of RTC and sensor); the phase of the measurement.
* Operations: the `queue…()` commands, `applySettings()`, and `tick()`:
  `processResult()` for a bounded number of results, `handleExpiredInFlight()`,
  then `scheduleRequests()`, eight slots in a fixed order with a budget.
* Interacts with the I2C task through a request and a result queue, both
  bounded, both non-blocking; never waits for it.
* Hard: answers that come after their deadline, tokens that are reused, queues
  that are full, several clients of one device, commands and settings that
  change while a request is in flight.
* Correct when each snapshot tells the truth about its own operation, flags,
  tokens and phase agree, each failure is charged once, nothing in flight stays
  in flight for ever, and a published time never goes back.

### I2C task (`src/src/i2c/I2cTask.*`, `RecoveryPolicy.h`, `I2cBackend.*`)

* State: the two queues and the request in hand; the bus backend (started, at
  which frequency), the recovery policy (backoff, failures in a row, time of the
  last recovery); for each device a driver, its state and its configuration.
* Operations: `enqueue()`, `dequeueResult()`, the task loop (take a request,
  give it up if it is late, execute it, queue the result or drop it),
  `recoverBus()`, the set-up and recovery of the drivers, and `applySettings()`,
  which the main loop calls.
* Hard: it runs between any two queue operations of the main loop; it may hang
  in a transfer; a result that finds the queue full is lost; a multi-step
  operation fails half way and is retried; settings change under it; a driver
  that has gone OFFLINE refuses every call.
* Correct when a request is executed at most once and in order, no loss in it
  can leave a client waiting, recoveries keep their backoff, bus and devices come
  back by themselves, and "ok" means that the device has done it.

### SD logger (`src/src/logging/SdLogger.*`)

* State: rings of samples and events, each record with the destinations it still
  waits for and its attempts per destination; one file job; the mount state
  machine; the session (directory, marker, resume); file parts and caps; the
  deferred flags for teardown, remount and mount.
* Operations: `logSample()`, `logEvent()`, `applySettings()`, `remount()`,
  `probe()`, `tick()` (results, job deadline, info, mount, session setup, start
  of a job), `processDeferred()`.
* Interacts with the AsyncSD library: one FIFO of requests, results that are
  polled, a worker task that `begin()` starts and `end()` stops.
* Hard: the card is pulled at any moment; a job outlives its deadline; a write
  fails and the close that follows fails too; the session is renamed, switched
  off or resumed while a job is writing its file; two files share one record.
* Correct when every accepted record is written, switched off or counted as
  dropped; the job's pointers into the ring stay valid; the worker is torn down
  exactly once; and with a card every record leaves its ring in the end.

### Application facade (`src/src/TFLunaControl.cpp`, `main.cpp`)

* State: the command queue (rejects when full), the settings in use, the save
  that is owed to NVS, the wish for the access point, `deferredApStop`,
  `deferredApStart`, the table of device health, the health light; all snapshots
  behind one state lock that is tried with a timeout.
* Operations: the `enqueue…()` calls, `tick()`, `processDeferred()`,
  `updateSettings()`, `factoryResetSettings()`, the snapshot getters.
* Hard: a reader that cannot lock acts on default settings; settings, deferred
  save and access point change in different places on what an earlier read said;
  a stop and a start of the access point in one round; a restart between a
  promise and its save; a status that is not evaluated in a tick.
* Correct when the access point serves the network in use and never comes up
  unwanted, a promised record reaches the store unless an error is reported or a
  restart finds it still on its way, and a status reflects the present.

### Web server (`src/src/web/`)

* State: the access point with its guard time, the table of WebSocket clients
  with their stalled frames, one JSON stream with its scratch copy under a lock.
* Operations: HTTP handlers and WebSocket events in the network task,
  `broadcastDeferred()`, `startAp()` and `stopAp()` in the main loop.
* Hard: two tasks write the table of clients without a lock; callbacks of one
  connection may release or drain the stream of another.
* Correct when table and library agree, an answer has only its own pieces, the
  scratch lock is always given back, and a client that takes no frames goes.

### LiDAR (`src/src/devices/LidarAdapter.*`, `TfLunaFrameParser.*`, `LidarStats.cpp`)

* State: the parser's three states and frame buffer; the latest measurement with
  its stamp; the UART's buffer.
* Operations: `tick()`, `readOnce()`, `forceRecover()`, and `probeOnce()`, which
  reads the UART through the TFMPlus library and writes measurement and health
  without `evaluateHealth()`.
* Hard: a header byte inside a frame, a lost or added byte; a service that reads
  64 bytes at a time from a buffer that may be full of old frames; a probe that
  waits for a frame and stamps it with the time from before it waited.
* Correct when the parser finds its way back and a healthy measurement is recent.

### Button (`src/src/devices/ButtonManager.*`)

* State: debounced level, press time, count of presses, start of the series.
* Hard: the window is tested at release and at every tick, and a long press ends
  the series.
* Correct when a multiple press is a quick series of short presses.

### Settings, console, light, queues and the rest

* Settings and persistence (`src/src/settings/`): the blob in NVS and the
  record in RAM; `load()`, `save()`; a restart in the middle of a save.
* Serial CLI (`src/src/core/SerialCli.*`): a client of the command queue; the
  rest parses words and prints snapshots.
* End stops, status LED, sensor adapters (`src/src/devices/`): the light shows
  the system's health through a debounce; the others mirror a pin or forward.
* Queues and timers (`src/src/core/*.h`): `CommandQueue` rejects, `RingBuffer`
  drops the oldest; timers compare 32-bit milliseconds by a signed difference.
* JSON and time formatting, hardware configuration, build scripts: conversions,
  constants, programs that are not part of the firmware. Not modelled.

## Modules

| Module | Models | Extends or uses |
|---|---|---|
| `SensorHealth` | counters and levels of a device's health, hysteresis both ways | |
| `OneShot` | abstract: an operation asked for, sent, run at most once, answered truthfully | |
| `I2cPipeline` | orchestrator, both queues, the task's loop, devices as verdicts | `SensorHealth`, instance of `OneShot` |
| `I2cBus` | the task below its queues: backend, recovery policy, frequency | |
| `I2cDrivers` | one device driver of the task: set-up, OFFLINE, recovery, retries | |
| `SdQueue` | the records of a ring: batch, success, failure, give-up, trim | |
| `SdLogger` | the SD logger, the library's queue and worker, the card | `SdQueue` |
| `AccessPoint` | what `tick()` asks of the access point and `processDeferred()` does | |
| `DurableSettings` | abstract: settings in use, owed to the store, stored | |
| `App` | command queue and its clients, settings transaction, button, deferred jobs, restarts | `AccessPoint`, instance of `DurableSettings` |
| `WebClients` | WebSocket clients and live frames, while the access point comes and goes | `AccessPoint` |
| `JsonStream` | the graph and event answers: stream, scratch copy, lock | |
| `DeviceHealth` | the table of device health, the system's health, the light | |
| `LidarFrames` | the parser, byte by byte, over a disturbed line | |
| `LidarLink` | UART buffer, bounded service, measurement, health | |
| `Button` | debouncing, short, long and multiple press | |
| `MCI2cPipeline`, `MCSdLogger`, `MCParts` | what TLC needs: constants, a view, the parts in one run | the above |
| `I2cPipelineProofs`, `I2cTokenProofs` | proofs about `I2cPipeline`: what each step keeps; what needs the order or identity of what is in flight | |
| `SdLoggerProofs`, `SdRecordProofs` | proofs about `SdLogger`: mount and job; where the records are | |
| `AppProofs`, `BusProofs` | proofs about `App`; `I2cBus` and `I2cDrivers` | |
| `DeviceProofs`, `PartsProofs` | proofs about `DeviceHealth`, `LidarFrames` and `LidarLink`; `WebClients`, `JsonStream` and `Button` | |

The levels of the I2C side fit together by what they leave open. `App`
issues a `Device` command and does not say what it does; `I2cPipeline` has that
command as one of its own and leaves the verdict of an execution open
(`Outcomes`); `I2cBus` and `I2cDrivers` say which verdicts there are and when,
and leave open which request comes next. Likewise `WebClients` leaves open what
the application wishes of the access point, which `App` determines; both use
the same operators of `AccessPoint`.

### How `I2cPipeline` corresponds to the code

* `Command` is one of the public commands; `ApplySettings` includes the SET_FREQ
  request and the reset of the sensor's cycle when its address changes.
* `ProcessResult` and `ProcessLateResult` are `processResult()`: `Owners` finds
  the clients the result belongs to, by the operation and token that the code
  compares, and `Settle` is everything the code then does to them.
  `HandleExpiredInFlight` settles all expired clients together with "timeout".
* `Schedule…` are the slots of `scheduleRequests()` in their order (`slot`),
  each with its own conditions and with what it does when the queue is full.
* `FetchExpired`, `Fetch` and `Complete` are the task loop. The verdict of an
  operation is any its helper can return (`Outcomes`); an RTC set may have written
  the chip and still report an error.
* Time: a request or a client is either before or past its deadline.
  `PassDeadline` moves a token into `expired` (the task would see it late) or
  `seen` (the orchestrator would), so every order of deadline, execution and
  answer occurs. "Due" for a poll or a backoff is a free choice.
* Tokens come from two counters, as in the code. `nextToken` is the
  orchestrator's: every request takes its value, sent or refused, and `TokenAfter`
  moves it on. `cfg`, the number of settings changes, is the task's own, from which
  only SET_FREQ takes tokens. `TokenBase` is how many tokens the orchestrator has
  taken before the behaviour begins; 0 is the state after boot. The counters
  do not wrap in the model (2^32 requests in the code).
* `chipTimes` is a history of the times the RTC chip has held, against which the
  published time is compared.

### How `I2cBus` and `I2cDrivers` correspond to the code

* `FastFail`, `Transfer`, `RunSetFreq`, `RunRecover` and `ExpireRequest` are what
  `processRequest()` makes of a request, with the check of the lines before it,
  the charge to policy and metrics after it, and the recovery that the charge may
  set off (`Charge`, `Recovered`). They are one action each, because nothing
  observes the task in between. `Outcomes` enumerates the ways through
  `recoverBus()`: reset, clock pulses, power hook.
* `AnswerFromDriver` is what the environment drivers do with no transfer: a
  measurement under way or not ready counts as a success, and clears the failures,
  whether or not the backend has started.
* The failures count on to `FailMax`, which stands for the code's 2^32 - 1.
* `ChangeBusSettings` and `AskSetFreq` are the two halves of `applySettings()`;
  the task runs between them.
* In `I2cDrivers` a request is a list of library calls (`steps`). `StartRequest`
  is the check of `ensureXxxReady()`, `BeginDriver` the library's `begin()` with
  the settings read before it; `CallRefused`, `RecoverDriver` and the "retry" of
  `driverPc` are the recovery of a driver that is OFFLINE. `WriteSettings` and
  `Uninitialize` are the two halves of `applySettings()` on the main loop.
* Here one driver is followed, the one `device` names: a request names one
  device, and the drivers share nothing but the bus.

### How `SdLogger` corresponds to the code

* `pc` walks one round of the loop: calls, `BeginTick` (card detect), results
  one by one (`Result`), `Deadline`, `Info`, the tail (`Status`, `MountDue`,
  `EnsureSession`), `StartJob` or `NoStart`, then one deferred step (`Deferred`:
  teardown, remount or mount).
* `MountResult`, `InfoResult`, `SessionResult`, `StatResult`, `WriteResult` and
  `CloseResult` are the branches of the result loop; what the code does to a
  batch is in `SdQueue` (`Written`, `Failed`, `GivenUp`, `Trim`).
* A request carries the name of the client that waits for it instead of an id;
  it becomes "gone" when the code forgets the id. That is what comparing ids
  comes to, since ids are not reused.
* A file is the set of records in it after a close, plus whether it has room;
  a part number says which file of a day or session is written.
* The library and the card (`Work`, `Usual`, `Trouble`, `CardOut`) are external:
  they are modelled from the calls the logger makes and the results it handles.

### How `App`, `AccessPoint` and `WebClients` correspond to the code

* `pc` walks one round: "button", "drain", "ap" (the access point's wishes),
  "cli" (the console and the stress mode), "defer". `Drain…` takes one command
  each, at most `DrainPerTick` per round.
* `Enqueue` is what the queue accepts of a client's commands, and with it the
  client is told that its record will be stored: `promised` is that record,
  `broken` whether an error was reported for it (`DrainBusy`, `SaveFails`) or a
  restart found it still on its way (`OnItsWay`). `PromiseNow` is the same for
  the button, whose update does not go through the queue.
* `UpdateSettings` is the settings transaction: refused when the lock times out
  (`DrainBusy`), otherwise record, wish, retry time, stop and owed save together.
* `GetSettings` may return `Blank`, what the getter returns when the lock times
  out; `blind` counts how often such an answer is acted on. `MultiPress` puts
  the factory network back on top of what was read.
* `WebPrepare` and `WebEnqueue` are the handler's read and its call of the
  queue, with other steps between them. `WebEdits` and `Edits` are the records
  that the handler or the console can make of the one they read.
* A settings record is the wish for the access point and the network; the other
  fields are settings of the components.
* `ProcessDeferred(ApJob)` is one action: first the access point, then the save.
  `StartRefused` (the guard time is running and stays as it is) and `RadioFails`
  (the radio does not come up and the guard time begins again) are two outcomes
  of `startAp()`.
* `Restart` finds the stored record; in the middle of a save also the new one or
  a blob that size, magic, version or checksum reject. The promise outlives it.
* In `WebClients` the main loop's steps are cut where the network task can come
  between: `CloseAll` and `FinishStop`, `StartRadio` and `FinishStart`,
  `CheckSlot` and `WriteSlot`.

### How the other parts correspond to the code

* `JsonStream`: `BeginStream` and `RefuseRequest` are the handlers of
  `/api/graph` and `/api/events`; `Fill` is one piece of `fillJsonStream()`;
  `CloseConnection` the end of a connection. A piece carries whose stream it was
  taken from, so that a piece sent to the wrong connection shows.
* `DeviceHealth`: a tick is `RunCommands`, `TakeSample`, `EvaluateDevices`,
  `ShowHealth`. SD stands for the devices evaluated in every tick, RTC for those
  written with a sample, WEB for the one only ever changed for the worse.
* `LidarFrames`: `SendByte` gives the parser the next byte of the stream,
  `LoseByte` and `AddByte` disturb it. `LidarLink` has frames for elements and
  true ages beside the stamped ones. `lag` is how old the loop's reading of the
  clock is, by which `tick()` judges and everything is stamped. `TickLidar` is a
  service, `ReadOnce` a sample when none is due, `ProbeBegins` to `ProbeReads` or
  `ProbeFails` a probe; the frames that arrive while it waits are in between.
  TFMPlus (`platformio.ini`, `lib_deps`) is outside `src/src/`: it may take any
  number of frames and find the signal good or bad.
* `Button`: one `TickButton` per tick, with the level read.

## Runs

| Run | Question | Properties |
|---|---|---|
| `PipelineRaw` | raw operations, recoveries and display refreshes compete for queues of one and one request per tick, the task may hang | `TypeOK`, `RawFlagsAgree`, `RawTruthful`, `RecoverStatusAgrees`, `InFlightResolves`, `ImplementsOneShot` |
| `PipelineRtc` | sets and reads of the RTC in flight together | `RtcTimeWasOnChip`, `RtcNeverGoesBack` |
| `PipelineEnv` | measurement cycles while address and bus settings change, both token counters run, the task may hang | `TokensTellClients`, `EnvPhaseAgrees`, `HealthHonest`, `EnvChargedOnce`, `EnvCycleEnds` |
| `PipelineScan` | scans of four addresses with two places in the snapshot | `ScanAccounting`, `ScanHonest`, `ScanCompletes` |
| `TokenAlias` | both token counters overlap, as right after boot | `RawTruthful`, violated |
| `SdCards` | batches of two, daily and event file, no card-detect pin, one upset | `NothingLost`, `JobHoldsHead`, `JobHasRequest` |
| `SdResume` | the session file across removal, remount, rename, resume; rings of one | `NothingLost`, `MountAgrees`, `WorkerAccounted` |
| `SdLive` | a card that stays in, one upset | `EveryRecordLeaves` |
| `SdHandles` | one open file allowed, a job late during its open | `EveryRecordLeaves`, violated |
| `App` | settings, access point and store under web handlers, console, stress mode, button, lock time-outs and a restart | `ApNetworkCurrent`, `PromiseKept`, `NoStartWhileDisabled`, `ImplementsDurable` |
| `Parts` | the parts that share no state, each on its own | see below |
| `WebDegraded` | one failed command or one overflow | `WebHonest`, violated |

`Parts` has one variable of its own, `focus`: the initial state chooses the part
that moves, and the others keep their initial state. Parts that share no
variable commute, so their interleavings would show nothing more, and a
property about one part is not weakened. Liveness is stated as `[]<>` or
`<>[] => …`, which the parts that stand still satisfy. Its properties:

| Part | Properties |
|---|---|
| `WebClients` | `ClientsHaveSlots`, `ApFollowsRequest`, `StalledClientGoes` |
| `JsonStream` | `AloneIsWhole`, `ScratchComesFree` |
| `DeviceHealth` | `LedDebounced` |
| `I2cBus` | `RecoveryPaced`, `BusComesBack` |
| `I2cDrivers` | `RtcSetHonest`, `DriverComesBack` |
| `Button` | `MultiIsQuickSeries` |
| `LidarFrames`, `LidarLink` | `Resynchronises`, `HealthyIsRecent` |

Deadlock is checked in every run but `Parts`: there a part whose bounds are used
up (all requests answered, all noise spent) really stops.

What the runs show:

* A raw snapshot's flags agree with its token, its "ok" is of this very
  operation, and the snapshot implements `OneShot` including that every
  operation is answered. No fairness of the task is needed for that.
* The published RTC time is one the chip has held, never one that was only asked
  for, and does not go back, though a set may fail half way or be answered after it
  was given up.
* While the task's token counter stays at or below where the orchestrator's began,
  no two clients in flight share a token, and no request or result carries the
  token of a client it does not belong to. `TokenAlias` is the opposite case.
* A request of the sensor given up at its deadline is not charged a second time
  by its late result, and neither flag, phase nor token is left behind by an
  address change.
* Every scanned address is counted once; a scan without errors lists exactly the
  addresses that answered; every scan completes.
* Each record accepted by the logger is pending, written, switched off or
  counted. A job's batch stays at the head of its ring, pending for its
  destination, and waits for exactly one request. A mounted logger has a live
  worker that is not about to be torn down, and no worker is left over.
* A running access point serves the network in use as long as no reader acted on
  defaults, and none comes up that nobody wants any more. The record
  whose storing was promised last is the last one queued to be stored, then the one
  to be saved, then the one stored, through unstored changes, older commands and
  restarts after the save. Two things end that: an error that is reported, and a
  restart that finds the record still queued, waiting or being written. The facade implements
  `DurableSettings`: only what was owed is ever stored, and the store is spoiled
  only while it is being written.
* The access point follows the wish through guard time, retry delay and failed
  starts. The table of WebSocket clients agrees with the library; a connected
  client without a slot was taken out by the main loop, in the two windows the
  comment at `ClientsHaveSlots` names. A client that takes no frames goes.
* A JSON answer is whole if no other stream's connection was open meanwhile and
  all its items could be written, and the scratch lock is always given back. (The
  precondition is needed: see the observations.)
* Recoveries keep the backoff the user chose; a clock set reported done has set
  the clock. Devices come back without being asked for. So does the bus, once the
  environment driver has stopped answering without a transfer (see the findings).
* Out of step for whatever reason, the parser delivers the second frame that is
  sent undisturbed and has no header byte inside, once and as it was sent; a
  healthy measurement is no older than the stale time, the services that a full
  buffer takes and the one that judges it, whether a service or a probe read it.

### Bounds, and why they are enough

* I2C: each run has the two or three clients that share a device or a queue; the
  rest of the pipeline does not read their state. Queues of one and two make full
  queues and overtaking happen; four addresses with two places make the scan
  overflow. `MaxFail = 1` reaches both thresholds. `MaxSets = 2` and
  `MaxApply = 1` bound the RTC sets and the settings changes. `TokenBase = 1`
  lets the one SET_FREQ take the last token below the orchestrator's;
  in `TokenAlias` it is 0. `nextToken` is not bounded: the view below makes the
  states finite, and `TokenAlias`, without the view, ends at its counterexample.
* The view `Renamed` of `MCI2cPipeline` renumbers tokens in the order in which
  they occur. The code only compares tokens for equality and the models' fairness
  speaks of clients, so states that differ by a renaming behave alike.
* SD: `MaxOffers` records per ring, `Capacity`, `MaxBatch = 2`, `MaxRetries = 2`
  (code: 1 to 10, 3 by default), `PartMax = 2` (code: 9999), `MaxChanges`
  settings changes and remounts, `MaxUpsets` upsets: a refused request, a failed
  operation with the card in, a removal, a late job, an info request whose answer
  is lost. With the card out failures are free. One upset starts a chain of
  failures; the second failure of a close after a failed write with no card is
  such a chain.
* `App`: a queue of two, two commands per round, two commands in all, one blind
  answer, one restart. Two commands are what a change needs to meet another one,
  in the queue or between a handler's read and its call; three gave the same
  result in a longer run. One user network beside the factory's and the blank
  one tells the networks apart.
* `WebClients`: two slots and three clients, so one finds the table full and a
  slot changes hands; two stalled frames; two changes of the wish.
* `JsonStream`: two requests, up to two items: one comma and two streams that
  meet.
* `I2cBus`: threshold 2, backoffs of 1 and 2 ticks with a maximum of 2, so that
  a backoff doubles and is capped; the failures count on to 4, beyond the
  threshold; two faults, one settings change.
  `I2cDrivers`: three outages, three versions of the settings, so that settings
  change during a set-up and once more.
* `LidarFrames`: bytes below 3, one of them the header, payloads of two bytes:
  the header can be any payload byte, and the checksum; two disturbances.
  `LidarLink`: a buffer of three frames, two per service, a loop up to a unit
  late with its service and a clock reading up to a unit old, so a probe waits one. `Button`: three presses in a window of 16 ticks with a debounce of one.

### Fairness

* `RunsMainLoop` (weak; `WebLoop` in `WebClients`): the Arduino loop is called for
  ever and never blocks on the other side.
* `RunsClock`: a deadline that stays set passes; in the SD logger a backoff ends
  (strong, because it is read at one point of the loop only). `GuardEnds`,
  `RetryDue`, `BusTime`, `BackoffEnds` (weak): the clock moves on.
* `RunsTask`, `RunsWorker` (weak): the other task runs. For the pipeline only
  `ScanCompletes` needs it. `BusFairness` and `DriverFairness`: devices are polled
  for ever, by the schedule of the orchestrator.
* `RunsTimers` (strong): a mount that is due and a flush that is due are not
  passed over at every round. Both are skipped when a tick has used its time
  budget or the flush interval has not elapsed.
* `WebFairness`, besides the loop and the clock: strong for `StartRadio` (not every
  start fails) and for a sweep that sends a frame (the broadcast interval elapses
  again and again); weak for the report that a client told to go is gone.
* `JsonFairness`: the network library goes on with an open connection or closes it.
* `DeviceHealth`, `LidarLink`, `LidarFrames`, `Button` and `App` state none: their
  properties are about what a step may do. No client, user or fault is ever
  obliged to act.

Two limits of the code are visible here. The order of the slots is fixed, so
with `i2cRequestsPerTick = 1` a client that is served first and asked again at
every tick starves those after it; `PipelineRaw`, with a budget of one, checks
only that what is in flight is resolved, and `EnvCycleEnds` is checked with a
budget of two. And a client that is re-submitted at every tick may keep a slow
task's queue full; `ScanCompletes` is checked without such a client.

## Proofs

The theorems hold for every value of the constants that the named assumptions
allow.

**`I2cPipeline`.** The argument goes upwards:

1. `TypeCorrect`: `TypeOK` is inductive by itself. Most of the work is `Settle`,
   which changes every client at once, and `SettleType` is its lemma.
2. `SnapshotsAgree`: `SnapshotInv` is the conjunction of the agreements between
   flags, tokens, phases and snapshots. It is inductive given `TypeOK`; the parts
   need each other only through `Settle`. From it follow `RawFlagsAlwaysAgree`,
   `EnvPhaseAlwaysAgrees`, `RecoverStatusAlwaysAgrees` and
   `ScanAlwaysAccounted`. `HealthAlwaysHonest` and `EnvAlwaysChargedOnce` need only
   the types: each step that adds to the failure count is one that ends an
   operation of the sensor or finds the queue full.
3. `TokensAlwaysTellClients`: no two things in the system have one key, and a
   client's token is in the system only as its own request. `TokenInv` adds
   `TokensIssued`, that everything in the system carries a token its counter has
   already passed. A new token is then nobody's, because it is the counter's next
   value; the task's stay at or below `TokenBase` and the orchestrator's above
   it when `MaxApply <= TokenBase`, that is, when the counters do not overlap.
   Results, expiry and verdicts only pass tokens on (`Quiet`).
4. `RawAlwaysTruthful`: `RawInv` says that a raw request still queued has not
   run, that the result on its way carries the verdict of the execution
   (`RunOnce`), and that the bus has said nothing of an operation before its
   request (`RawSilent`). It needs 3, because a result is matched to the raw
   operation by token alone. From the same invariant follows `RawIsOneShot`, the
   step refinement: each action is a step of `OneShot` for the raw operation or a
   stutter, so `Spec` implements `OneShot`'s `SafeSpec`.
5. `RtcTimeAlwaysFromChip`, `RtcTimeNeverGoesBack`: `RtcInv` orders the times on
   their way round. The sets in the request queue and in execution lie between
   the chip's time and the last one asked for, in the order they were asked for
   (`SetsInOrder`); the answers in the result queue lie between the published
   time and the chip's, in the order they were given, and each is one of
   `chipTimes` (`AnswersInOrder`). A set
   that is given up stays in this line, so it cannot overtake the next one. Both
   queues are needed at once: an answer that is dropped or late only widens the
   gap between the published time and the chip's. No assumption that the
   counters lie apart is needed, only `TokensIssued`, because these results are matched by operation and token.
6. `ScanAlwaysHonest`: the probe in flight is in one place at most, asks for the
   address the scan has come to, and its answer says whether that address was
   there (`ProbeOnce`, `ProbesAhead`, `ProbesAnswered`); the list is then the
   addresses that answered without the one in flight, in order, as many as fit
   (`ListKept`). Leftovers of an earlier scan carry another token.

The assumption of 3 and 4 is needed: `TokenAlias` is the run without it.

**`SdLogger`.** Three invariants, and no assumption but those on the constants'
types:

1. `MountAlwaysConsistent`: `MountInv` says who waits for a mount request. At
   most one request is for the mount; while there is one the logger is off line,
   has not deferred another mount, and polls results only if the library is
   started. Every other step leaves the queue of requests no louder in this
   respect (`Quieter`), so each step either leaves the mount alone, takes the
   logger off line, or is one of the few that mount. `MountAlwaysAgrees` and
   `WorkerAlwaysAccounted` follow.
2. `JobInvariant`: `JobInv` adds the types, and that the job has its request in
   the queue, for the operation it is at, and that its lines are at the head of
   its ring. It is inductive given `MountInv`. What makes it hold through a
   failed session setup, which takes the card off line and leaves the job, is the
   conjunct that a job in progress has either a mounted card or a library that is
   not started: so no mount can succeed before the job is dropped. A step keeps
   the job (`JobSame`), moves it on (`JobNext`) or ends it (`JobEnds`).
   `LoggerTypeCorrect`, `JobAlwaysHoldsHead` and `JobAlwaysHasRequest` follow.
3. `NothingEverLost`: a record is safe for a destination while it is pending in
   its ring, in a file that was closed, or set aside with a stream that is off
   (`Safe`). `NothingLost` says that what is wanted and not safe is no more than
   what was counted as dropped, and is inductive given 2 and one more fact. Only
   the success of a job clears a whole batch, and it clears what is at the head
   of the ring by then, so `CloseInv` says that a job that has written all its
   lines closes its file for exactly those records, and that they are in the file
   once the close has succeeded. Every other step keeps the safe records safe
   (`Quiet`, `Inherits`), moves them from the ring to one of the other places, or
   is a failure that gives up on some: those are counted one by one, and
   `GaveUpCounted` compares the two numbers.

**`App`.** Types first (`FacadeTypeCorrect`). For the access point,
`ApNetworkCurrent` is not inductive: a start that was asked for earlier could
carry an old network. `ApInv` adds `StartIsWanted`, that a start waits only
between `tick()` and `processDeferred()` of one round and is wanted then, and
`StartIsCurrent`, that it carries the network in use. Both hold because nothing
between the two calls changes the settings. `ApAlwaysCurrent` and
`NeverStartsDisabled` follow. For the store, `PromiseKept` is inductive
given the types: it says where the promised record is at each stage. The work is in
the lemmas about the last command to store: it stays the last when the queue grows
by commands that store nothing (`LastOfGrown`) or loses an older one (`LastOfTaken`),
and a client that queues either makes a new promise or leaves the old one
(`EnqueueKeeps`). `FacadeIsDurable` is the step refinement: each action is a
`Change`, a `Flush`, a `Restart` of `DurableSettings` or a stutter.

**`I2cBus`, `I2cDrivers`.** `BusInv` relates the history `autoAge` to the policy:
while the policy remembers no recovery, none is counted; otherwise `autoAge` is
at least the time since the last recovery, which is what the policy compares with
its backoff. `RecoveryAlwaysPaced`, `RecoveryIsHonest` and
`FrequencyAlwaysFollows` follow. `DriverInv` says what each step of a clock set
has already done to the chip, and with which settings `begin()` runs;
`ClockSetIsHonest` and `ConfigAlwaysCurrent` follow.

**`DeviceHealth`, `LidarFrames`, `LidarLink`.** `LightInv` relates the light's
debouncer to the history `agreed`: a level that is pending has been the system's
health for as long as it is pending (`PendingAgrees`), with one tick more or less
depending on where in the loop the step is; `LedAlwaysDebounced` follows.
`FramesInv` says what the parser can hold, that the line holds the rest of the
frame being sent, and that in an undisturbed frame without further header bytes
the parser is either in step with the sensor or will run out of bytes before the
frame ends (`StepInv`); after the first such frame it looks for a header, and
from then on it is in step: `ParserAlwaysResynchronises`. `LinkInv` says that a
frame at place `i` of the buffer has seen only as many services as the frames in
front of it leave room for (`Waited`); a service takes a fixed number of frames,
so a frame's age is bounded by a full buffer's services at any time, also when
a probe takes it out of turn (`ProbeKeepsAges`), and a measurement's stamp differs
from that age by no more than the bound allows (`MeasuredInTime`). With the
stale time that `linkHealth` compares, this is `HealthyAlwaysRecent`.

**`WebClients`, `JsonStream`, `Button`.** `ClientInv` adds to `ClientsHaveSlots`
that the library's numbers are fresh, so a new client is not yet in the table;
the write of a slot may empty it under a client that came meanwhile, and that
client is in `wiped`. `StreamInv` says that an active stream belongs to a request
being answered and holds the lock (`ScratchIsHeldByStream`); `AnswerInv` that
what a lone request has been sent is the beginning of its whole answer, as long
as the stream's phase and item say (`AloneIsAlwaysWhole`). `SeriesInv` says that
the presses counted are the newest of the history and none is older than the
series (`MultiIsAlwaysQuick`).

Some theorems state properties that no run lists, because a run has enough to
do: `RecoveredMeansUp`, `FrequencyFollows`, `DriverConfigCurrent`,
`ScratchHeldByStream`, the types of `App`, and `SafeSpec` of `OneShot`, which a
run checks as part of `ImplementsOneShot`.

With these theorems every invariant and every action property of a passing run is
proved. Only model-checked is what is out of the prover's reach, liveness under
fairness: `InFlightResolves`, `EnvCycleEnds`, `ScanCompletes`,
`EveryRecordLeaves`, `ApFollowsRequest`, `StalledClientGoes`, `ScratchComesFree`,
`BusComesBack`, `DriverComesBack`, and of `ImplementsOneShot` that an operation
in flight is answered. Neither checked by a run nor proved are, of the SD logger's
`TypeOK`, the types of the library and of the history variables
(`LoggerTypeCorrect` is about the logger's own variables).

## Findings

* `TokenAlias`: `processResult()` matches a raw result by token alone while
  `I2cTask::applySettings()` numbers its SET_FREQ requests with a counter of its
  own. Soon after boot the result of a SET_FREQ completes a raw operation that
  has not run.
* `SdHandles`: a job that reaches its deadline while its file is being opened
  forgets the request and with it the handle. When all handles are lost the
  session marker cannot be opened, setup retries for ever and the queued records
  are neither written nor dropped, until a remount.
* `WebDegraded`: the web server's health is only ever changed for the worse.
  After one failed command or one overflow of the command queue it stays
  DEGRADED for ever, and with it the system's health and the light.

Seen while modelling, without a run of their own:

* SD: a rename of the session resets the line count but not the job in progress,
  whose batch of old rows is then counted for the new file. `RowsInActiveFile` in
  `SdLogger` states the contrary; put it into `SdResume.cfg` as an INVARIANT to see it fail. A rename between a
  job's start and the answer to its `stat` leaves a rotation without a directory
  and caps the stream.
* I2C: a request that expires in the queue is charged to the recovery policy
  (`I2cTask.cpp` 2603–2622), though the comment at 2382–2385 says that it is not.
  On a stuck bus RECOVER and SET_FREQ fail at once like every other request. A
  SET_FREQ that finds the queue full or is late is lost, and the bus keeps the old
  frequency until the next recovery. `_displayNextPollMs = 0` is in the future
  during the second half of the clock's range.
* I2C: an environment driver that is waiting for a measurement answers from its own
  state, with no transfer, and `processRequest()` takes that answer for a success
  (`I2cTask.cpp` 1297–1303, 1326–1333, 1596–1632, 2551–2570). It clears the failures
  that the recovery waits for, also while the backend is not started. Nothing in
  `src/` bounds how often that happens, so a bus that is down comes back by itself
  only when it stops: the premise of `BusComesBack`.
* Drivers: settings changed while a driver's `begin()` runs leave clock and
  climate sensor with the old ones; the display compares all it uses and is set
  up again. A fetch never recovers a climate sensor that is OFFLINE, the next
  trigger does. If the clock chip loses power between the two steps of a set that
  is retried, the wrong time is reported as valid.
* Settings: the defaults queued by the web page and the console carry the
  template of the network's name, and it stays "TFLuna-XXXX" until a restart; the
  public `factoryResetSettings()` would replace it. The console's "set … persist"
  of a value that is in use already is not stored. A failed command's status is
  overwritten by the next one of the same drain. A console line that is too long
  is reported and its tail is then executed as a command. A save that fails is
  reported once and never retried.
* JSON answers: a second request between the last piece of an answer and its end
  takes the stream, and the callback of the first connection then drains pieces
  of the second; a connection that ends releases the stream of another. An item
  that cannot be written leaves a trailing comma.
* LiDAR: measurements are stamped with the time of reading, 64 bytes per service,
  so behind a late loop old frames pass for fresh ones; `HealthyIsRecent` is the
  exact bound. A probe reads the UART beside the parser, so it can cost the parser a
  frame, and judges health by the distance alone until the next service. After a whole frame the parser starts again from the frame's last
  byte, so a checksum byte that equals the header byte costs the next frame.
* Button: the first release after a window has expired is not counted as the
  first of a new series, and a multiple press also reports its last short press.

## Not modelled, and why

* I2C: parsing of payloads (a verdict), timing figures and debug snapshots, the
  argument checks of the raw API, the debouncing of the GPIO probe, `begin()`'s
  allocation and `end()`, which waits two seconds and then deletes what the task
  may still use; clock wrap.
* SD: paths and CSV text, exact sizes and dates of files, the figures shown for
  the card, the FAT32 refusal, allocation and formatting errors, the count of
  event rows, `end()`, and lines longer than `sdMaxCopyWriteBytes`, which are
  written without a copy.
* Facade: sample and event history, telemetry and the published status record;
  the event throttle (an error event inside the throttle window is never logged,
  1515–1535). Two clients that work on one snapshot overwrite each other's
  change, and a record read as defaults may be written back: both are in the
  model's behaviours, and no property forbids them, because nothing in the code
  promises otherwise.
* Web server: pages, routing, captive portal and the handlers that only read.
  Messages of WebSocket clients are ignored by the firmware.
* LiDAR: the statistics are sums. The inside of TFMPlus (`platformio.ini`,
  `lib_deps`) is not part of the repository; `LidarLink` models what its probe may
  take from the UART. A build without the library probes by `readOnce()`. A board
  without UART pins does nothing.
* Settings: which values `validate()` accepts.
* JSON and time formatting are conversions without state; hardware configuration
  is constants; build scripts and tools are not firmware.

## What is left

The rest of the SD logger's types: that the library never counts more open
handles than it has needs an invariant that counts the closes still in its queue.
The shutdown of the I2C task against a transfer and the comparisons of a 32-bit
clock that wraps would each be a small module of their own.
