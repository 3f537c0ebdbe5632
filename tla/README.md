# IceNET.Platform in TLA+

Models, model-checking runs and machine-checked proofs for IceNET.Platform: the
FPGA driver of the Jetson (`firmware/arm/src`), the application that uses it
(`firmware/arm/app/system`, `firmware/arm/app/gui`), the network driver of the PC
(`firmware/x86/src`), what the two drivers share (`firmware/common/src`), and
what all of them rely on from the FPGA (`rtl`).  Paths below are relative to the
repository; every definition's source lines are in `PROJECT.json` under `map`.

## 1. The system

| Part | State it keeps | Operations | Talks to |
|---|---|---|---|
| **State machine thread** (`stateMachine.c`) | one slot `currentState`, flag `stateChanged` | `setStateMachine`, `getStateMachine`, the thread's cases | written by `commanderWrite`, calls DMA, RAM axis, work queue |
| **SPI/DMA** (`spiDmaCtrl.c`, `spiWork.c`) | primary and secondary message, `configCount`, `configDone` | `configDMA`, `spiDmaInit`, `masterTransferPrimary/Secondary`, `isConfDone`, `resetLongDma` | run by two single-threaded work queues; wakes the commander's reader |
| **Interrupts** (`irqCtrl.c`) | `tryLock` | `SpiISR`, `WatchdogISR`, `TimerISR`, `clearIsrLock` | queue work, count ticks, drive the scheduler |
| **Character devices** (`charDevice.c`, `kernelComms.c`) | per device: `RxData`, `TxData`, `wakeUpDevice`, `tryLock`, a mutex | open, close, `commanderWrite`, `commanderRead`, `watchdogRead`, `eventWakeUpDevice` | the application above, everything else below |
| **RAM disk** (`ramDisk.c`) | a list of devices, each a radix tree of pages | block requests, discard, `BLKFLSBUF`, creation, release | the block layer; written by the application, mapped by the RAM axis |
| **RAM axis** (`ramAxis.c`) | concatenated configuration, `payloadBytes`, `payloadReady`, mapped sectors | `prepareRamDiskTransfer` (map, concatenate, release), its buffer | reads the RAM disk for the state machine thread |
| **Kernel watchdog** (`watchdog.c`) | two 8-bit counters, `indicatorFPGA` | one round per second | the tick interrupt, `/dev/KernelWatchdog` |
| **Scheduler** (`scheduler.c`) | `currentState`, `configDone` | the timer interrupt's and the worker's turns | the timer interrupt and its work queue |
| **Load and unload** (`main.c`) | every resource of the above | `initFpgaDriver`, `exitFpgaDriver` | all of the driver |
| **Receiver** (`receiver.c`, `diagnostics.c`, `crypto.c`) | static records of pointers into packets, the list of active hosts | two netfilter hooks, the ARP and NDP handlers, `addActiveHost`, `cleanupActiveHostList`, `aesDecrypt` | packets of all interfaces; the main thread prints the list |
| **Transmitter** (`transmitter.c`) | what a transmission holds: request, socket, buffer | echo requests, ARP, NDP, UDP, TCP | the network device, the cipher |
| **x86 driver** (`main.c`, `mainThread.c`, `kernelComms.c`, `x86network.c`) | one slot `currentState`, `stateChanged` | load, unload, the thread's cases, open, read, write | the receiver and the transmitter; `/dev/mainCommander` |
| **DroneCtrl, KernelComms** (`DroneCtrl.cpp`, `KernelComms.cpp`) | control state, event flag, kill flag | constructor, destructor, start sequence | owns Commander, Watchdog and RamDisk (base classes) |
| **Commander** (`Commander.cpp`) | `m_ioState`, shared frame, `m_calibrationCount` | `CommanderThread`, `setCommanderState`, `sendCommand`, `shutdownThread` | `/dev/KernelCommander` |
| **Watchdog** (`Watchdog.cpp`) | `m_watchdogDead`, `m_fpgaConfigReady` | `threadWatchdog`, `shutdownThread` | `/dev/KernelWatchdog` |
| **RamDisk** (`RamDisk.cpp`) | `m_engineConfig`, `m_deviceConfigs`, a descriptor | `assembleConfig`, `sendConfig`, `openDEV`, `closeDEV` | `/dev/IceNETDisk0`, through the page cache |
| **GUI** (`gui.cpp`) | buttons, the frame it shares with Commander | NEW, DELETE, frames, requests | DroneCtrl |
| **FPGA** (`rtl/*.vhd`) | controllers for I2C, SPI, PWM, interrupts, DMA offload | one state machine each | SPI in both directions, three interrupt lines |

Four paths join them.  *Forward*: GUI, Commander thread, `commanderWrite`, the
slot, the state machine thread, the primary work item, SPI.  *Feedback*: FPGA
interrupt, the secondary work item, `TxData`, `wakeUpDevice`, `commanderRead`,
Commander thread.  *Configuration*: DroneCtrl thread, page cache, RAM disk, RAM
axis, DMA buffer.  The watchdog is a slow path from the FPGA's tick to the
application's permission to configure.  The x86 driver stands apart: a command
to its device starts a scan, its main thread sends, its hooks receive.

What is hard here is that almost nothing is queued or locked end to end: one
slot for commands *and* for a thread's own follow-up states (in both drivers), one
buffer for all writers, one frame shared by two threads, one record of pointers
for the packets of all interfaces, flags lowered by those who wait on them,
counters changed by an interrupt's worker and reset by a thread, results stored
in a structure and read back, resources taken and released in an order that
only comments fix, and nearly no result of a call that is looked at.
`PROJECT.json` lists each such place under `hazards`, with the properties aimed
at it.

What makes each part correct:

* state machine: a command runs at most once and in order; none is stranded
  while the thread sleeps; the thread winds down, and stops when asked;
* feedback: one transfer per accepted interrupt, its lock given back; nothing is
  read twice, in whole or in part, and no sample waits unnoticed; `configDone`
  exactly when every register answered;
* forward: what was sent arrives once, in order, unchanged;
* watchdog: a tick is noticed, nothing live is taken for dead;
* Commander: frames once and in order, calibrations whole, no request slept over;
* DroneCtrl: nothing outlives the object, the FPGA is left reset, the start
  sequence reaches normal mode;
* RAM disk: an array of sectors under concurrent requests; no page or device left;
* configuration: what the application assembled is what the driver transfers;
* load and unload: nothing is used before it is there or after it is gone,
  everything is released once, unloading ends, a device has one user;
* scheduler: configured once, then rounds;
* network: the list of hosts is exact, answers and decrypted payloads are those
  of their own packets, a scan survives an unload, transmissions free what they
  got, a scan that is asked for comes to every host.

## 2. Modules

| Module | Models | Builds on |
|---|---|---|
| `CommandService` | abstract: numbered commands, at most once, in order, possibly lost | |
| `FpgaLink` | abstract: ordered link that loses at most what a failure carried | |
| `SectorStore` | abstract: an array of sectors, requests from the first sector to the last | |
| `StateMachine` | mailbox and thread; a step at every point where a writer can slip in | refines `CommandService` |
| `FeedbackPath` | SpiISR, both workers, `isConfDone`/`resetLongDma`, the thread's configurations, `commanderRead` | |
| `ForwardPath` | two writers in `commanderWrite`, the thread's cases call by call, primary worker, failing transfers | INSTANCE of `StateMachine`; refines `FpgaLink` |
| `Watchdog` | tick interrupt, kernel thread, `watchdogRead`, the application's thread | |
| `CommanderThread` | GUI thread and Commander thread over the shared frame and state | refines `CommandService` |
| `DroneControl` | NEW and DELETE, the start sequence, destructors, both devices' threads | |
| `RamDisk` | radix tree, requests over segments, discard, flush, create and destroy with every failure | refines `SectorStore` |
| `ConfigPath` | `RamDisk.cpp`, the page cache, `ramAxis.c`, another user of the disk | extends `RamDisk` |
| `CharDevice` | open, close and their mutex; used by both drivers | |
| `Scheduler` | timer interrupt and worker over one state | |
| `DriverLifecycle` | the order of loading and unloading, around interrupts, work, threads and users, a failure anywhere; `configDMA` step by step | extends `CharDevice`, `Scheduler` |
| `Receiver` | both hooks, the ARP and NDP handlers, the list of hosts, decryption in place | |
| `Transmitter` | the five transmissions as sequences of stages that can fail | |
| `NetworkScan` | the x86 driver: device, main thread, load and unload | extends `CharDevice`, `Receiver`, `Transmitter` |
| `MCConfigPath`, `MCDriverLifecycle`, `MCNetworkScan` | sets the configurations cannot write down | the module of the same name |
| `KernelThreads_proofs` | theorems of `StateMachine` and `Watchdog` | both |
| `FeedbackPath_proofs`, `ForwardPath_proofs`, `CommanderThread_proofs`, `DroneControl_proofs`, `ConfigPath_proofs`, `DriverLifecycle_proofs`, `NetworkScan_proofs` | theorems | the module of the same name |

How they correspond to the code.  Variables carry the source's names.  One
action stands for what the code does between two points at which another
thread can see or change shared state: `currentState = getStateMachine()` is
two actions (a locked read, an unlocked store), a `wait_event` is a guard,
lowering its flag an action of its own, and the body of a locked section is one
action only where everybody who touches the variables takes that lock.  In
`Receiver` a handler's step ends where it reads one of the shared pointers
again; in `DriverLifecycle` loading and unloading go resource by resource, and
`configDMA` and `spiDmaDestroy`, which the module and the state machine's thread
run without a lock, go step by step: the handle is looked at (`Ask`), unmapped
(`Unmap`), zeroed (`Zero`), mapped anew (`Map`, `MapFails`), and the message is made
from it (`SetMessage`), while a transfer may begin or end in between.  There the
`tx_dma` and `rx_dma` of a device are one handle, and a message is *live* while the
mapping it was made from is in place.  `FeedbackPath` and `ForwardPath`, which are
about the data, take `configDMA` as one step, and `spi_sync` as one write of the
buffer between two others.
Variables commented *history* or *external* are not in the code; they number
commands and samples so that "lost", "twice" and "torn" can be said, and no
guard of the code's own steps reads a history variable.  Definitions preceded
by a comment "Mutant:" are not part of any specification: each is the changed
form of a definition with which the named property fails.

Data is abstracted to what the properties tell apart.  Frames are numbers or
one of a few labels, a buffer that was overwritten while in use is `Torn`, SPI
contents do not exist but for which transfer filled which part of a buffer, a record of the configuration is the name of its device
and a number of registers, a packet is its kind, interface, sender, MAC address,
whether its ports and protocol are those the driver looks for, and how often it
is encrypted.  A pointer into a packet is the interface whose packet it is; a
resource is absent, held, or *stale* (released and its pointer kept).

## 3. Runs

TLC checks every run exhaustively in at most a few minutes.  The configurations
name every bound.

| Run | Question | Result |
|---|---|---|
| `mailbox` | commands at any time: at most once, in order, none slept over, winding down, stopping | holds |
| `mailbox_lost` | every written command runs | **violated** |
| `feedback` | an orderly FPGA: `configDone` exactly when answered, the lock released | holds |
| `feedback_hostile` | interrupts at any time, failing transfers, a frame whose answer lands in the reader's buffer: lock, buffer, no sample unnoticed, reader released | holds |
| `feedback_failed` | the lock is released after a failed `spi_sync` | **violated** |
| `forward` | waiting for each transfer, failing transfers: a link that loses only what a failed transfer carried, no command lost, no transfer of an unset message | holds |
| `commander` | GUI at any time, failing writes: frames at most once and in order, deletion ends; undisturbed, every frame is written and calibrations are whole | holds |
| `watchdog` | over all wraps of both counters: ticks noticed, nothing taken for dead, the thread stops | holds |
| `drone` | NEW and DELETE at any time, devices in use, uninitialised members of either value: nothing left behind, FPGA left reset, normal mode reached, deletion ends | holds |
| `config` | application, page cache, RAM disk, RAM axis, another user, failures anywhere: an array of sectors, nothing leaks, no BUG, an undisturbed configuration arrives whole | holds |
| `driver` | loading and unloading with a failure anywhere around interrupts, work, threads, users: nothing missing is used, released once, one user per device, configured then rounds, unloading ends | holds |
| `network` | a scan with its answers, other packets and transmissions, failures, unloading: list exact, packets handled right, nothing gone is used, nothing left, a scan that is asked for comes to every host | holds |

**Findings.**  The two violated runs are disagreements between the code and
what it says of itself, each with its line in `PROJECT.json`:

1. A command can be erased in the slot before its case runs, by a second write,
   by the thread's own `SM_DONE`, or by the write back of an old copy
   (`stateMachine.c:46,113,130`).  The application sends commands back to back
   (`Commander.cpp:211-213`).
2. A failing `spi_sync` returns before `clearIsrLock` (`spiDmaCtrl.c:335`):
   no later interrupt is served.

Others are visible in what the passing runs assume or except; weakening it gives
the counterexample:

3. `isConfDone` counts every secondary transfer (`spiDmaCtrl.c:258`): with
   `QuietConfig = FALSE`, samples complete a configuration and
   `ConfigDoneMeansAnswered` fails.
4. With `Paced = FALSE`, two writers lose commands and transfer each other's
   frames (`charDevice.c:276`): the link is one only for an application that waits.
5. `watchdogRead` copies two bytes without the lock under which they are stored
   (`charDevice.c:202`); `NotTakenForDead` therefore excepts `torn`.  At the
   counter's wrap the kernel thread computes a distance that is not 1
   (`watchdog.c:59,72`) and prints a silent FPGA as live for one round.
6. Frames posted in quick succession share one buffer, and a frame is zeroed
   after it was written whatever has been put in since (`Commander.cpp:334`);
   `EveryFrameIsWritten` therefore excepts `disturbed`.  DELETE posts two
   frames back to back (`gui.cpp:1670`).
7. The event of `shutdownThread` ends the IDLE wait but not a blocking read
   (`Commander.cpp:230-240`): with `KernelAnswers = FALSE` the join never returns.
8. `m_fpgaConfigReady` is never initialised (`Watchdog.cpp:18-24`): in memory that
   is not zero the FPGA is configured before its watchdog was seen, which is what
   `DRONE_CTRL_CONFIG` waits for (`DroneCtrl.cpp:188`).  Run `drone` takes both
   values of it and of `m_stateChanged`.
9. The result of `mutex_trylock` is stored in the device and read back
   (`charDevice.c:127,167`): two opens that overlap both succeed;
   `ExclusiveOpen` excepts them.  Closing then unlocks a mutex of somebody else.
10. `exitFpgaDriver` frees the work units before the interrupts, threads and
    devices that queue them are stopped (`main.c:93`): `NothingMissingIsUsed`
    excepts `disorderly` unloading, with users or commands under way, and the
    resources whose loss nobody is told of (`Vital`).
11. The handlers of the receiver share static records (`receiver.c:72,185,282`):
    when packets of two interfaces overlap, a host is listed under another's MAC
    address and an answer goes to the wrong asker; the properties except
    `overlapped`.
12. A `dev_queue_xmit` that fails has already freed the buffer, which the error
    path frees again (`transmitter.c:250-254,330-334,403-407`); `xmit` in
    `NothingIsLeftBehind` and `UnloadsUnderAScan`.
13. A scan that is posted during a scan is overwritten by the end of the case
    (`mainThread.c:135`); `AskedIsScanned` speaks of a thread in no case, and
    counts a host as done when its ping was sent or `icmpSendPing` gave it up.
14. Somebody else who writes the disk between the records, or keeps it open so
    that the page cache is not written back, changes what is transferred
    (`ramAxis.c:226`); `ConfigArrives` excepts `meddled`.
15. `configDMA` takes mapping and message apart under a transfer that runs or begins
    (`spiDmaCtrl.c:424-437`), and a frame that is written before DMA_NORMAL transfers
    a message that was never made (`spiDmaCtrl.c:380`): `NothingMissingIsUsed`
    excepts a `hasty` transfer, and nothing but a transfer.  At an unload a command
    that still runs may unmap what `spiDestroy` unmaps, because both ask before
    either forgets the handle (`spiDmaCtrl.c:235-238`), or map buffers that are about
    to go: `ReleasedOnce` excepts the two mappings of a `disorderly` unload.
16. In normal mode the primary transfer receives into the buffer the reader copies
    out (`spiDmaCtrl.c:170,204`), although the comment above it draws
    `Device[SPI_PRIMARY].spiRx` (`spiDmaCtrl.c:137`): what comes back with a
    command overwrites the first four bytes of a sample that was not read yet.  The
    sample is lost in part; `BufferHoldsOnlyUnread` and `SampleIsSignalled` say that
    what is left is neither returned twice nor slept over.

**Bounds and why they suffice.**
*Mailbox*: four commands of three kinds.  A loss needs one command and the
thread's follow-up, a reordering two; the third and fourth let a stale copy
meet two newer commands.  What is proved needs no bound.
*Feedback*: two replies (so that a configuration can be partly answered), two
configurations (so that a stale count can leak into the next) and a sample in
`feedback`, which leaves frames out (`MaxFrames = 0`); in `feedback_hostile` one
sample, one reply and one frame, which makes three transfers into the buffer of the
reader, with any of them unread when the next arrives.  A frame is queued only in
normal mode (`QueueFrame`): what a user writes while the primary message carries the
configuration is the subject of `ForwardPath`.
*Forward*: two writers and four writes: DMA_NORMAL, RAMDISK_CONFIG and two
frames is the shortest sequence in which each message configuration is used
after the other one.
*Watchdog*: no, one or two ticks in a second (the FPGA sends ten,
`Platform.vhd:1345-1350`), so that a round sees distances one to three, one of
them the hack's own; the two counters run over their full range, every wrap of
both rules included.  The proof is for any number up to 200.
*Commander*: three requests of all kinds: a calibration is three frames of one
request, with a request before and one after it.
*DroneControl*: two objects, so that what one leaves behind could meet the next.
*Config*: two pages of four sectors (the three records start in the first and a
request crosses into the second), one configuration, a second user with one
request of each kind, one request of the driver's; two tables of devices, one
of them as long as the DMA buffer takes.
*Driver*: five scenes (`MCDriverLifecycle`): two users; a user and the SPI
interrupt with the commands of the secondary DMA; both interrupts with a failure
of any one resource; a user with the commands of the primary DMA, frames before and
after they were configured included; and a command with a failure.  One device of
the two that are alike; `SM_DMA_CUSTOM` is `SM_DMA_SINGLE` with another length.
*Network*: five scenes (`MCNetworkScan`) of what can meet: two hosts on two
interfaces that answer a scan, a user with a failure and an unload in a scan,
every kind of packet right and wrong, every transmission with two failures.
An address of the network is its own, as in a real scan.

**Fairness.**  Only what the scheduler gives: the kernel runs its threads and
queued work (`WF` on a thread's or worker's steps), a system call, a loading or
a GUI handler that has begun goes on, a woken reader runs.  Nothing is assumed
of users, of packets, of the FPGA's interrupts or of the moment of unloading; no
fairness is strong.  A blocking read returns only if the run's constant
`KernelAnswers` says so.  In `DroneControl` the exits of the device threads are
fair because `ShutdownEnds` and `ThreadStops` show it of those threads.
Deadlock is checked in `watchdog`, which never stops; the others model
threads and modules that end.

**Assumed of the environment**, always by name: the constants `Spaced` and
`QuietConfig` (the FPGA gives a transfer the time to end; no samples before a
configuration is answered), `Paced` (a writer waits), `SpiMayFail`, `WriteMayFail`,
`OpenMayFail`, `AllocMayFail`, `Memory` (what an uninitialised member holds), the
`failures` and `who` of a scene.  The history variables `disturbed`, `torn`,
`disorderly`, `overlapped` and `meddled` mark behaviours in which the environment
was not what a property assumes, so that one run covers both kinds.

## 4. Proofs

All theorems are proved by TLAPS (SMT, Zenon, LS4) for all values of the
constants allowed by the named assumptions.

* **`KernelThreads_proofs`**, the state machine (`TypeCorrect`, `NeverStranded`, `Refinement`,
  `PacedLosesNothing`).  At most once, in order, is not inductive: the unlocked
  write back can bring an old copy into the slot.  The invariant `IInv` says that
  the number in the slot is newer than everything executed except between a
  case and its follow-up, and that the thread's copy is newer while it holds
  one; `SwitchSeesSlot` says when the copy and the slot agree, which is what
  carries `SleepsOnlyWhenIdle`.  `PacedInv` adds that at most one command is
  outstanding.  The refinement maps `RunCase` to `Execute`, `Post` to `Post` and
  the rest to stuttering.
* **`FeedbackPath_proofs`**.  `TypeCorrect`, `LockExcludes`, `NothingReadTwice` and
  `NoSampleUnnoticed` assume nothing of the FPGA, of failures or of the frames that
  are sent.  Transfers are numbered across both work queues; what a part of the buffer
  holds is newer than what was returned of it, or zeroed, or about to be by the read
  that returned it, whichever queue filled it.  `DoneIsTrue` and
  `DoneIsReported` hold for an `Orderly` path (`Spaced`, `QuietConfig`, no
  failure), for every number of replies up to what eight bits hold; the
  invariant `OrderlyInv` accounts for every reply: owed, in flight,
  transferred but uncounted, or counted, with `configCount` twice the counted.
* **`ForwardPath_proofs`** (`TypeCorrect`, `NeverUnconfigured`, `LinkIsFaithful`): with
  writers that wait, any number of them, the path refines `FpgaLink` but for its
  fairness.  Neither is inductive: the buffer, the slot and the DMA message are
  written without locks, and a transfer reads what the message points at when it
  runs.  `OneAtATime` says that a writer, the slot's command, its case and its
  transfer never overlap (while a transfer is under way the thread at most winds
  down); `Counts` that one item is under way exactly in between; `ItemOK`, `ConfigOK`
  and `AskedOK` that the message then points at this item, and why: what the
  application asked for last is the message's mode, or about to be.
* **`CommanderThread_proofs`** (`TypeCorrect`, `NeverSleptOver`,
  `Refinement`, `CalibrationsAreWhole`).  A GUI frame in the shared vector is newer
  than all written ones except between `write` and the zeroing (`FrameIsNewer`); the
  thread goes to rest neither with an offset unwritten nor with a calibration
  unfinished (`CalInv`).
* **`KernelThreads_proofs`**, the watchdog (`WatchdogTypeCorrect`, `RunningIsNotDead`,
  `TicksAreNoticed`), for any `MaxTicks` up to 200.  Neither property is inductive:
  whether two bytes differ depends on how far a counter has come that wraps at 250 in
  the interrupt and at 255 in the thread.  `Counted` ties the counter to the number
  of ticks since the last round (`After`, with one case per wrap, and `InRound` with
  the thread's own count on top); `RoundDiffers` shows from it that fewer than 251
  ticks never lead back to the same byte nor feign the distance of silence.
* **`DriverLifecycle_proofs`** (`TypeCorrect`, `OpensExclude`,
  `SchedulerTakesTurns`, `ReleasesOnce`, `NothingMissing`), for both devices, any
  users, any commands and any number of failures.  All need the order of loading and unloading: the scheduler is
  initialised after the interrupts that drive it were requested, and a device's
  mutex is initialised and destroyed with its node, under users.  The first part
  proves of the sequences themselves which resource comes before which (`Ordered`,
  `Avoids`); the second that a mutex is held exactly by the user of its device
  (`MutexOK`), unless opens overlap; the third that worker and interrupt leave
  the scheduler's state in turn (`SchOK`); the fourth that each resource has one place
  in each sequence (`Spans`) and is held in between unless it could not be had
  (`HeldOnceOwned`).  The DMA mappings come and go by steps of two threads: who is in
  `configDMA` finds the handle as it left it (`Handles`), while nobody is, a handle is
  stale only if its mapping failed (`Resting`), and the module and the state
  machine's thread are never both in it unless the unload is disorderly (`MapInv`,
  `AwakeWhenReady`).  The last is about use: both sequences go by rank (`Climbs`), so that what an activity
  rests on is owned as long as what starts it (`Lasting`), and `UseInv` says
  of every orderly state that work is pending or running only from the request of
  its interrupt, or a first frame, to the destruction of its queue (`Pending`), that
  a DMA message points at buffers of the driver and is live unless it is being
  remade (`MessagesOK`), that a transfer under way meets no such step unless in
  haste (`NoHaste`), and that users and commands are there only between loading and
  unloading.  Nothing is assumed of a state that is not orderly: orderly is what
  `NothingMissingIsUsed` excuses, and it never comes back.
* **`NetworkScan_proofs`** (`ListIsExact`, `HandledRight`, `UnloadsCleanly`,
  `NothingLeft`), for any packets on any number of interfaces, any size of the
  network and any scenes.  The pointers are static and outlive their
  packets, so the properties are not inductive.  `SetAt` says which pointer was set
  before a handler gets to where it reads it, and that what a handler holds did
  arrive on its interface; `Own` that every pointer a lone handler reads is its
  own; `Listed` ties the list to the packets that were heard.  The latter two
  theorems rest on `LifeInv`, which stands on the former: what is had has come and
  is not gone, unless it could not be had (`HandleOK`, from the places of the
  resources in the two sequences); handlers and thread run only while there is what
  they run on (`HandlersOK`, `ThreadOK`), which is why the order of the unload
  matters; in an orderly unload nobody uses the device or the buffers
  (`OrderlyOK`); and a transmission holds at each stage what the stages before it
  acquired (`SendingOK`), which is what every error path releases
  (`FreedIsOwned`).
* **`DroneControl_proofs`** (`TypeCorrect`, `NothingIsLeft`, `FpgaIsReset`), for any number of objects, whichever open fails and whatever an
  uninitialised member holds.  Neither invariant is inductive: a kill mark could meet a thread that is only starting, and the reset
  could find its device closed.  `MarkOK` says that a marked thread is being
  joined, `OpensOnce` that an object opens its devices once and before it has
  threads, `Closing` what is left while they are closed, `CommandsOK` that what was
  sent went through an open device and that the last two commands follow it.
* **`ConfigPath_proofs`** (`TypeCorrect`, `PagesStayForWrites`, `LeavesNothing`,
  `DiskIsArray`,
  `ConfigurationArrives`), for any number of pages, of sectors to a page, of pages to a batch, of
  users and of requests with any number of segments.  Assumed (`RamDiskAssumption`,
  `ConfigAssumption`): the disk holds the four sectors of a configuration; a segment
  of a read or a write lies on one page (`bio_for_each_segment`); no request is
  empty; the records of the devices fit the DMA buffer.  The number of sectors a
  request covers is a fold over its segments, which the prover has no induction for;
  it is shown to be the size of a finite set of places (`SectorsArePlaces`), whose sizes
  add up, and `RequestOK` keeps the request inside the disk while a segment is cut at
  the ends of pages.  `NoBugOn` needs more than it says: a page is made sure of some
  steps before it is copied to, without a lock in between, so `PagesThere` must survive
  whatever frees pages (`FlushesAlone`: a flush is alone; `LifeOK`: a device goes when
  nobody has it open).  For the refinement, one `memcpy` is one run of sectors on one page
  (`RunOnPage`), and a batch of the flush, although it is the lowest pages that exist
  and not a range, covers exactly what is there of a range (`BatchIsRun`): pages
  are freed in batches, and the array sees a prefix become zero.  `ArriveInv` follows the
  records: what the application has written is in the cache (`Sent`), and when its page is
  no longer dirty it is in a request on its way or on the disk; once the disk is closed the
  records are there and nobody can change them unseen (`Stored`); after each sector the
  driver has exactly the records so far and their length (`Transferred`), which stays below
  256 because the table fits the buffer: nothing wraps in the two `uint8_t`s.

Only model-checked: all liveness (out of the prover's reach) and the fairness of
`FpgaLink`.  Every invariant and every action property of the passing runs is a theorem.

## 5. Not modelled, and why

* `SM_RAMDISK_PRINT` and `SM_SENSOR_CONFIG_DONE`, `IO_COM_WRITE`, `IO_COM_READ`:
  nothing in the repository sets them.  `clearDma`, `removeActiveHost`,
  `getIndicatorFPGA`, `isKernelComsDead` and `task.c`: nothing calls them.
* `copy_to_user` faults and signals that interrupt a wait: behaviour of the
  kernel without a handler in the driver.
* The bytes of a frame.  In `CommanderThread` a frame is filled in one step; a
  frame half of one and half of another is a case of finding 6.  Likewise the
  two bytes of `watchdogRead` are copied in one step.
* Checksums of configuration and packets, which are computed and printed or sent
  but never compared; the layout of headers.
* The network part of the FPGA driver registers the same handlers; the handlers
  are composed with the x86 driver only.
* `Measure` averages samples in floating point: their values, and those of the
  offsets made from them.
* `brd_rw_page` (`ramDisk.c:371`), by which the kernel may move one whole page: it is
  `brd_do_bvec`, which `RamDisk` models, with one segment of one page, but without the
  check of the disk's end that `brd_make_request` makes.
* The window of the x86 driver (`firmware/x86/app`) only writes the scan command.
* The VHDL: clocked circuits that the design's own simulator checks.  `FpgaLink`
  and the constants of `FeedbackPath` state what the driver relies on.
* Widgets, printing, vendored and experimental code (`other`, `debug`): no
  control state of the system.

## 6. Remarks on the code

Seen while modelling, without a property of their own, because no line of the
repository says otherwise, or because they are outside the models:

* *Loading*: `ramDiskInit` is the only result looked at, after everything else
  has been started, and its error is returned without taking anything back
  (`main.c:50,69-73`).  `file_operations` have no `.owner`, so a module with open
  devices can be unloaded.  `kthread_create` errors are kept as pointers and
  given to `kthread_stop`; lines and interrupts are freed whether or not they were
  had; the network device is put twice, and so are the SPI devices.
* *Interrupts*: `TimerISR` takes a mutex (`irqCtrl.c:91`); the spin lock of the
  SPI interrupt is initialised after the interrupt is live (`irqCtrl.c:243`).
* *RAM axis*: `blkdev_get_by_path` may sleep while a page is mapped atomically
  (`ramAxis.c:228-232`); the device is put before the page is used, so that
  `BLKFLSBUF` may free it; releasing unmaps pointers that were never mapped
  (`ramDisk.c:636`, called at `ramAxis.c:117-120`).  An engine record that cannot be written leaves
  `m_deviceConfigs` and the descriptor behind (`RamDisk.cpp:303-307`), and
  `sendConfig`'s result is not looked at.
* *Network*: the NDP handler does not free its buffer and answers without an
  Ethernet header; decryption allocates with `GFP_KERNEL` in a hook, and would
  have its request freed under an asynchronous cipher; UDP and TCP use
  `networkDevice` unchecked; what `networkInit` returns is ignored and the exit
  unregisters what was never registered; unloading waits for a whole scan
  (254 addresses, 50 ms each); `commanderRead` waits for a flag nobody raises
  (`kernelComms.c:83`); only a scan can be posted from the device
  (`kernelComms.c:133-138`).
* *x86 application*: a second connect finds the device in use, marks the thread
  for shutdown and never joins it.
