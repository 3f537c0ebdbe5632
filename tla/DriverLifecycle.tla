-------------------------- MODULE DriverLifecycle ---------------------------
(***************************************************************************)
(* Loading and unloading the FPGA driver (firmware/arm/src/main.c:34-105), *)
(* composed with everything that already or still runs meanwhile: the      *)
(* interrupts and their scheduler, the work items, the kernel threads, and *)
(* the users of the character devices.                                     *)
(*                                                                         *)
(* initFpgaDriver calls the subsystems in order and each acquires its      *)
(* resources; none of the calls' results is looked at but ramDiskInit's.   *)
(* A resource that cannot be had leaves what the code leaves behind.       *)
(***************************************************************************)
EXTENDS CharDevice, Scheduler, Integers, Sequences, SequencesExt

CONSTANTS
    Commands,       \* what a user writes, named by the state it posts
    Scenes          \* bound: who is about, what is written, what cannot be had

ASSUME LifecycleAssumption ==
    /\ Devices \subseteq {"DEVICE_WATCHDOG", "DEVICE_COMMANDER"}
    /\ Commands \subseteq {"SM_DMA_NORMAL", "SM_DMA_SENSOR", "SM_DMA_SINGLE",
                           "SM_RAMDISK_CONFIG", "SM_PRIMARY_SPI", "SM_FPGA_RESET"}
    /\ \A s \in Scenes : /\ s.who \subseteq Users \cup {"irqSpi", "irqTimer"}
                          /\ s.commands \subseteq Commands
                          /\ s.failures \in Nat

VARIABLES
    scene,          \* the scene of this behaviour
    phase,          \* of the module's life
    done,           \* steps of the running phase that are behind
    handle,         \* what the driver's pointer to each resource is worth
    allocated,      \* memory.c: Process.currAllocated, in allocations
    command, doing, \* state machine: what is posted, what its thread runs
    message,        \* which buffers the DMA messages point at
    live,           \* the DMA messages whose mapping is in place
    mapStep,        \* how far the module, and the machine's thread, are in configDMA
    queued, working,\* work items of the two SPI transfers: pending, running
    failed,         \* history: resources that could not be had
    bad,            \* history: resources released without being held
    fault,          \* history: the activity that used what was not there
    disorderly,     \* history: a user did not stay within the loaded driver
    hasty           \* history: a transfer met a reconfiguration of its DMA, or a
                    \* frame was written before there was a configuration

lifeVars == <<scene, phase, done, handle, allocated, failed, bad, fault, disorderly, hasty>>
dmaVars == <<message, live, mapStep>>
machineVars == <<command, doing, dmaVars, queued, working>>
vars == <<charVars, schVars, lifeVars, machineVars>>

-----------------------------------------------------------------------------
(* The resources, in the order in which they are acquired and released.    *)

ramAxisInit    == <<"axis">>
ramDiskInit    == <<"disk">>
stateMachineInit == <<"smThread">>
charDeviceInit == <<"wdBuffers", "wdNode", "cmdBuffers", "cmdNode">>
spiInit        == <<"spi0", "spi1", "dma1">>
spiWorkInit    == <<"unitP", "queueP", "unitS", "queueS", "unitT", "queueT">>
isrGpioInit    == <<"irqSpi", "irqTimer", "irqWatchdog", "outReset", "outF1", "outF2">>
watchdogInit   == <<"wdThread">>
networkInit    == <<"netDevice", "hooks">>

\* initFpgaDriver; "scheduler" is schedulerInit, which acquires nothing.
initFpgaDriver ==
    ramAxisInit \o ramDiskInit \o stateMachineInit \o charDeviceInit \o spiInit
    \o spiWorkInit \o isrGpioInit \o watchdogInit \o <<"scheduler">> \o networkInit

networkDestroy  == <<"hooks", "netDevice">>
watchdogDestroy == <<"wdThread">>
isrGpioDestroy  == <<"outF2", "outF1", "outReset", "irqSpi", "irqTimer", "irqWatchdog">>
spiWorkDestroy  == <<"queueP", "unitP", "queueS", "unitS", "queueT", "unitT">>
spiDestroy      == <<"dma0", "dma1", "spi0", "spi1">>
\* Mutant: the watchdog's buffers twice, the commander's never.
DestroyWatchdogTwice == <<"wdNode", "wdBuffers", "cmdNode", "wdBuffers">>

charDeviceDestroy == <<"wdNode", "wdBuffers", "cmdNode", "cmdBuffers">>
stateMachineDestroy == <<"smThread">>
ramDiskDestroy  == <<"disk">>
ramAxisDestroy  == <<"axis">>

\* Mutant: the work goes before the interrupts that queue it.
ExitWorkFirst ==
    networkDestroy \o watchdogDestroy \o spiWorkDestroy \o isrGpioDestroy \o spiDestroy
    \o charDeviceDestroy \o stateMachineDestroy \o ramDiskDestroy \o ramAxisDestroy

exitFpgaDriver ==
    networkDestroy \o watchdogDestroy \o isrGpioDestroy \o spiWorkDestroy \o spiDestroy
    \o charDeviceDestroy \o stateMachineDestroy \o ramDiskDestroy \o ramAxisDestroy

Resources == (ToSet(initFpgaDriver) \cup ToSet(exitFpgaDriver)) \ {"scheduler"}

\* What memoryAllocation hands out and counts.
memoryAllocation == {"axis", "wdBuffers", "cmdBuffers", "unitP", "unitS", "unitT"}

\* What the two SPI devices have each of: tx_dma and rx_dma, the device, the work.
Mappings    == {"dma0", "dma1"}
SpiOf(dma)  == IF dma = "dma0" THEN "spi0" ELSE "spi1"
WorkOf(dma) == IF dma = "dma0" THEN "P" ELSE "S"
DmaOf(w)    == IF w = "P" THEN "dma0" ELSE "dma1"

NodeOf(d)    == IF d = "DEVICE_WATCHDOG" THEN "wdNode" ELSE "cmdNode"
BuffersOf(d) == IF d = "DEVICE_WATCHDOG" THEN "wdBuffers" ELSE "cmdBuffers"
DevicesOf(r) == {d \in Devices : BuffersOf(d) = r}

\* A failure leaves an error value or a freed pointer, or a pointer that is NULL:
\* kthread_create, class_create and device_create; both buffers freed; the SPI
\* device put or not found; eth0 put or not found.
Leaves(r) ==
    CASE r \in {"smThread", "wdThread", "wdNode", "cmdNode", "wdBuffers", "cmdBuffers"}
                -> {"stale"}
      [] r \in {"spi0", "spi1", "netDevice"} -> {"null", "stale"}
      [] OTHER -> {"null"}

\* Released pointers that are not set to NULL.
KeepsPointer == {"unitP", "unitS", "unitT", "wdBuffers", "cmdBuffers", "spi0", "spi1"}

\* Released without asking whether the driver has them.
Unasked == {"irqSpi", "irqTimer", "irqWatchdog", "outReset", "outF1", "outF2", "hooks"}

-----------------------------------------------------------------------------
Init ==
    /\ CharInit /\ SchInit
    /\ scene \in Scenes
    /\ phase = "loading" /\ done = 0
    /\ handle = [r \in Resources |-> "null"]
    /\ allocated = 0
    /\ command = "none" /\ doing = "none"
    /\ message = [dma \in Mappings |-> "none"] /\ live = {}
    /\ mapStep = [p \in {"module", "machine"} |-> "ask"]
    /\ queued = {} /\ working = {}
    /\ failed = {} /\ bad = {} /\ fault = "none" /\ disorderly = FALSE /\ hasty = FALSE

Has(r) == handle[r] = "held"

\* A fault stops the kernel.
Up == fault = "none" /\ UNCHANGED scene

\* After module_exit, or an init that returned an error, nothing is left.
Gone == phase \in {"discarded", "unloaded"}

\* who uses the resources in S
Use(who, S) == fault' = IF Gone \/ \E r \in S : ~Has(r) THEN who ELSE fault

-----------------------------------------------------------------------------
(* configDMA and spiDmaDestroy, which the module runs while it loads and   *)
(* unloads, and the state machine's thread for its commands, without a     *)
(* lock.  The two handles of a device are one here.                        *)

\* What p uses; or the mapping and message that it takes from a transfer under way.
UseUnder(p, dma, S) ==
    IF WorkOf(dma) \in working THEN fault' = "masterTransfer" ELSE Use(p, S)

\* A transfer of dma is under way while the thread configures it.
Meets(p, dma) == hasty' = (hasty \/ (p = "machine" /\ WorkOf(dma) \in working))

Ask(p, dma, answer) ==
    /\ mapStep[p] = "ask"
    /\ (handle[dma] = "null") = (answer = "map")
    /\ mapStep' = [mapStep EXCEPT ![p] = answer]
    /\ Use(p, {})
    /\ UNCHANGED <<handle, message, live, bad, failed, hasty>>

\* dma_unmap_single, of a handle that another thread may have dealt with since.
Unmap(p, dma) ==
    /\ mapStep[p] = "unmap"
    /\ mapStep' = [mapStep EXCEPT ![p] = "zero"]
    /\ bad' = IF Has(dma) THEN bad ELSE bad \cup {dma}
    /\ handle' = [handle EXCEPT ![dma] = IF @ = "null" THEN @ ELSE "stale"]
    /\ live' = live \ {dma}
    /\ UseUnder(p, dma, {SpiOf(dma)})
    /\ Meets(p, dma)
    /\ UNCHANGED <<message, failed>>

Zero(p, dma, next) ==
    /\ mapStep[p] = "zero"
    /\ mapStep' = [mapStep EXCEPT ![p] = next]
    /\ handle' = [handle EXCEPT ![dma] = "null"]
    /\ Use(p, {})
    /\ UNCHANGED <<message, live, bad, failed, hasty>>

Map(p, dma, buffers) ==
    /\ mapStep[p] = "map"
    /\ mapStep' = [mapStep EXCEPT ![p] = "set"]
    /\ handle' = [handle EXCEPT ![dma] = "held"]
    /\ Use(p, {SpiOf(dma), buffers})
    /\ UNCHANGED <<message, live, bad, failed, hasty>>

\* The error address stays in the handle, the message is the one there was.
MapFails(p, dma, buffers) ==
    /\ mapStep[p] = "map"
    /\ Cardinality(failed) < scene.failures
    /\ failed' = failed \cup {dma}
    /\ mapStep' = [mapStep EXCEPT ![p] = "ask"]
    /\ handle' = [handle EXCEPT ![dma] = "stale"]
    /\ Use(p, {SpiOf(dma), buffers})
    /\ UNCHANGED <<message, live, bad, hasty>>

\* The message is made anew, with whatever the handle is worth.
SetMessage(p, dma, buffers) ==
    /\ mapStep[p] = "set"
    /\ mapStep' = [mapStep EXCEPT ![p] = "ask"]
    /\ message' = [message EXCEPT ![dma] = buffers]
    /\ live' = IF Has(dma) THEN live \cup {dma} ELSE live \ {dma}
    /\ UseUnder(p, dma, {})
    /\ Meets(p, dma)
    /\ UNCHANGED <<handle, bad, failed>>

\* All steps of configDMA but the last, and the last.
configDMA(p, dma, buffers) ==
    \/ \E answer \in {"unmap", "map"} : Ask(p, dma, answer)
    \/ Unmap(p, dma) \/ Zero(p, dma, "map") \/ Map(p, dma, buffers)

configured(p, dma, buffers) == MapFails(p, dma, buffers) \/ SetMessage(p, dma, buffers)

\* The same of spiDmaDestroy.
spiDmaDestroy(p, dma) == Ask(p, dma, "unmap") \/ Unmap(p, dma)

destroyed(p, dma) ==
    \/ handle[dma] = "null" /\ mapStep[p] = "ask"
       /\ UNCHANGED <<handle, dmaVars, bad, failed, fault, hasty>>
    \/ Zero(p, dma, "ask")

-----------------------------------------------------------------------------
(* initFpgaDriver                                                          *)

Advance ==
    IF done + 1 < Len(initFpgaDriver) THEN phase' = phase /\ done' = done + 1
    ELSE /\ phase' = IF "disk" \in failed THEN "discarded" ELSE "ready"
         /\ done' = 0

\* MUTEX_CTRL_INIT comes before the device's buffers.
InitMutexOf(r) ==
    IF DevicesOf(r) # {} THEN \A d \in DevicesOf(r) : MutexInit(d) ELSE UNCHANGED charVars

Acquire(r) ==
    /\ handle' = [handle EXCEPT ![r] = "held"]
    /\ allocated' = IF r \in memoryAllocation THEN allocated + 1 ELSE allocated
    /\ InitMutexOf(r)
    /\ UNCHANGED <<schVars, dmaVars, failed, bad, fault, hasty>>

\* INIT_WORK writes to the work unit that could not be had.
AcquireFails(r) ==
    /\ Cardinality(failed) < scene.failures
    /\ \E worth \in Leaves(r) : handle' = [handle EXCEPT ![r] = worth]
    /\ failed' = failed \cup {r}
    /\ fault' = IF r \in {"unitP", "unitS", "unitT"} THEN r ELSE fault
    /\ InitMutexOf(r)
    /\ UNCHANGED <<schVars, dmaVars, allocated, bad, hasty>>

\* networkInit returns when the device is not usable.
SkipHooks ==
    /\ ~Has("netDevice")
    /\ UNCHANGED <<charVars, schVars, dmaVars, handle, allocated, failed, bad, fault, hasty>>

\* spiInit's configDMA(SPI_SECONDARY, DMA_CONFIG_SINGLE).
spiInitConfig ==
    /\ Up
    /\ phase = "loading"
    /\ initFpgaDriver[done + 1] = "dma1"
    /\ configDMA("module", "dma1", "axis")
    /\ UNCHANGED <<charVars, schVars, command, doing, queued, working, phase, done, allocated,
                   disorderly>>

Load ==
    /\ Up
    /\ phase = "loading"
    /\ LET r == initFpgaDriver[done + 1] IN
         CASE r = "scheduler" -> /\ schedulerInit
                                 /\ UNCHANGED <<charVars, dmaVars, handle, allocated,
                                                failed, bad, fault, hasty>>
           [] r = "hooks" /\ ~Has("netDevice") -> SkipHooks
           [] r = "dma1" -> /\ configured("module", "dma1", "axis")
                            /\ UNCHANGED <<charVars, schVars, allocated>>
           [] OTHER -> Acquire(r) \/ AcquireFails(r)
    /\ Advance
    /\ UNCHANGED <<command, doing, queued, working, disorderly>>

-----------------------------------------------------------------------------
(* exitFpgaDriver                                                          *)

Settled == command = "none" /\ doing = "none"

\* rmmod: the kernel does not count the users, the fops name no owner.
rmmod ==
    /\ Up
    /\ phase = "ready"
    /\ phase' = "unloading"
    /\ done' = 0
    /\ disorderly' = (disorderly \/ ~Settled \/ \E u \in Users : file[u] # Out)
    /\ UNCHANGED <<charVars, schVars, machineVars, handle, allocated, failed, bad, fault, hasty>>

\* kthread_stop waits for the thread to leave its case, free_irq for the
\* handler, cancel_work_sync for the worker; a pending item is cancelled.
Quiet(r) ==
    /\ r = "smThread" => doing = "none"
    /\ r = "irqTimer" => timerIsr = "out"
    /\ r = "queueP" => "P" \notin working
    /\ r = "queueS" => "S" \notin working
    /\ r = "queueT" => timerWorker = "idle"

CancelWork(r) ==
    /\ queued' = queued \ (IF r = "queueP" THEN {"P"} ELSE IF r = "queueS" THEN {"S"} ELSE {})
    /\ timerQueued' = (timerQueued /\ r # "queueT")
    /\ UNCHANGED <<schState, configDone, timerIsr, timerWorker>>

\* MUTEX_CTRL_DESTROY comes before the device's buffers are released.
DestroyMutexOf(r) ==
    IF DevicesOf(r) # {} THEN \A d \in DevicesOf(r) : MutexDestroy(d) ELSE UNCHANGED charVars

Released(r) ==
    /\ bad' = IF Has(r) \/ (handle[r] = "null" /\ r \notin Unasked) THEN bad ELSE bad \cup {r}
    /\ allocated' = IF r \in memoryAllocation /\ handle[r] # "null"
                    THEN allocated - 1 ELSE allocated
    /\ handle' = [handle EXCEPT ![r] = IF r \in KeepsPointer /\ @ # "null" THEN "stale" ELSE "null"]
    /\ UNCHANGED <<dmaVars, failed, fault, hasty>>

spiDestroyUnmaps ==
    /\ Up
    /\ phase = "unloading"
    /\ LET r == exitFpgaDriver[done + 1] IN r \in Mappings /\ spiDmaDestroy("module", r)
    /\ UNCHANGED <<charVars, schVars, command, doing, queued, working, phase, done, allocated,
                   disorderly>>

Unload ==
    /\ Up
    /\ phase = "unloading"
    /\ LET r == exitFpgaDriver[done + 1] IN
         /\ Quiet(r)
         /\ IF r \in Mappings THEN destroyed("module", r) /\ UNCHANGED allocated
                             ELSE Released(r)
         /\ DestroyMutexOf(r)
         /\ CancelWork(r)
         /\ command' = IF r = "smThread" THEN "none" ELSE command
    /\ phase' = IF done + 1 = Len(exitFpgaDriver) THEN "unloaded" ELSE phase
    /\ done' = IF done + 1 = Len(exitFpgaDriver) THEN 0 ELSE done + 1
    /\ UNCHANGED <<doing, working, disorderly>>

\* The release of r has begun: what it waits for does not start again.
Stopping(r) == phase = "unloading" /\ exitFpgaDriver[done + 1] = r

-----------------------------------------------------------------------------
(* The interrupts and the work they queue.                                 *)

InterruptFromFPGA_SpiISR ==
    /\ Up
    /\ "irqSpi" \in scene.who /\ Has("irqSpi")
    /\ "S" \notin queued
    /\ queued' = queued \cup {"S"}
    /\ Use("SpiISR", {"queueS"})
    /\ UNCHANGED <<charVars, schVars, command, doing, dmaVars, working, phase, done, handle,
                   allocated, failed, bad, disorderly, hasty>>

InterruptFromFPGA_TimerISR ==
    /\ Up
    /\ "irqTimer" \in scene.who /\ Has("irqTimer")
    /\ \/ TimerTick /\ ~Stopping("irqTimer") /\ Use("TimerISR", {})
       \/ TimerSet /\ Use("TimerISR", {})
       \/ TimerQueue /\ Use("TimerISR", {"queueT"})
    /\ UNCHANGED <<charVars, machineVars, phase, done, handle, allocated, failed, bad, disorderly, hasty>>

TimerWork ==
    /\ Up
    /\ (RunBegins /\ ~Stopping("queueT")) \/ RunConfigDone \/ RunEnds
    /\ Use("schedulerTimerRun", {"queueT", "unitT"})
    /\ UNCHANGED <<charVars, machineVars, phase, done, handle, allocated, failed, bad, disorderly, hasty>>

\* spi_sync uses the device, the buffers of the message and their mapping.
spi_sync(w, S) ==
    fault' = IF Gone \/ DmaOf(w) \notin live
                     \/ \E r \in S \cup {SpiOf(DmaOf(w)), message[DmaOf(w)]} : ~Has(r)
             THEN "masterTransfer" ELSE fault

\* The case of command c configures a DMA.
Configs == {"SM_DMA_NORMAL", "SM_DMA_SENSOR", "SM_DMA_SINGLE", "SM_RAMDISK_CONFIG"}
ConfiguredBy(c) == IF c \in {"SM_DMA_NORMAL", "SM_RAMDISK_CONFIG"} THEN "dma0" ELSE "dma1"
BuffersFor(c) == IF c \in {"SM_DMA_NORMAL", "SM_DMA_SENSOR"} THEN "cmdBuffers" ELSE "axis"

\* The thread has begun to take the message of dma apart.
Reconfigures(dma) ==
    /\ doing \in Configs /\ ConfiguredBy(doing) = dma
    /\ mapStep["machine"] \in {"zero", "map", "set"}

WorkBegins(w) ==
    /\ Up
    /\ w \in queued \ working
    /\ ~Stopping(IF w = "P" THEN "queueP" ELSE "queueS")
    /\ queued' = queued \ {w}
    /\ working' = working \cup {w}
    /\ spi_sync(w, {IF w = "P" THEN "unitP" ELSE "unitS"})
    /\ hasty' = (hasty \/ Reconfigures(DmaOf(w)))
    /\ UNCHANGED <<charVars, schVars, command, doing, dmaVars, phase, done, handle, allocated,
                   failed, bad, disorderly>>

WorkEnds(w) ==
    /\ Up
    /\ w \in working
    /\ working' = working \ {w}
    /\ spi_sync(w, {})
    /\ UNCHANGED <<charVars, schVars, command, doing, dmaVars, queued, phase, done, handle,
                   allocated, failed, bad, disorderly, hasty>>

-----------------------------------------------------------------------------
(* The kernel threads.                                                     *)

\* Every second; nothing changes but the bytes in the device's buffer.
watchdogThread ==
    /\ Up
    /\ Has("wdThread")
    /\ Use("watchdogThread", {"wdBuffers"})
    /\ fault' # fault
    /\ UNCHANGED <<charVars, schVars, machineVars, phase, done, handle, allocated, failed, bad,
                   disorderly, hasty>>

TakeCommand ==
    /\ Up
    /\ Has("smThread")
    /\ command # "none" /\ doing = "none"
    /\ ~Stopping("smThread")
    /\ doing' = command
    /\ command' = "none"
    /\ Use("machine", {})
    /\ UNCHANGED <<charVars, schVars, dmaVars, queued, working, phase, done, handle, allocated,
                   failed, bad, disorderly, hasty>>

CaseConfigures ==
    /\ Up
    /\ doing \in Configs
    /\ configDMA("machine", ConfiguredBy(doing), BuffersFor(doing))
    /\ UNCHANGED <<charVars, schVars, command, doing, queued, working, phase, done, allocated,
                   disorderly>>

\* The case's last call posts SM_DONE, which ends in SM_IDLE, or the transfer.
RunCommand ==
    /\ Up
    /\ doing # "none"
    /\ doing' = "none"
    /\ command' = IF doing = "SM_RAMDISK_CONFIG" THEN "SM_PRIMARY_SPI" ELSE "none"
    /\ CASE doing \in Configs -> /\ configured("machine", ConfiguredBy(doing), BuffersFor(doing))
                                 /\ UNCHANGED queued
         [] doing = "SM_PRIMARY_SPI" -> /\ queued' = queued \cup {"P"}
                                        /\ Use("machine", {"queueP", "unitP"})
                                        /\ UNCHANGED <<dmaVars, handle, failed, bad, hasty>>
         [] doing = "SM_FPGA_RESET" -> /\ Use("machine", {})
                                       /\ UNCHANGED <<dmaVars, queued, handle, failed, bad, hasty>>
    /\ UNCHANGED <<charVars, schVars, working, phase, done, allocated, disorderly>>

-----------------------------------------------------------------------------
(* The users.                                                              *)

open(u, d) ==
    /\ Up
    /\ u \in scene.who /\ Has(NodeOf(d))
    /\ TryLock(u, d)
    /\ disorderly' = (disorderly \/ phase # "ready")
    /\ UNCHANGED <<schVars, machineVars, phase, done, handle, allocated, failed, bad, fault, hasty>>

opened(u) ==
    /\ Up
    /\ OpenResult(u)
    /\ Use("open", {})
    /\ UNCHANGED <<schVars, machineVars, phase, done, handle, allocated, failed, bad, disorderly, hasty>>

close(u) ==
    /\ Up
    /\ Close(u)
    /\ Use("close", {})
    /\ UNCHANGED <<schVars, machineVars, phase, done, handle, allocated, failed, bad, disorderly, hasty>>

\* A frame written before the primary DMA was configured is not refused.
commanderWrite(u, c) ==
    /\ Up
    /\ file[u] = [at |-> "in", dev |-> "DEVICE_COMMANDER"]
    /\ command' = c
    /\ hasty' = (hasty \/ (c = "SM_PRIMARY_SPI" /\ message["dma0"] = "none"))
    /\ Use("write", {"cmdBuffers"})
    /\ UNCHANGED <<charVars, schVars, doing, dmaVars, queued, working, phase, done, handle,
                   allocated, failed, bad, disorderly>>

\* watchdogRead and commanderRead copy from the device's buffer.
read(u) ==
    /\ Up
    /\ file[u].at = "in"
    /\ Use("read", {BuffersOf(file[u].dev)})
    /\ fault' # fault
    /\ UNCHANGED <<charVars, schVars, machineVars, phase, done, handle, allocated, failed, bad,
                   disorderly, hasty>>

-----------------------------------------------------------------------------
Interrupts == InterruptFromFPGA_SpiISR \/ InterruptFromFPGA_TimerISR
Works == TimerWork \/ \E w \in {"P", "S"} : WorkBegins(w) \/ WorkEnds(w)
MachineThread == TakeCommand \/ CaseConfigures \/ RunCommand
Threads == watchdogThread \/ MachineThread
Calls(u) ==
    \/ opened(u) \/ close(u) \/ read(u)
    \/ \E d \in Devices : open(u, d)
    \/ \E c \in scene.commands : commanderWrite(u, c)

Module == Load \/ spiInitConfig \/ Unload \/ spiDestroyUnmaps
Next == Module \/ rmmod \/ Interrupts \/ Works \/ Threads \/ \E u \in Users : Calls(u)

\* The kernel runs its threads, a work item that is pending, and a handler that
\* has begun; modprobe and rmmod go on.
Spec ==
    /\ Init /\ [][Next]_vars
    /\ WF_vars(Module)
    /\ WF_vars(MachineThread)
    /\ WF_vars(TimerWork)
    /\ WF_vars(timerIsr # "out" /\ InterruptFromFPGA_TimerISR)
    /\ \A w \in {"P", "S"} : WF_vars(WorkEnds(w))

-----------------------------------------------------------------------------
(* Properties.                                                             *)

\* Every variable keeps its type.
TypeOK ==
    /\ SchTypeOK
    /\ phase \in {"loading", "ready", "discarded", "unloading", "unloaded"}
    /\ handle \in [Resources -> {"null", "held", "stale"}]
    /\ allocated \in Int
    /\ command \in Commands \cup {"none", "SM_PRIMARY_SPI"}
    /\ doing \in Commands \cup {"none", "SM_PRIMARY_SPI"}
    /\ message \in [Mappings -> {"none", "axis", "cmdBuffers"}] /\ live \subseteq Mappings
    /\ mapStep \in [{"module", "machine"} -> {"ask", "unmap", "zero", "map", "set"}]
    /\ queued \subseteq {"P", "S"} /\ working \subseteq {"P", "S"}
    /\ failed \subseteq Resources /\ bad \subseteq Resources
    /\ disorderly \in BOOLEAN /\ hasty \in BOOLEAN

\* Failures that nothing else in the driver is told of.
Vital == {"axis", "disk", "wdBuffers", "cmdBuffers", "spi0", "spi1", "dma0", "dma1",
          "unitP", "queueP", "unitS", "queueS", "unitT", "queueT"}

\* Interrupts come whenever they are requested, before the watchdog and the
\* scheduler are initialised and until they are freed; yet if users stay within
\* the loaded driver and rmmod comes when the machine is at rest, nothing of the
\* driver is used that is not there, unless one of the vital resources could not
\* be had: "Destroy everything" (main.c:88) is in a working order.  Only a transfer
\* may then miss something, the mapping or the message it is made from, when
\* configDMA is at work on them meanwhile or has never been.
NothingMissingIsUsed ==
    fault # "none" => \/ disorderly \/ failed \cap Vital # {}
                      \/ hasty /\ fault = "masterTransfer"

\* Unloading releases what was acquired, once: a release goes wrong only for
\* something that could not be had, and afterwards nothing is held.  A command
\* that still runs may undo a DMA mapping together with spiDestroy (both ask
\* before either forgets it), or map the buffers again, and that is all it may
\* spoil; "Memory Lekage Detected" (memory.c:98) is said only when an allocation
\* failed.
ReleasedOnce ==
    /\ bad \subseteq failed \cup (IF "netDevice" \in failed THEN {"hooks"} ELSE {})
                          \cup (IF disorderly THEN Mappings ELSE {})
    /\ phase = "unloaded" => \A r \in Resources : Has(r) => disorderly /\ r \in Mappings
    /\ phase = "unloaded" /\ failed \cap memoryAllocation = {} => allocated = 0

\* A device has one user at a time ("Device in use by another process",
\* charDevice.c:167), whose mutex is held, unless two opens overlap.
ExclusiveOpen == \A d \in Devices : Has(NodeOf(d)) => OneUser(d)

\* Unloading ends: no thread, worker or handler it waits for waits for it.
UnloadEnds == phase = "unloading" ~> phase = "unloaded" \/ fault # "none"
=============================================================================
