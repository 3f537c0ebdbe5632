---------------------------- MODULE FeedbackPath ----------------------------
(***************************************************************************)
(* The way back from the FPGA to the application (the FEEDBACK diagram of  *)
(* firmware/arm/src/spiDmaCtrl.c:145-160): an interrupt of the FPGA queues *)
(* one secondary SPI transfer, the transfer fills a DMA buffer, counts the *)
(* answer of a configured device and wakes the reader of                   *)
(* /dev/KernelCommander.  The buffer the reader copies out is also the one *)
(* a primary transfer in normal mode receives into (spiDmaCtrl.c:170,204), *)
(* so what comes back with a command's frame overwrites the samples.       *)
(*                                                                         *)
(* Five processes share this state without a common lock: the interrupt    *)
(* (irqCtrl.c), the work queues of the secondary and of the primary        *)
(* transfers (spiWork.c, spiDmaCtrl.c), the state machine thread, which    *)
(* configures and queues, and the reader (charDevice.c).                   *)
(***************************************************************************)
EXTENDS Naturals

CONSTANTS
    Replies,      \* register/data pairs the FPGA answers per configuration
    Spaced,       \* TRUE: the FPGA leaves a transfer the time to end before it interrupts again
    QuietConfig,  \* TRUE: a configuration starts on a quiet path and no sample comes before it is answered
    SpiMayFail,   \* TRUE: spi_sync may return an error
    MaxRounds,    \* bound: configurations in a behaviour
    MaxFrames,    \* bound: other frames sent over the primary SPI
    MaxSamples    \* bound: sample interrupts in a behaviour

\* The bytes of TxData: all six are returned and filled by a sensor transfer, a
\* primary transfer in normal mode fills the first four.
Parts == {"head", "tail"}

\* configCount and payloadBytes are uint8_t; each reply counts for two.
Bytes == 0 .. 255

ASSUME FeedbackAssumption ==
    /\ Replies \in Nat /\ Replies > 0 /\ 2 * Replies \in Bytes
    /\ Spaced \in BOOLEAN /\ QuietConfig \in BOOLEAN /\ SpiMayFail \in BOOLEAN
    /\ MaxRounds \in Nat /\ MaxFrames \in Nat /\ MaxSamples \in Nat

VARIABLES
    tryLock,        \* gpioInputProcess[GPIO_IN_ACTIVATE_SECONDARY_DMA].tryLock
    queued,         \* masterTransferSecondary's work item is pending
    work,           \* where the worker is in masterTransferSecondary
    carries,        \* external: what the accepted interrupt announced
    mode,           \* buffer the secondary message is configured for
    target,         \* buffer of the transfer in progress
    serving,        \* external: what the transfer in progress was announced as
    configCount,    \* dmaCtrl.configCount
    loaded,         \* its value in isConfDone's register
    configDone,     \* dmaCtrl.configDone
    payloadBytes,   \* ramAxis.payloadBytes
    payloadReady,   \* ramAxis.payloadReady
    thread,         \* progress of the state machine thread through a configuration
    rounds,         \* configurations started (bounded)
    owed,           \* external: replies the FPGA has still to announce
    answered,       \* history: replies of this configuration transferred
    announced,      \* external: sample interrupts raised (bounded)
    primaryMode,    \* buffer the primary message is configured for
    primaryQueued,  \* masterTransferPrimary's work item is pending
    primary,        \* where the worker is in masterTransferPrimary
    primaryTarget,  \* buffer of its transfer in progress
    frames,         \* frames sent besides the configurations (bounded)
    transfers,      \* history: transfers into DEVICE_COMMANDER's TxData, numbered
    txData,         \* transfer each part of TxData is from, 0 when zeroed
    wakeUpDevice,   \* Device[DEVICE_COMMANDER].wakeUpDevice
    reader,         \* where the application is in commanderRead
    lastRead,       \* history: newest transfer of which each part was returned
    failed          \* history: a secondary transfer returned an error

isrVars    == <<tryLock, queued, carries>>
workVars   == <<work, target, serving>>
fpgaVars   == <<owed, announced>>
countVars  == <<configCount, configDone, loaded>>
ramVars    == <<payloadBytes, payloadReady>>
threadVars == <<thread, rounds, mode>>
readVars   == <<reader, lastRead>>
primVars   == <<primaryMode, primaryQueued, primary, primaryTarget, frames>>
vars == <<isrVars, workVars, countVars, ramVars, threadVars, fpgaVars, primVars,
          answered, transfers, txData, wakeUpDevice, readVars, failed>>

\* After spiInit, by which the secondary message is in single byte mode, and the
\* first DMA_NORMAL, before which no frame is sent (module DriverLifecycle).
Init ==
    /\ tryLock = 0 /\ queued = FALSE /\ carries = "none"
    /\ work = "idle" /\ target = "ramdisk" /\ serving = "none" /\ mode = "ramdisk"
    /\ configCount = 0 /\ configDone = FALSE /\ loaded = 0
    /\ payloadBytes = 0 /\ payloadReady = FALSE
    /\ thread = "idle" /\ rounds = 0
    /\ owed = 0 /\ announced = 0 /\ answered = 0 /\ transfers = 0
    /\ primaryMode = "commander" /\ primaryQueued = FALSE /\ primary = "idle"
    /\ primaryTarget = "commander" /\ frames = 0
    /\ txData = [p \in Parts |-> 0] /\ wakeUpDevice = FALSE
    /\ reader = "out" /\ lastRead = [p \in Parts |-> 0]
    /\ failed = FALSE

\* A configuration is queued for, or under way in, the primary transfer.
ConfigOnItsWay ==
    \/ primaryQueued /\ primaryMode = "ramdisk"
    \/ primary = "xfer" /\ primaryTarget = "ramdisk"

\* No interrupt is being served and none is announced, no frame is on its way.
Quiet ==
    /\ tryLock = 0 /\ work = "idle" /\ owed = 0
    /\ ~primaryQueued /\ primary = "idle"

-----------------------------------------------------------------------------
(* The interrupt.                                                          *)

\* What the FPGA can announce: an answer it owes, or a sensor sample.
Announces(kind) ==
    \/ /\ kind = "reply"
       /\ owed > 0
       /\ owed' = owed - 1
       /\ UNCHANGED announced
    \/ /\ kind = "sample"
       /\ announced < MaxSamples
       /\ announced' = announced + 1
       /\ QuietConfig => thread = "idle" /\ owed = 0 /\ ~ConfigOnItsWay
       /\ UNCHANGED owed

\* InterruptFromFPGA_SpiISR: one transfer at a time, a second interrupt is skipped.
SpiISR(kind) ==
    /\ Spaced => tryLock = 0
    /\ Announces(kind)
    /\ IF tryLock = 0
       THEN tryLock' = 1 /\ queued' = TRUE /\ carries' = kind
       ELSE UNCHANGED isrVars
    /\ UNCHANGED <<workVars, countVars, ramVars, threadVars, answered,
                   transfers, txData, wakeUpDevice, readVars, failed, primVars>>

-----------------------------------------------------------------------------
(* masterTransferSecondary, on its work queue.                             *)

\* Mutant: the lock is given back when the transfer starts.
StartWorkUnlocked ==
    /\ work = "idle"
    /\ queued
    /\ queued' = FALSE
    /\ tryLock' = 0
    /\ work' = "xfer"
    /\ target' = mode
    /\ serving' = carries
    /\ UNCHANGED <<carries, countVars, ramVars, threadVars, fpgaVars, answered,
                   transfers, txData, wakeUpDevice, readVars, failed, primVars>>

StartWork ==
    /\ work = "idle"
    /\ queued
    /\ queued' = FALSE
    /\ work' = "xfer"
    /\ target' = mode
    /\ serving' = carries
    /\ UNCHANGED <<tryLock, carries, countVars, ramVars, threadVars, fpgaVars, answered,
                   transfers, txData, wakeUpDevice, readVars, failed, primVars>>

\* spi_sync succeeds: the data are in the buffer the message was set up for.
TransferDone ==
    /\ work = "xfer"
    /\ work' = "unlock"
    /\ IF target = "commander"
       THEN transfers' = transfers + 1 /\ txData' = [p \in Parts |-> transfers + 1]
       ELSE UNCHANGED <<transfers, txData>>
    /\ answered' = IF serving = "reply" THEN answered + 1 ELSE answered
    /\ UNCHANGED <<isrVars, target, serving, countVars, ramVars, threadVars, fpgaVars,
                   wakeUpDevice, readVars, failed, primVars>>

\* spi_sync fails: the handler returns before clearIsrLock.
TransferFailed ==
    /\ SpiMayFail
    /\ work = "xfer"
    /\ work' = "idle"
    /\ failed' = TRUE
    /\ UNCHANGED <<isrVars, target, serving, countVars, ramVars, threadVars, fpgaVars,
                   answered, transfers, txData, wakeUpDevice, readVars, primVars>>

\* Mutant: the lock is not given back.
clearIsrLockForgotten ==
    /\ work = "unlock"
    /\ work' = "confirm"
    /\ UNCHANGED <<isrVars, target, serving, countVars, ramVars, threadVars,
                   fpgaVars, answered, transfers, txData, wakeUpDevice, readVars, failed, primVars>>

clearIsrLock ==
    /\ work = "unlock"
    /\ tryLock' = 0
    /\ work' = "confirm"
    /\ UNCHANGED <<queued, carries, target, serving, countVars, ramVars, threadVars,
                   fpgaVars, answered, transfers, txData, wakeUpDevice, readVars, failed, primVars>>

\* Mutant: nothing to count, nobody to wake.
ConfirmCheckReturns ==
    /\ work = "confirm"
    /\ IF ~configDone /\ payloadReady
       THEN loaded' = configCount /\ work' = "count"
       ELSE work' = "idle" /\ UNCHANGED loaded
    /\ UNCHANGED <<isrVars, target, serving, configCount, configDone, ramVars, threadVars,
                   fpgaVars, answered, transfers, txData, wakeUpDevice, readVars, failed, primVars>>

\* isConfDone: an answer counts while a prepared configuration is open.
ConfirmCheck ==
    /\ work = "confirm"
    /\ IF ~configDone /\ payloadReady
       THEN loaded' = configCount /\ work' = "count"
       ELSE work' = "wake" /\ UNCHANGED loaded
    /\ UNCHANGED <<isrVars, target, serving, configCount, configDone, ramVars, threadVars,
                   fpgaVars, answered, transfers, txData, wakeUpDevice, readVars, failed, primVars>>

\* The two increments of a plain uint8_t: load, add, store.
ConfirmCount ==
    /\ work = "count"
    /\ configCount' = (loaded + 2) % 256
    /\ work' = "compare"
    /\ UNCHANGED <<isrVars, target, serving, configDone, loaded, ramVars, threadVars,
                   fpgaVars, answered, transfers, txData, wakeUpDevice, readVars, failed, primVars>>

\* The comparison may use the register or load configCount again.
ConfirmCompare ==
    /\ work = "compare"
    /\ \E c \in {(loaded + 2) % 256, configCount} :
           configDone' = IF c = payloadBytes THEN TRUE ELSE configDone
    /\ work' = "wake"
    /\ UNCHANGED <<isrVars, target, serving, configCount, loaded, ramVars, threadVars,
                   fpgaVars, answered, transfers, txData, wakeUpDevice, readVars, failed, primVars>>

\* Mutant: only a reader that waits is told.
eventWakeUpWaiting ==
    /\ work = "wake"
    /\ wakeUpDevice' = (wakeUpDevice \/ reader = "wait")
    /\ work' = "idle"
    /\ UNCHANGED <<isrVars, target, serving, countVars, ramVars, threadVars, fpgaVars,
                   answered, transfers, txData, readVars, failed, primVars>>

eventWakeUpDevice ==
    /\ work = "wake"
    /\ wakeUpDevice' = TRUE
    /\ work' = "idle"
    /\ UNCHANGED <<isrVars, target, serving, countVars, ramVars, threadVars, fpgaVars,
                   answered, transfers, txData, readVars, failed, primVars>>

Worker ==
    \/ StartWork \/ TransferDone \/ TransferFailed \/ clearIsrLock
    \/ ConfirmCheck \/ ConfirmCount \/ ConfirmCompare \/ eventWakeUpDevice

-----------------------------------------------------------------------------
(* The state machine thread: SM_RAMDISK_CLEAR, then SM_RAMDISK_CONFIG, the *)
(* order in which DroneCtrl sends them (DroneCtrl.cpp:188-202), the DMA    *)
(* modes, and the frames of the primary SPI.                               *)

\* Mutant: the count of the previous configuration is kept.
ResetCountForgotten ==
    /\ thread = "idle"
    /\ rounds < MaxRounds
    /\ owed = 0
    /\ QuietConfig => Quiet
    /\ thread' = "reset"
    /\ rounds' = rounds + 1
    /\ UNCHANGED <<isrVars, workVars, countVars, ramVars, mode, fpgaVars,
                   answered, transfers, txData, wakeUpDevice, readVars, failed, primVars>>

\* resetLongDma, first store.
ResetCount ==
    /\ thread = "idle"
    /\ rounds < MaxRounds
    /\ owed = 0
    /\ QuietConfig => Quiet
    /\ configCount' = 0
    /\ thread' = "reset"
    /\ rounds' = rounds + 1
    /\ UNCHANGED <<isrVars, workVars, loaded, configDone, ramVars, mode, fpgaVars,
                   answered, transfers, txData, wakeUpDevice, readVars, failed, primVars>>

\* Mutant: the verdict of the previous configuration is kept.
ResetDoneForgotten ==
    /\ thread = "reset"
    /\ thread' = "cleared"
    /\ UNCHANGED <<isrVars, workVars, countVars, ramVars, mode, rounds,
                   fpgaVars, answered, transfers, txData, wakeUpDevice, readVars, failed, primVars>>

\* resetLongDma, second store.
ResetDone ==
    /\ thread = "reset"
    /\ configDone' = FALSE
    /\ thread' = "cleared"
    /\ UNCHANGED <<isrVars, workVars, configCount, loaded, ramVars, mode, rounds,
                   fpgaVars, answered, transfers, txData, wakeUpDevice, readVars, failed, primVars>>

\* prepareTransfer with begin: the previous payload is forgotten.
PrepareBegin ==
    /\ thread = "cleared"
    /\ payloadBytes' = 0
    /\ payloadReady' = FALSE
    /\ answered' = 0
    /\ thread' = "begun"
    /\ UNCHANGED <<isrVars, workVars, countVars, mode, rounds, fpgaVars, transfers,
                   txData, wakeUpDevice, readVars, failed, primVars>>

\* prepareTransfer with end: headers and checksum subtracted, the pairs remain.
PrepareEnd ==
    /\ thread = "begun"
    /\ payloadBytes' = 2 * Replies
    /\ payloadReady' = TRUE
    /\ thread' = "prepared"
    /\ UNCHANGED <<isrVars, workVars, countVars, mode, rounds, fpgaVars, answered,
                   transfers, txData, wakeUpDevice, readVars, failed, primVars>>

\* configDMA(SPI_PRIMARY, DMA_CONFIG_RAMDISK)
ConfigPrimary ==
    /\ thread = "prepared"
    /\ primaryMode' = "ramdisk"
    /\ thread' = "mapped"
    /\ UNCHANGED <<isrVars, workVars, countVars, ramVars, mode, rounds, fpgaVars, answered,
                   transfers, txData, wakeUpDevice, readVars, failed, primaryQueued, primary,
                   primaryTarget, frames>>

\* SM_PRIMARY_SPI, which follows; an item that is pending already is left alone.
QueueConfig ==
    /\ thread = "mapped"
    /\ primaryQueued' = TRUE
    /\ thread' = "idle"
    /\ UNCHANGED <<isrVars, workVars, countVars, ramVars, mode, rounds, fpgaVars, answered,
                   transfers, txData, wakeUpDevice, readVars, failed, primaryMode, primary,
                   primaryTarget, frames>>

\* configDMA(SPI_PRIMARY, DMA_CONFIG_NORMAL) maps DEVICE_COMMANDER's buffers.
ConfigNormal ==
    /\ thread = "idle"
    /\ primaryMode # "commander"
    /\ QuietConfig => ~ConfigOnItsWay
    /\ primaryMode' = "commander"
    /\ UNCHANGED <<isrVars, workVars, countVars, ramVars, threadVars, fpgaVars, answered,
                   transfers, txData, wakeUpDevice, readVars, failed, primaryQueued, primary,
                   primaryTarget, frames>>

\* SM_PRIMARY_SPI for any other frame.
QueueFrame ==
    /\ thread = "idle"
    /\ primaryMode = "commander"
    /\ frames < MaxFrames
    /\ primaryQueued' = TRUE
    /\ frames' = frames + 1
    /\ UNCHANGED <<isrVars, workVars, countVars, ramVars, threadVars, fpgaVars, answered,
                   transfers, txData, wakeUpDevice, readVars, failed, primaryMode, primary,
                   primaryTarget>>

\* configDMA(SPI_SECONDARY, ..): DMA_CONFIG_SENSOR maps DEVICE_COMMANDER's
\* buffers, DMA_CONFIG_SINGLE and DMA_CONFIG_CUSTOM the ramdisk's.
configSecondary(buffer) ==
    /\ thread = "idle"
    /\ mode # buffer
    /\ mode' = buffer
    /\ UNCHANGED <<isrVars, workVars, countVars, ramVars, thread, rounds, fpgaVars,
                   answered, transfers, txData, wakeUpDevice, readVars, failed, primVars>>

StateMachineThread ==
    \/ ResetCount \/ ResetDone \/ PrepareBegin \/ PrepareEnd \/ ConfigPrimary \/ QueueConfig
    \/ ConfigNormal \/ QueueFrame
    \/ \E buffer \in {"commander", "ramdisk"} : configSecondary(buffer)

-----------------------------------------------------------------------------
(* masterTransferPrimary, on its own work queue.                           *)

StartPrimary ==
    /\ primary = "idle"
    /\ primaryQueued
    /\ primaryQueued' = FALSE
    /\ primary' = "xfer"
    /\ primaryTarget' = primaryMode
    /\ UNCHANGED <<isrVars, workVars, countVars, ramVars, threadVars, fpgaVars, answered,
                   transfers, txData, wakeUpDevice, readVars, failed, primaryMode, frames>>

\* spi_sync succeeds.  In normal mode what comes back is in the buffer of the
\* reader; a configuration has reached the FPGA, which will announce one reply per
\* register it has written.
PrimaryDone ==
    /\ primary = "xfer"
    /\ primary' = "check"
    /\ IF primaryTarget = "commander"
       THEN /\ transfers' = transfers + 1
            /\ txData' = [txData EXCEPT !["head"] = transfers + 1]
            /\ UNCHANGED owed
       ELSE owed' = Replies /\ UNCHANGED <<transfers, txData>>
    /\ UNCHANGED <<isrVars, workVars, countVars, ramVars, threadVars, announced, answered,
                   wakeUpDevice, readVars, failed, primaryMode, primaryQueued, primaryTarget,
                   frames>>

PrimaryFailed ==
    /\ SpiMayFail
    /\ primary = "xfer"
    /\ primary' = "idle"
    /\ UNCHANGED <<isrVars, workVars, countVars, ramVars, threadVars, fpgaVars, answered,
                   transfers, txData, wakeUpDevice, readVars, failed, primaryMode,
                   primaryQueued, primaryTarget, frames>>

\* The reader is woken unless the buffer begins with the preamble; whether it
\* does is up to the FPGA, and to whoever has written to the buffer since.
PreambleCheck ==
    /\ primary = "check"
    /\ primary' = "idle"
    /\ wakeUpDevice' \in {wakeUpDevice, TRUE}
    /\ UNCHANGED <<isrVars, workVars, countVars, ramVars, threadVars, fpgaVars, answered,
                   transfers, txData, readVars, failed, primaryMode, primaryQueued,
                   primaryTarget, frames>>

PrimaryWorker == StartPrimary \/ PrimaryDone \/ PrimaryFailed \/ PreambleCheck

\* The watchdog thread found the FPGA dead: the reader is woken without data.
WatchdogWakes ==
    /\ wakeUpDevice' = TRUE
    /\ UNCHANGED <<isrVars, workVars, countVars, ramVars, threadVars, fpgaVars,
                   answered, transfers, txData, readVars, failed, primVars>>

-----------------------------------------------------------------------------
(* commanderRead, called by the one thread of the application that reads.  *)

CopyStep(part) == IF part = "head" THEN "copyHead" ELSE "copyTail"
ZeroStep(part) == IF part = "head" THEN "zeroHead" ELSE "zeroTail"

ReadEnter ==
    /\ reader = "out"
    /\ reader' = "wait"
    /\ UNCHANGED <<isrVars, workVars, countVars, ramVars, threadVars, fpgaVars,
                   answered, transfers, txData, wakeUpDevice, lastRead, failed, primVars>>

\* wait_event_interruptible returns.
ReadWoken ==
    /\ reader = "wait"
    /\ wakeUpDevice
    /\ reader' = "lower"
    /\ UNCHANGED <<isrVars, workVars, countVars, ramVars, threadVars, fpgaVars,
                   answered, transfers, txData, wakeUpDevice, lastRead, failed, primVars>>

ReadLowerFlag ==
    /\ reader = "lower"
    /\ wakeUpDevice' = FALSE
    /\ reader' = CopyStep("head")
    /\ UNCHANGED <<isrVars, workVars, countVars, ramVars, threadVars, fpgaVars,
                   answered, transfers, txData, lastRead, failed, primVars>>

\* copy_to_user; zeros are returned where nothing came since the last read.
ReadCopy(part) ==
    /\ reader = CopyStep(part)
    /\ lastRead' = [lastRead EXCEPT ![part] = IF txData[part] = 0 THEN @ ELSE txData[part]]
    /\ reader' = IF part = "head" THEN CopyStep("tail") ELSE ZeroStep("head")
    /\ UNCHANGED <<isrVars, workVars, countVars, ramVars, threadVars, fpgaVars,
                   answered, transfers, txData, wakeUpDevice, failed, primVars>>

\* Mutant: only what a primary transfer fills is cleared.
ReadZeroHead(part) ==
    /\ reader = ZeroStep(part)
    /\ txData' = IF part = "head" THEN [txData EXCEPT ![part] = 0] ELSE txData
    /\ reader' = IF part = "head" THEN ZeroStep("tail") ELSE "out"
    /\ UNCHANGED <<isrVars, workVars, countVars, ramVars, threadVars, fpgaVars,
                   answered, transfers, wakeUpDevice, lastRead, failed, primVars>>

\* The buffer is cleared, whatever has been transferred into it meanwhile.
ReadZero(part) ==
    /\ reader = ZeroStep(part)
    /\ txData' = [txData EXCEPT ![part] = 0]
    /\ reader' = IF part = "head" THEN ZeroStep("tail") ELSE "out"
    /\ UNCHANGED <<isrVars, workVars, countVars, ramVars, threadVars, fpgaVars,
                   answered, transfers, wakeUpDevice, lastRead, failed, primVars>>

\* A read that goes on once it was woken.
Reading == ReadWoken \/ ReadLowerFlag \/ \E part \in Parts : ReadCopy(part) \/ ReadZero(part)

Reader == ReadEnter \/ Reading

-----------------------------------------------------------------------------
Interrupt == \E kind \in {"reply", "sample"} : SpiISR(kind)

Next ==
    \/ Interrupt \/ Worker \/ PrimaryWorker \/ StateMachineThread \/ WatchdogWakes \/ Reader

\* The kernel runs queued work and a woken reader.  Interrupts are the FPGA's
\* choice, commands and reads the user's.
Fairness == WF_vars(Worker) /\ WF_vars(PrimaryWorker) /\ WF_vars(Reading)

Spec == Init /\ [][Next]_vars /\ Fairness

-----------------------------------------------------------------------------
(* Properties.                                                             *)

\* Every variable keeps its type.
TypeOK ==
    /\ tryLock \in {0, 1} /\ queued \in BOOLEAN
    /\ carries \in {"none", "reply", "sample"} /\ serving \in {"none", "reply", "sample"}
    /\ work \in {"idle", "xfer", "unlock", "confirm", "count", "compare", "wake"}
    /\ mode \in {"commander", "ramdisk"} /\ target \in {"commander", "ramdisk"}
    /\ configCount \in Bytes /\ loaded \in Bytes /\ configDone \in BOOLEAN
    /\ payloadBytes \in Bytes /\ payloadReady \in BOOLEAN
    /\ thread \in {"idle", "reset", "cleared", "begun", "prepared", "mapped"}
    /\ primaryMode \in {"commander", "ramdisk"} /\ primaryTarget \in {"commander", "ramdisk"}
    /\ primaryQueued \in BOOLEAN /\ primary \in {"idle", "xfer", "check"}
    /\ frames \in 0 .. MaxFrames
    /\ rounds \in 0 .. MaxRounds
    /\ owed \in 0 .. Replies /\ announced \in 0 .. MaxSamples /\ answered \in Nat /\ transfers \in Nat
    /\ txData \in [Parts -> 0 .. transfers] /\ wakeUpDevice \in BOOLEAN
    /\ reader \in {"out", "wait", "lower", "copyHead", "copyTail", "zeroHead", "zeroTail"}
    /\ lastRead \in [Parts -> 0 .. transfers]
    /\ failed \in BOOLEAN

\* tryLock is held exactly for a transfer that is queued or under way, and
\* never for two of them, so queue_work always queues what the interrupt
\* accepted; only a transfer that failed leaves it held for nothing.
Outstanding == queued \/ work \in {"xfer", "unlock"}
LockIsForOneTransfer ==
    /\ ~(queued /\ work \in {"xfer", "unlock"})
    /\ Outstanding => tryLock = 1
    /\ tryLock = 1 => Outstanding \/ failed

\* configDone is reported only for a configuration all of whose devices
\* answered ("FPGA Devices responded Successfully", spiDmaCtrl.c:264).
ConfigDoneMeansAnswered ==
    configDone /\ thread = "idle" => answered >= Replies

\* ... and it is reported for it: when the path is at rest and every reply
\* was transferred, configDone stands.
AnsweredMeansConfigDone ==
    Quiet /\ thread = "idle" /\ payloadReady /\ answered = Replies => configDone

\* Nothing that was transferred is returned to the application twice, neither whole
\* nor in part, and nothing older than what was returned comes after it, although
\* two work queues fill the buffer while the reader copies and zeroes it: a part
\* that was returned is only there until it is zeroed or overwritten.
Returned(part) == reader \in IF part = "head" THEN {"copyTail", "zeroHead"}
                                             ELSE {"zeroHead", "zeroTail"}
BufferHoldsOnlyUnread ==
    \A part \in Parts : txData[part] # 0 =>
        /\ txData[part] >= lastRead[part]
        /\ txData[part] > lastRead[part] \/ Returned(part)

\* No sample waits unnoticed: while bytes of one are in the buffer the reader's
\* flag is up, the transfer that brought them is about to raise it, or a read has
\* been woken that has still to return them or to zero them.  A wake up that comes
\* between the wait and the lowering of the flag (charDevice.c:235-236) is lost,
\* its sample is not.
SampleIsSignalled ==
    txData["tail"] # 0 =>
        \/ wakeUpDevice
        \/ work \in {"unlock", "confirm", "count", "compare", "wake"}
        \/ reader \notin {"out", "wait"}

\* An accepted interrupt is served and its lock given back ("Release the spin
\* lock", spiDmaCtrl.c:356), so the next interrupt is accepted.
LockIsReleased == tryLock = 1 ~> tryLock = 0

\* A transfer that ends well releases the reader that waits for it.
TransferReleasesReader == (work = "unlock" /\ reader = "wait") ~> reader # "wait"
=============================================================================
