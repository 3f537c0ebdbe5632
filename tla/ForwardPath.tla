---------------------------- MODULE ForwardPath -----------------------------
(***************************************************************************)
(* The way from the application to the FPGA (the FORWARD diagram of        *)
(* firmware/arm/src/spiDmaCtrl.c:122-139), composed with the state machine *)
(* thread of module StateMachine: commanderWrite copies the user's bytes   *)
(* into the device's one buffer and posts a state; the thread's cases      *)
(* prepare a configuration, set the primary DMA message up and queue its   *)
(* transfer; the worker transfers whatever the message points at by then.  *)
(***************************************************************************)
EXTENDS Naturals, Sequences

CONSTANTS
    Writers,        \* threads of the application that write to the device
    Kinds,          \* what they write: SM_PRIMARY_SPI is a data frame, others are commands
    MaxPosts,       \* bound: writes in a behaviour
    Paced,          \* TRUE: a writer waits until machine and transfer are at rest
    SpiMayFail      \* TRUE: spi_sync may return an error

VARIABLES
    currentState, origin, stateChanged, shouldStop, pc, got, handling,
    posted, executed,   \* see StateMachine
    writer,         \* where each writer is in commanderWrite
    writes,         \* history: number of writes begun
    rxData,         \* DEVICE_COMMANDER's RxData: <<kind, number>>
    asked,          \* history: DMA mode the application asked for last
    todo,           \* calls the running case has still to make
    message,        \* what the primary DMA message points at
    disk,           \* number of the configuration on the RAM disk
    image,          \* number of the configuration in ramAxis' RxData
    queued,         \* masterTransferPrimary's work item is pending
    work,           \* where its worker is
    started,        \* what the transfer found in the buffer when it started
    sent,           \* history: frames and configurations given to the driver
    received        \* what the FPGA received, or lost of a transfer

smVars   == <<currentState, origin, stateChanged, shouldStop, pc, got, handling,
              posted, executed>>
appVars  == <<writer, writes, asked, disk>>
dmaVars  == <<message, image>>
workVars == <<work, started, received>>
vars == <<smVars, appVars, rxData, todo, dmaVars, queued, workVars, sent>>

SM == INSTANCE StateMachine WITH Commands <- Kinds

ASSUME ForwardAssumption ==
    /\ Kinds \subseteq SM!UserStates
    /\ MaxPosts \in Nat
    /\ Paced \in BOOLEAN /\ SpiMayFail \in BOOLEAN

Nothing == <<"zeros", 0>>
Torn    == <<"torn", 0>>
Lost    == <<"lost", 0>>

Init ==
    /\ SM!Init
    /\ writer = [w \in Writers |-> [at |-> "out", kind |-> "SM_IDLE", n |-> 0]]
    /\ writes = 0
    /\ rxData = Nothing
    /\ asked = "none"
    /\ todo = <<>>
    /\ message = "none"     \* spiInit configures the secondary message only
    /\ disk = 0
    /\ image = 0
    /\ queued = FALSE
    /\ work = "idle"
    /\ started = Nothing
    /\ sent = <<>>
    /\ received = <<>>

-----------------------------------------------------------------------------
(* The application and commanderWrite.                                     *)

\* What a paced writer waits for before it writes again: the state machine
\* and the transfer ("Wait for Kerenl to send data to FPGA", DroneCtrl.cpp:203).
MayWrite ==
    Paced =>
        /\ SM!Settled
        /\ \A w \in Writers : writer[w].at = "out"
        /\ ~queued /\ work = "idle"

\* A frame is written only after DMA_NORMAL has been (DroneCtrl.cpp:208-212).
\* A configuration is stored on the RAM disk before its command is sent
\* (DroneCtrl.cpp:195-202).  commanderWrite first zeroes the buffer.
WriteClear(w, kind) ==
    /\ MayWrite
    /\ ~shouldStop
    /\ writes < MaxPosts
    /\ writer[w].at = "out"
    /\ kind = "SM_PRIMARY_SPI" => asked = "SM_DMA_NORMAL"
    /\ writes' = writes + 1
    /\ writer' = [writer EXCEPT ![w] = [at |-> "copy", kind |-> kind, n |-> writes + 1]]
    /\ rxData' = Nothing
    /\ asked' = IF kind \in {"SM_DMA_NORMAL", "SM_RAMDISK_CONFIG"} THEN kind ELSE asked
    /\ disk' = IF kind = "SM_RAMDISK_CONFIG" THEN writes + 1 ELSE disk
    /\ UNCHANGED <<smVars, todo, dmaVars, queued, workVars, sent>>

IsPayload(kind) == kind \in {"SM_PRIMARY_SPI", "SM_RAMDISK_CONFIG"}

\* copy_from_user; frames and configurations count as given to the driver.
WriteCopy(w) ==
    /\ writer[w].at = "copy"
    /\ LET item == <<writer[w].kind, writer[w].n>>
       IN /\ rxData' = item
          /\ sent' = IF IsPayload(writer[w].kind) THEN Append(sent, item) ELSE sent
    /\ writer' = [writer EXCEPT ![w].at = "decode"]
    /\ UNCHANGED <<smVars, writes, asked, disk, todo, dmaVars, queued, workVars>>

\* The bytes now in the shared buffer decide which state is posted; bytes
\* that are no command are a frame.
Decoded == IF rxData = Nothing THEN "SM_PRIMARY_SPI" ELSE rxData[1]

WriteDecode(w) ==
    /\ writer[w].at = "decode"
    /\ SM!Post(Decoded)
    /\ writer' = [writer EXCEPT ![w].at = "out"]
    /\ UNCHANGED <<writes, asked, disk, rxData, todo, dmaVars, queued, workVars, sent>>

\* The module is unloaded once the device is closed; an application that waits
\* for its transfers has waited for the last one too.
Unload ==
    /\ MayWrite
    /\ \A w \in Writers : writer[w].at = "out"
    /\ SM!stateMachineDestroy
    /\ UNCHANGED <<appVars, rxData, todo, dmaVars, queued, workVars, sent>>

-----------------------------------------------------------------------------
(* The thread: StateMachine's steps, and the calls its cases make.         *)

\* Mutant: the configuration is prepared, but the message still points elsewhere.
CallsRamdiskUnmapped(state) ==
    CASE state = "SM_DMA_NORMAL"     -> <<"spiDmaDestroy", "spiDmaInitNormal">>
      [] state = "SM_RAMDISK_CONFIG" -> <<"prepareRamDiskTransfer">>
      [] state = "SM_PRIMARY_SPI"    -> <<"queue_work">>
      [] OTHER                       -> <<>>

\* Mutant: DMA_NORMAL unmaps the old buffers and maps none.
CallsNormalUnmapped(state) ==
    CASE state = "SM_DMA_NORMAL"     -> <<"spiDmaDestroy">>
      [] state = "SM_RAMDISK_CONFIG" -> <<"prepareRamDiskTransfer", "spiDmaDestroy", "spiDmaInitRamdisk">>
      [] state = "SM_PRIMARY_SPI"    -> <<"queue_work">>
      [] OTHER                       -> <<>>

\* The calls a case makes on the forward path, in their order; the other
\* states work on the secondary message, the counters or a GPIO.
Calls(state) ==
    CASE state = "SM_DMA_NORMAL"     -> <<"spiDmaDestroy", "spiDmaInitNormal">>
      [] state = "SM_RAMDISK_CONFIG" -> <<"prepareRamDiskTransfer", "spiDmaDestroy", "spiDmaInitRamdisk">>
      [] state = "SM_PRIMARY_SPI"    -> <<"queue_work">>
      [] OTHER                       -> <<>>

ThreadSteps ==
    /\ \/ SM!Wake \/ SM!Exit \/ SM!ClearFlag \/ SM!getStateMachine \/ SM!StoreBack
    /\ UNCHANGED <<appVars, rxData, todo, dmaVars, queued, workVars, sent>>

Switch ==
    /\ SM!Switch
    /\ todo' = Calls(handling')
    /\ UNCHANGED <<appVars, rxData, dmaVars, queued, workVars, sent>>

\* queue_work leaves a work item alone that is pending already.
Call ==
    /\ todo # <<>>
    /\ todo' = Tail(todo)
    /\ message' = CASE Head(todo) = "spiDmaDestroy"     -> IF message = "none" THEN "none" ELSE "unmapped"
                    [] Head(todo) = "spiDmaInitNormal"  -> "commander"
                    [] Head(todo) = "spiDmaInitRamdisk" -> "ramdisk"
                    [] OTHER                            -> message
    /\ image' = IF Head(todo) = "prepareRamDiskTransfer" THEN disk ELSE image
    /\ queued' = (queued \/ Head(todo) = "queue_work")
    /\ UNCHANGED <<smVars, appVars, rxData, workVars, sent>>

SetFollowUp ==
    /\ todo = <<>>
    /\ SM!SetFollowUp
    /\ UNCHANGED <<appVars, rxData, todo, dmaVars, queued, workVars, sent>>

-----------------------------------------------------------------------------
(* masterTransferPrimary, on its work queue.                               *)

\* The bytes the message points at now.
Buffer ==
    CASE message = "commander" -> rxData
      [] message = "ramdisk"   -> <<"SM_RAMDISK_CONFIG", image>>
      [] OTHER                 -> Torn

StartWork ==
    /\ work = "idle"
    /\ queued
    /\ queued' = FALSE
    /\ work' = "xfer"
    /\ started' = Buffer
    /\ UNCHANGED <<smVars, appVars, rxData, todo, dmaVars, received, sent>>

\* A buffer that changed under the transfer arrives torn.
TransferDone ==
    /\ work = "xfer"
    /\ work' = "idle"
    /\ received' = Append(received, IF Buffer = started THEN started ELSE Torn)
    /\ UNCHANGED <<smVars, appVars, rxData, todo, dmaVars, queued, started, sent>>

\* spi_sync fails: the message is printed as lost, and nothing else happens.
TransferFailed ==
    /\ SpiMayFail
    /\ work = "xfer"
    /\ work' = "idle"
    /\ received' = Append(received, Lost)
    /\ UNCHANGED <<smVars, appVars, rxData, todo, dmaVars, queued, started, sent>>

-----------------------------------------------------------------------------
Thread == ThreadSteps \/ Switch \/ Call \/ SetFollowUp
Worker == StartWork \/ TransferDone \/ TransferFailed
Finish(w) == WriteCopy(w) \/ WriteDecode(w)

Next ==
    \/ Thread
    \/ Worker
    \/ Unload
    \/ \E w \in Writers : Finish(w) \/ \E kind \in Kinds : WriteClear(w, kind)

\* The kernel runs the thread, the work and a system call that has begun.
Spec ==
    /\ Init /\ [][Next]_vars
    /\ WF_vars(Thread) /\ WF_vars(Worker)
    /\ \A w \in Writers : WF_vars(Finish(w))

-----------------------------------------------------------------------------
(* Properties.                                                             *)

Items == {"SM_PRIMARY_SPI", "SM_RAMDISK_CONFIG"} \X (1 .. MaxPosts)

\* Every variable keeps its type; the state machine's keep theirs.
TypeOK ==
    /\ SM!TypeOK
    /\ writer \in [Writers -> [at : {"out", "copy", "decode"},
                               kind : Kinds \cup {"SM_IDLE"}, n : 0 .. MaxPosts]]
    /\ writes \in 0 .. MaxPosts /\ disk \in 0 .. MaxPosts /\ image \in 0 .. MaxPosts
    /\ message \in {"none", "unmapped", "commander", "ramdisk"}
    /\ queued \in BOOLEAN /\ work \in {"idle", "xfer"}
    /\ sent \in Seq(Items)

\* An application that waits for each transfer gets a link that loses at most
\* what a failed transfer carried: what it sends arrives once, in order and
\* unchanged, and does arrive, although the buffer, the slot and the DMA message
\* are shared and written without locks; a failure harms no later message.
FL == INSTANCE FpgaLink WITH Messages <- Items, MayLose <- SpiMayFail
ImplementsFpgaLink == FL!Spec

\* The primary message is not configured when the driver starts; the DMA_NORMAL
\* or RAMDISK_CONFIG that must come first is never lost or overtaken by a
\* frame while writers wait.
ConfiguredBeforeUse == work = "xfer" => message # "none"

\* Writers that wait lose no command ("Reconfigure DMA Engine",
\* charDevice.c:294), although the case of a command is many calls and its
\* follow-up goes through the same slot: each runs, unless the module is
\* unloaded first.
EveryCommandRuns == SM!EveryCommandRuns
=============================================================================
