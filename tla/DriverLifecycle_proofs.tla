----------------------- MODULE DriverLifecycle_proofs ------------------------
(***************************************************************************)
(* For every scene, number of users and of failures: the scheduler only    *)
(* ever takes the transitions of its design, a character device has one    *)
(* user at a time, what was loaded is released once, and nothing is used   *)
(* that is not there but by a transfer that configDMA disturbs.  All four  *)
(* rest on the order in which the driver is loaded and unloaded, so the    *)
(* first part is about that order.                                         *)
(***************************************************************************)
EXTENDS DriverLifecycle, TLAPS, SequenceTheorems, FiniteSetTheorems

Names ==
    {"axis", "disk", "smThread", "wdBuffers", "wdNode", "cmdBuffers", "cmdNode", "spi0", "spi1",
     "dma0", "dma1", "unitP", "queueP", "unitS", "queueS", "unitT", "queueT", "irqSpi",
     "irqTimer", "irqWatchdog", "outReset", "outF1", "outF2", "wdThread", "scheduler",
     "netDevice", "hooks"}

\* s has no element of M.
Avoids(s, M) == s \in Seq(Names) /\ \A i \in 1 .. Len(s) : s[i] \notin M

\* s has each of a and b once, a not after b.
Ordered(s, a, b) ==
    /\ s \in Seq(Names)
    /\ \E i \in 1 .. Len(s) : s[i] = a
    /\ \E i \in 1 .. Len(s) : s[i] = b
    /\ \A i, j \in 1 .. Len(s) : /\ s[i] = a /\ s[j] = a => i = j
                                 /\ s[i] = b /\ s[j] = b => i = j
                                 /\ s[i] = a /\ s[j] = b => i <= j

\* Where x is still to come.
ToCome(s, x) == \E k \in 1 .. Len(s) : k > done /\ s[k] = x

-----------------------------------------------------------------------------
(* The order of loading and unloading.                                     *)

\* Concatenation of sequences that avoid M.
LEMMA AvoidsBoth ==
    ASSUME NEW M, NEW s, NEW t, Avoids(s, M), Avoids(t, M)
    PROVE  Avoids(s \o t, M)
<1>1. /\ s \o t \in Seq(Names) /\ Len(s \o t) = Len(s) + Len(t)
      /\ \A i \in 1 .. Len(s) + Len(t) :
            (s \o t)[i] = IF i <= Len(s) THEN s[i] ELSE t[i - Len(s)]
  BY ConcatProperties DEF Avoids
<1>2. Len(s) \in Nat /\ Len(t) \in Nat
  BY DEF Avoids
<1>. QED
  BY <1>1, <1>2 DEF Avoids

\* What is ordered stays so in front of what has neither.
LEMMA OrderedLeft ==
    ASSUME NEW a, NEW b, NEW M, a \in M, b \in M, NEW s, NEW t, Ordered(s, a, b), Avoids(t, M)
    PROVE  Ordered(s \o t, a, b)
<1>1. /\ s \o t \in Seq(Names) /\ Len(s \o t) = Len(s) + Len(t)
      /\ \A i \in 1 .. Len(s) + Len(t) :
            (s \o t)[i] = IF i <= Len(s) THEN s[i] ELSE t[i - Len(s)]
  BY ConcatProperties DEF Avoids, Ordered
<1>2. Len(s) \in Nat /\ Len(t) \in Nat
  BY DEF Avoids, Ordered
<1>3. \A i \in 1 .. Len(s) + Len(t) : (s \o t)[i] \in {a, b} => i <= Len(s) /\ (s \o t)[i] = s[i]
  BY <1>1, <1>2 DEF Avoids
<1>. QED
  BY <1>1, <1>2, <1>3 DEF Ordered

\* What is ordered stays so behind what has neither.
LEMMA OrderedRight ==
    ASSUME NEW a, NEW b, NEW M, a \in M, b \in M, NEW s, NEW t, Avoids(s, M), Ordered(t, a, b)
    PROVE  Ordered(s \o t, a, b)
<1>1. /\ s \o t \in Seq(Names) /\ Len(s \o t) = Len(s) + Len(t)
      /\ \A i \in 1 .. Len(s) + Len(t) :
            (s \o t)[i] = IF i <= Len(s) THEN s[i] ELSE t[i - Len(s)]
  BY ConcatProperties DEF Avoids, Ordered
<1>2. Len(s) \in Nat /\ Len(t) \in Nat
  BY DEF Avoids, Ordered
<1>3. \A i \in 1 .. Len(s) + Len(t) : (s \o t)[i] \in {a, b} =>
         i - Len(s) \in 1 .. Len(t) /\ (s \o t)[i] = t[i - Len(s)]
  BY <1>1, <1>2 DEF Avoids
<1>4. \A i \in 1 .. Len(t) : i + Len(s) \in 1 .. Len(s) + Len(t) /\ (s \o t)[i + Len(s)] = t[i]
  BY <1>1, <1>2
<1>5. /\ \E i \in 1 .. Len(s \o t) : (s \o t)[i] = a
      /\ \E i \in 1 .. Len(s \o t) : (s \o t)[i] = b
  BY <1>1, <1>4 DEF Ordered
<1>6. ASSUME NEW i \in 1 .. Len(s \o t), NEW j \in 1 .. Len(s \o t)
      PROVE  /\ (s \o t)[i] = a /\ (s \o t)[j] = a => i = j
             /\ (s \o t)[i] = b /\ (s \o t)[j] = b => i = j
             /\ (s \o t)[i] = a /\ (s \o t)[j] = b => i <= j
  <2>. DEFINE k == i - Len(s)
              l == j - Len(s)
  <2>1. i \in Nat /\ j \in Nat
    BY <1>1, <1>2
  <2>2. ASSUME (s \o t)[i] \in {a, b}, (s \o t)[j] \in {a, b}
        PROVE  /\ k \in 1 .. Len(t) /\ (s \o t)[i] = t[k]
               /\ l \in 1 .. Len(t) /\ (s \o t)[j] = t[l]
    BY <1>1, <1>3, <2>2
  <2>3. (k = l => i = j) /\ (k <= l => i <= j)
    BY <1>2, <2>1
  <2>. HIDE DEF k, l
  <2>. QED
    BY <2>2, <2>3 DEF Ordered
<1>. QED
  BY <1>1, <1>5, <1>6 DEF Ordered

CharMarks == {"wdBuffers", "wdNode", "cmdBuffers", "cmdNode"}
Marks == CharMarks \cup {"scheduler"}

\* What comes before the character devices when loading, and the devices.
LEMMA InitFront ==
    LET front == ramAxisInit \o ramDiskInit \o stateMachineInit \o charDeviceInit IN
    /\ Ordered(front, "wdBuffers", "wdNode")
    /\ Ordered(front, "cmdBuffers", "cmdNode")
    /\ Avoids(front, {"scheduler"})
<1>1. Avoids(ramAxisInit, Marks) /\ Avoids(ramDiskInit, Marks) /\ Avoids(stateMachineInit, Marks)
  BY DEF Avoids, Marks, CharMarks, Names, ramAxisInit, ramDiskInit, stateMachineInit
<1>2. Avoids(ramAxisInit \o ramDiskInit \o stateMachineInit, Marks)
  BY <1>1, AvoidsBoth
<1>3. charDeviceInit \in Seq(Names)
  BY DEF charDeviceInit, Names
<1>4. Ordered(charDeviceInit, "wdBuffers", "wdNode")
  BY <1>3 DEF Ordered, charDeviceInit
<1>5. Ordered(charDeviceInit, "cmdBuffers", "cmdNode")
  BY <1>3 DEF Ordered, charDeviceInit
<1>6. Avoids(charDeviceInit, {"scheduler"})
  BY <1>3 DEF Avoids, charDeviceInit
<1>7. Avoids(ramAxisInit \o ramDiskInit \o stateMachineInit, {"scheduler"})
  BY <1>2 DEF Avoids, Marks
<1>. QED
  BY <1>2, <1>4, <1>5, <1>6, <1>7, AvoidsBoth, OrderedRight DEF Marks, CharMarks

\* The scheduler is initialised once, and each device has buffers before a node.
LEMMA LoadOrder ==
    /\ Ordered(initFpgaDriver, "wdBuffers", "wdNode")
    /\ Ordered(initFpgaDriver, "cmdBuffers", "cmdNode")
    /\ Ordered(initFpgaDriver, "scheduler", "scheduler")
<1>. DEFINE front == ramAxisInit \o ramDiskInit \o stateMachineInit \o charDeviceInit
            upTo == front \o spiInit \o spiWorkInit \o isrGpioInit \o watchdogInit
<1>1. Avoids(spiInit, Marks) /\ Avoids(watchdogInit, Marks) /\ Avoids(networkInit, Marks)
  BY DEF Avoids, Marks, CharMarks, Names, spiInit, watchdogInit, networkInit
<1>2. Avoids(spiWorkInit, Marks) /\ Avoids(isrGpioInit, Marks)
  BY DEF Avoids, Marks, CharMarks, Names, spiWorkInit, isrGpioInit
<1>3. \A s, M : Avoids(s, Marks) /\ M \subseteq Marks => Avoids(s, M)
  BY DEF Avoids
<1>4. Avoids(upTo, {"scheduler"})
  <2>1. {"scheduler"} \subseteq Marks
    BY DEF Marks
  <2>2. /\ Avoids(spiInit, {"scheduler"}) /\ Avoids(watchdogInit, {"scheduler"})
        /\ Avoids(spiWorkInit, {"scheduler"}) /\ Avoids(isrGpioInit, {"scheduler"})
    BY <1>1, <1>2, <1>3, <2>1
  <2>. QED
    BY <2>2, InitFront, AvoidsBoth
<1>5. Ordered(upTo, "wdBuffers", "wdNode") /\ Ordered(upTo, "cmdBuffers", "cmdNode")
  BY <1>1, <1>2, InitFront, OrderedLeft DEF Marks, CharMarks
<1>6. /\ Ordered(<<"scheduler">>, "scheduler", "scheduler")
      /\ Avoids(<<"scheduler">>, CharMarks)
  BY DEF Ordered, Avoids, CharMarks, Names
<1>7. Ordered(upTo \o <<"scheduler">>, "scheduler", "scheduler")
  BY <1>4, <1>6, OrderedRight
<1>8. /\ Ordered(upTo \o <<"scheduler">>, "wdBuffers", "wdNode")
      /\ Ordered(upTo \o <<"scheduler">>, "cmdBuffers", "cmdNode")
  BY <1>5, <1>6, OrderedLeft DEF CharMarks
<1>9. initFpgaDriver = (upTo \o <<"scheduler">>) \o networkInit
  BY DEF initFpgaDriver
<1>. QED
  BY <1>1, <1>7, <1>8, <1>9, OrderedLeft DEF Marks, CharMarks

\* Each device's node goes before its buffers.
LEMMA UnloadOrder ==
    /\ Ordered(exitFpgaDriver, "wdNode", "wdBuffers")
    /\ Ordered(exitFpgaDriver, "cmdNode", "cmdBuffers")
<1>. DEFINE front == networkDestroy \o watchdogDestroy \o isrGpioDestroy \o spiWorkDestroy
                     \o spiDestroy
<1>1. Avoids(networkDestroy, Marks) /\ Avoids(watchdogDestroy, Marks) /\ Avoids(spiDestroy, Marks)
  BY DEF Avoids, Marks, CharMarks, Names, networkDestroy, watchdogDestroy, spiDestroy
<1>2. Avoids(spiWorkDestroy, Marks) /\ Avoids(isrGpioDestroy, Marks)
  BY DEF Avoids, Marks, CharMarks, Names, spiWorkDestroy, isrGpioDestroy
<1>3. /\ Avoids(stateMachineDestroy, Marks) /\ Avoids(ramDiskDestroy, Marks)
      /\ Avoids(ramAxisDestroy, Marks)
  BY DEF Avoids, Marks, CharMarks, Names, stateMachineDestroy, ramDiskDestroy, ramAxisDestroy
<1>4. Avoids(front, Marks)
  BY <1>1, <1>2, AvoidsBoth
<1>5. charDeviceDestroy \in Seq(Names)
  BY DEF charDeviceDestroy, Names
<1>6. Ordered(charDeviceDestroy, "wdNode", "wdBuffers")
  BY <1>5 DEF Ordered, charDeviceDestroy
<1>7. Ordered(charDeviceDestroy, "cmdNode", "cmdBuffers")
  BY <1>5 DEF Ordered, charDeviceDestroy
<1>8. /\ Ordered(front \o charDeviceDestroy, "wdNode", "wdBuffers")
      /\ Ordered(front \o charDeviceDestroy, "cmdNode", "cmdBuffers")
  BY <1>4, <1>6, <1>7, OrderedRight DEF Marks, CharMarks
<1>9. exitFpgaDriver = front \o charDeviceDestroy \o stateMachineDestroy \o ramDiskDestroy
                       \o ramAxisDestroy
  BY DEF exitFpgaDriver
<1>. QED
  BY <1>3, <1>8, <1>9, OrderedLeft DEF Marks, CharMarks
\* What the configuration of the DMA maps is released at the end.
LEMMA UnloadDma == Ordered(exitFpgaDriver, "dma0", "dma1")
<1>. DEFINE M == {"dma0", "dma1"}
            front == networkDestroy \o watchdogDestroy \o isrGpioDestroy \o spiWorkDestroy
<1>1. Avoids(networkDestroy, M) /\ Avoids(watchdogDestroy, M) /\ Avoids(charDeviceDestroy, M)
  BY DEF Avoids, Names, networkDestroy, watchdogDestroy, charDeviceDestroy
<1>2. Avoids(spiWorkDestroy, M) /\ Avoids(isrGpioDestroy, M)
  BY DEF Avoids, Names, spiWorkDestroy, isrGpioDestroy
<1>3. /\ Avoids(stateMachineDestroy, M) /\ Avoids(ramDiskDestroy, M)
      /\ Avoids(ramAxisDestroy, M)
  BY DEF Avoids, Names, stateMachineDestroy, ramDiskDestroy, ramAxisDestroy
<1>4. Avoids(front, M)
  BY <1>1, <1>2, AvoidsBoth
<1>5. Ordered(spiDestroy, "dma0", "dma1")
  BY DEF Ordered, Names, spiDestroy
<1>6. Ordered(front \o spiDestroy, "dma0", "dma1")
  BY <1>4, <1>5, OrderedRight
<1>7. exitFpgaDriver = front \o spiDestroy \o charDeviceDestroy \o stateMachineDestroy
                       \o ramDiskDestroy \o ramAxisDestroy
  BY DEF exitFpgaDriver
<1>. QED
  BY <1>1, <1>3, <1>6, <1>7, OrderedLeft

\* Only schedulerInit acquires nothing.
LEMMA ResourcesListed ==
    /\ \A i \in 1 .. Len(initFpgaDriver) :
         initFpgaDriver[i] # "scheduler" => initFpgaDriver[i] \in Resources
    /\ \A i \in 1 .. Len(exitFpgaDriver) : exitFpgaDriver[i] \in Resources
    /\ "dma0" \in Resources /\ "dma1" \in Resources
<1>1. initFpgaDriver \in Seq(Names) /\ exitFpgaDriver \in Seq(Names)
  BY LoadOrder, UnloadOrder DEF Ordered
<1>2. /\ \A i \in 1 .. Len(initFpgaDriver) : initFpgaDriver[i] \in ToSet(initFpgaDriver)
      /\ \A i \in 1 .. Len(exitFpgaDriver) : exitFpgaDriver[i] \in ToSet(exitFpgaDriver)
  BY <1>1 DEF ToSet
<1>3. Avoids(exitFpgaDriver, {"scheduler"})
  <2>. DEFINE M == {"scheduler"}
  <2>1. /\ Avoids(networkDestroy, M) /\ Avoids(watchdogDestroy, M) /\ Avoids(spiDestroy, M)
        /\ Avoids(spiWorkDestroy, M) /\ Avoids(charDeviceDestroy, M)
    BY DEF Avoids, Names, networkDestroy, watchdogDestroy, spiDestroy, spiWorkDestroy,
       charDeviceDestroy
  <2>2. /\ Avoids(isrGpioDestroy, M) /\ Avoids(stateMachineDestroy, M)
        /\ Avoids(ramDiskDestroy, M) /\ Avoids(ramAxisDestroy, M)
    BY DEF Avoids, Names, isrGpioDestroy, stateMachineDestroy, ramDiskDestroy, ramAxisDestroy
  <2>. HIDE DEF M
  <2>. QED
    BY <2>1, <2>2, AvoidsBoth DEF exitFpgaDriver, M
<1>4. "dma0" \in ToSet(exitFpgaDriver) /\ "dma1" \in ToSet(exitFpgaDriver)
  BY <1>2, UnloadDma DEF Ordered
<1>. QED
  BY <1>2, <1>3, <1>4 DEF Resources, Avoids

-----------------------------------------------------------------------------
(* The invariant.                                                          *)

FileType == [at : {"out", "tried", "in"}, dev : Devices \cup {"none"}]

\* Where the module is in its life, and what is in its pointers.
LifeOK ==
    /\ phase \in {"loading", "ready", "discarded", "unloading", "unloaded"}
    /\ done \in Nat
    /\ phase = "loading" => done < Len(initFpgaDriver)
    /\ phase = "unloading" => done < Len(exitFpgaDriver)
    /\ handle \in [Resources -> {"null", "held", "stale"}]

CharOK ==
    /\ deviceMutex \in [Devices -> BOOLEAN] /\ tryLock \in [Devices -> BOOLEAN]
    /\ file \in [Users -> FileType]

\* What the worker has read is the state that still stands, and while the
\* interrupt is about to set it, it is idle and configured.
SchOK ==
    /\ SchTypeOK
    /\ timerWorker \in {"SCH_INIT", "SCH_CONFIG", "SCH_MAIN_20MS"} => schState = timerWorker
    /\ timerIsr = "set" => schState = "SCH_IDLE" /\ configDone
    /\ phase = "loading" /\ ToCome(initFpgaDriver, "scheduler") =>
         schState = "SCH_IDLE" /\ ~configDone

\* There are no users before the node is there, and no node when it was destroyed.
NodeOK(d) ==
    /\ phase = "loading" /\ ToCome(initFpgaDriver, NodeOf(d)) =>
         ~Has(NodeOf(d)) /\ \A u \in Users : file[u].dev # d
    /\ phase = "unloading" /\ ~ToCome(exitFpgaDriver, NodeOf(d)) => ~Has(NodeOf(d))
    /\ phase = "unloaded" => ~Has(NodeOf(d))

\* One open at a time looks at the result, and it is its own.
MutexOK(d) ==
    /\ \A u, v \in At("tried", d) : u = v
    /\ \A u, v \in At("in", d) : u = v
    /\ At("in", d) # {} => deviceMutex[d]
    /\ At("tried", d) # {} /\ tryLock[d] => At("in", d) = {} /\ deviceMutex[d]

\* Who configures a DMA, and what a DMA message may point at.
Actors == {"module", "machine"}
Targets == {"axis", "cmdBuffers"}
Answers == {"ask", "unmap", "zero", "map", "set"}

DmaOK ==
    /\ message \in [Mappings -> {"none"} \cup Targets] /\ live \subseteq Mappings
    /\ mapStep \in [Actors -> Answers]
    /\ hasty \in BOOLEAN

\* The rest of the types.
MachineOK ==
    /\ scene \in Scenes
    /\ allocated \in Int
    /\ command \in Commands \cup {"none", "SM_PRIMARY_SPI"}
    /\ doing \in Commands \cup {"none", "SM_PRIMARY_SPI"}
    /\ queued \subseteq {"P", "S"} /\ working \subseteq {"P", "S"}
    /\ failed \subseteq Resources /\ bad \subseteq Resources
    /\ disorderly \in BOOLEAN
    /\ DmaOK

Guarded(d) == phase \in {"unloading", "unloaded"} => Has(NodeOf(d))

IInv ==
    /\ LifeOK /\ CharOK /\ SchOK
    /\ \A d \in Devices : NodeOK(d) /\ (Guarded(d) /\ d \notin raced => MutexOK(d))

\* The two devices, and that their nodes are resources.
LEMMA DeviceOrder ==
    ASSUME NEW d \in Devices
    PROVE  /\ Ordered(initFpgaDriver, BuffersOf(d), NodeOf(d))
           /\ Ordered(exitFpgaDriver, NodeOf(d), BuffersOf(d))
           /\ NodeOf(d) \in Resources
           /\ NodeOf(d) \notin Mappings
<1>1. /\ Ordered(initFpgaDriver, BuffersOf(d), NodeOf(d))
      /\ Ordered(exitFpgaDriver, NodeOf(d), BuffersOf(d))
  BY LoadOrder, UnloadOrder, LifecycleAssumption DEF BuffersOf, NodeOf
<1>2. PICK i \in 1 .. Len(initFpgaDriver) : initFpgaDriver[i] = NodeOf(d)
  BY <1>1 DEF Ordered
<1>3. NodeOf(d) \in ToSet(initFpgaDriver)
  BY <1>1, <1>2 DEF Ordered, ToSet
<1>4. NodeOf(d) \notin {"dma0", "dma1", "scheduler"}
  BY DEF NodeOf
<1>. QED
  BY <1>1, <1>3, <1>4 DEF Resources, Mappings

\* It holds before the driver is loaded.
LEMMA InitIInv == Init => IInv
<1>. SUFFICES ASSUME Init PROVE IInv
  OBVIOUS
<1>1. LifeOK
  BY LoadOrder DEF Init, LifeOK, Ordered
<1>2. CharOK
  BY DEF Init, CharInit, CharOK, FileType, Out
<1>3. SchOK
  BY DEF Init, SchInit, SchOK, SchTypeOK, SchStates
<1>4. ASSUME NEW d \in Devices PROVE NodeOK(d) /\ MutexOK(d)
  <2>1. \A u \in Users : file[u] = [at |-> "out", dev |-> "none"]
    BY DEF Init, CharInit, Out
  <2>2. At("tried", d) = {} /\ At("in", d) = {}
    BY <2>1 DEF At
  <2>3. d # "none"
    BY LifecycleAssumption
  <2>4. ~Has(NodeOf(d))
    BY DeviceOrder DEF Init, Has
  <2>. QED
    BY <2>1, <2>2, <2>3, <2>4 DEF Init, NodeOK, MutexOK
<1>. QED
  BY <1>1, <1>2, <1>3, <1>4 DEF IInv

-----------------------------------------------------------------------------
(* The steps of configDMA and spiDmaDestroy.                               *)

DmaSteps(p, dma) ==
    \/ \E b \in Targets : configDMA(p, dma, b) \/ configured(p, dma, b)
    \/ spiDmaDestroy(p, dma) \/ destroyed(p, dma)

\* They touch one handle, and keep the types.
LEMMA DmaStepFacts ==
    ASSUME LifeOK, DmaOK, NEW p \in Actors, NEW dma \in Mappings, DmaSteps(p, dma)
    PROVE  /\ DmaOK'
           /\ bad' \in {bad, bad \cup {dma}} /\ failed' \in {failed, failed \cup {dma}}
           /\ \E worth \in {"null", "held", "stale"} :
                handle' \in {handle, [handle EXCEPT ![dma] = worth]}
<1>. DEFINE Claim ==
           /\ message' \in [Mappings -> {"none"} \cup Targets] /\ live' \subseteq Mappings
           /\ mapStep' \in [Actors -> Answers] /\ hasty' \in BOOLEAN
           /\ bad' \in {bad, bad \cup {dma}} /\ failed' \in {failed, failed \cup {dma}}
           /\ \E worth \in {"null", "held", "stale"} :
                handle' \in {handle, [handle EXCEPT ![dma] = worth]}
<1>0. /\ message \in [Mappings -> {"none"} \cup Targets] /\ live \subseteq Mappings
      /\ mapStep \in [Actors -> Answers] /\ hasty \in BOOLEAN
      /\ "ask" \in Answers /\ "unmap" \in Answers /\ "zero" \in Answers
      /\ "map" \in Answers /\ "set" \in Answers
  BY DEF DmaOK, Answers
<1>. HIDE DEF Answers, Targets, Actors, Mappings
<1>1. ASSUME NEW a \in {"unmap", "map"}, Ask(p, dma, a) PROVE Claim
  BY <1>0, <1>1 DEF Ask
<1>2. ASSUME Unmap(p, dma) PROVE Claim
  <2>1. hasty' \in BOOLEAN
    BY <1>0, <1>2 DEF Unmap, Meets
  <2>. QED
    BY <1>0, <1>2, <2>1 DEF Unmap, LifeOK
<1>3. ASSUME NEW next \in {"map", "ask"}, Zero(p, dma, next) PROVE Claim
  BY <1>0, <1>3 DEF Zero
<1>4. ASSUME NEW b \in Targets, Map(p, dma, b) PROVE Claim
  BY <1>0, <1>4 DEF Map
<1>5. ASSUME NEW b \in Targets, MapFails(p, dma, b) PROVE Claim
  BY <1>0, <1>5 DEF MapFails
<1>6. ASSUME NEW b \in Targets, SetMessage(p, dma, b) PROVE Claim
  <2>1. hasty' \in BOOLEAN
    BY <1>0, <1>6 DEF SetMessage, Meets
  <2>2. live' \subseteq Mappings
    BY <1>0, <1>6 DEF SetMessage
  <2>. QED
    BY <1>0, <1>6, <2>1, <2>2 DEF SetMessage
<1>7. ASSUME UNCHANGED <<handle, dmaVars, bad, failed, hasty>> PROVE Claim
  BY <1>0, <1>7 DEF dmaVars
<1>8. Claim
  BY <1>1, <1>2, <1>3, <1>4, <1>5, <1>6, <1>7
     DEF DmaSteps, configDMA, configured, spiDmaDestroy, destroyed
<1>. QED
  BY <1>8 DEF DmaOK

\* Who takes them, for which device.
LEMMA DmaStepsAre ==
    /\ \A c \in Configs : ConfiguredBy(c) \in Mappings /\ BuffersFor(c) \in Targets
    /\ spiInitConfig => DmaSteps("module", "dma1")
    /\ Load /\ initFpgaDriver[done + 1] = "dma1" => DmaSteps("module", "dma1")
    /\ spiDestroyUnmaps => /\ exitFpgaDriver[done + 1] \in Mappings
                           /\ DmaSteps("module", exitFpgaDriver[done + 1])
    /\ Unload /\ exitFpgaDriver[done + 1] \in Mappings =>
         DmaSteps("module", exitFpgaDriver[done + 1])
    /\ CaseConfigures => doing \in Configs /\ DmaSteps("machine", ConfiguredBy(doing))
    /\ RunCommand /\ doing \in Configs => DmaSteps("machine", ConfiguredBy(doing))
    /\ "module" \in Actors /\ "machine" \in Actors /\ "dma1" \in Mappings
<1>1. /\ \A c \in Configs : ConfiguredBy(c) \in Mappings /\ BuffersFor(c) \in Targets
      /\ "axis" \in Targets
      /\ "module" \in Actors /\ "machine" \in Actors /\ "dma1" \in Mappings
  BY DEF Configs, ConfiguredBy, BuffersFor, Mappings, Targets, Actors
<1>2. spiInitConfig => DmaSteps("module", "dma1")
  BY <1>1 DEF spiInitConfig, DmaSteps
<1>3. Load /\ initFpgaDriver[done + 1] = "dma1" => DmaSteps("module", "dma1")
  BY <1>1 DEF Load, DmaSteps
<1>4. spiDestroyUnmaps => /\ exitFpgaDriver[done + 1] \in Mappings
                          /\ DmaSteps("module", exitFpgaDriver[done + 1])
  BY DEF spiDestroyUnmaps, DmaSteps
<1>5. Unload /\ exitFpgaDriver[done + 1] \in Mappings =>
        DmaSteps("module", exitFpgaDriver[done + 1])
  BY DEF Unload, DmaSteps
<1>6. CaseConfigures => doing \in Configs /\ DmaSteps("machine", ConfiguredBy(doing))
  BY <1>1 DEF CaseConfigures, DmaSteps
<1>7. ASSUME RunCommand, doing \in Configs PROVE DmaSteps("machine", ConfiguredBy(doing))
  <2>1. configured("machine", ConfiguredBy(doing), BuffersFor(doing))
    BY <1>7 DEF RunCommand, Configs
  <2>. QED
    BY <1>1, <1>7, <2>1 DEF DmaSteps
<1>. QED
  BY <1>1, <1>2, <1>3, <1>4, <1>5, <1>6, <1>7

-----------------------------------------------------------------------------
(* Loading.                                                                *)

\* What a step of loading does to the handles, the mutexes and the order.
LEMMA LoadFacts ==
    ASSUME IInv, Load
    PROVE  LET r == initFpgaDriver[done + 1] IN
           /\ phase = "loading" /\ done + 1 \in 1 .. Len(initFpgaDriver)
           /\ phase' \in {"loading", "ready", "discarded"}
           /\ phase' = "loading" => done' = done + 1 /\ done' < Len(initFpgaDriver)
           /\ done' \in Nat
           /\ done + 1 < Len(initFpgaDriver) => phase' = "loading"
           /\ \E worth \in {"null", "held", "stale"} :
                handle' \in {handle, [handle EXCEPT ![r] = worth]}
           /\ tryLock' = tryLock /\ file' = file /\ raced' = raced
           /\ \/ deviceMutex' = deviceMutex
              \/ \E d \in Devices : /\ BuffersOf(d) = r
                                    /\ deviceMutex' = [deviceMutex EXCEPT ![d] = FALSE]
           /\ UNCHANGED schVars \/ (r = "scheduler" /\ schedulerInit)
<1>. DEFINE r == initFpgaDriver[done + 1]
<1>1. phase = "loading" /\ done + 1 \in 1 .. Len(initFpgaDriver)
  BY DEF IInv, LifeOK, Load
<1>2. Len(initFpgaDriver) \in Nat /\ done \in Nat
  BY LoadOrder DEF Ordered, IInv, LifeOK
<1>3. Advance
  BY DEF Load
<1>4. /\ phase' \in {"loading", "ready", "discarded"} /\ done' \in Nat
      /\ phase' = "loading" => done' = done + 1 /\ done' < Len(initFpgaDriver)
      /\ done + 1 < Len(initFpgaDriver) => phase' = "loading"
  BY <1>1, <1>2, <1>3 DEF Advance
<1>5. \/ /\ r = "scheduler" /\ schedulerInit /\ UNCHANGED <<charVars, handle>>
      \/ r = "dma1" /\ configured("module", "dma1", "axis") /\ UNCHANGED <<charVars, schVars>>
      \/ SkipHooks \/ Acquire(r) \/ AcquireFails(r)
  BY DEF Load
<1>6. Leaves(r) \subseteq {"null", "stale"}
  BY DEF Leaves
<1>7. /\ \E worth \in {"null", "held", "stale"} :
           handle' \in {handle, [handle EXCEPT ![r] = worth]}
      /\ UNCHANGED schVars \/ (r = "scheduler" /\ schedulerInit)
      /\ UNCHANGED charVars \/ InitMutexOf(r)
  BY <1>5, <1>6 DEF SkipHooks, Acquire, AcquireFails, configured, MapFails, SetMessage
<1>8. DevicesOf(r) # {} => \E d \in Devices : BuffersOf(d) = r
  BY DEF DevicesOf
<1>9. \A d \in DevicesOf(r) : d \in Devices /\ BuffersOf(d) = r
  BY DEF DevicesOf
<1>10. CASE UNCHANGED charVars
  BY <1>1, <1>4, <1>7, <1>10 DEF charVars
<1>11. CASE DevicesOf(r) # {} /\ InitMutexOf(r)
  BY <1>1, <1>4, <1>7, <1>9, <1>11 DEF InitMutexOf, MutexInit
<1>12. CASE DevicesOf(r) = {} /\ InitMutexOf(r)
  BY <1>1, <1>4, <1>7, <1>12 DEF InitMutexOf, charVars
<1>. QED
  BY <1>7, <1>10, <1>11, <1>12

\* Loading takes the order one on.
LEMMA LoadOrdered ==
    ASSUME IInv, Load, phase' = "loading", NEW a, NEW b, Ordered(initFpgaDriver, a, b)
    PROVE  /\ ToCome(initFpgaDriver, b)' => ToCome(initFpgaDriver, b)
           /\ initFpgaDriver[done + 1] = b => ~ToCome(initFpgaDriver, b)'
           /\ a # b /\ initFpgaDriver[done + 1] = a => ToCome(initFpgaDriver, b)'
<1>1. done + 1 \in 1 .. Len(initFpgaDriver) /\ done' = done + 1 /\ done \in Nat
  BY LoadFacts DEF IInv, LifeOK
<1>2. Len(initFpgaDriver) \in Nat
  BY DEF Ordered
<1>3. ToCome(initFpgaDriver, b)' <=>
        \E k \in 1 .. Len(initFpgaDriver) : k > done + 1 /\ initFpgaDriver[k] = b
  BY <1>1 DEF ToCome
<1>. QED
  BY <1>1, <1>2, <1>3 DEF ToCome, Ordered

\* A device's mutex is initialised before its node is there.
LEMMA LoadIInv == IInv /\ Load => IInv'
<1>. SUFFICES ASSUME IInv, Load PROVE IInv'
  OBVIOUS
<1>. DEFINE r == initFpgaDriver[done + 1]
<1>1. LifeOK'
  BY LoadFacts DEF IInv, LifeOK
<1>2. CharOK'
  <2>1. tryLock' = tryLock /\ file' = file
    BY LoadFacts
  <2>2. deviceMutex' \in [Devices -> BOOLEAN]
    BY LoadFacts DEF IInv, CharOK
  <2>. QED
    BY <2>1, <2>2 DEF IInv, CharOK
<1>3. SchOK'
  <2>1. CASE UNCHANGED schVars
    <3>1. phase' = "loading" /\ ToCome(initFpgaDriver, "scheduler")' =>
            ToCome(initFpgaDriver, "scheduler")
      BY LoadOrdered, LoadOrder
    <3>. QED
      BY <2>1, <3>1, LoadFacts DEF IInv, SchOK, SchTypeOK, schVars
  <2>2. CASE r = "scheduler" /\ schedulerInit
    <3>1. ToCome(initFpgaDriver, "scheduler") /\ phase = "loading"
      BY <2>2, LoadFacts DEF IInv, LifeOK, ToCome
    <3>2. schState = "SCH_IDLE" /\ ~configDone
      BY <3>1 DEF IInv, SchOK
    <3>3. phase' = "loading" => ~ToCome(initFpgaDriver, "scheduler")'
      BY <2>2, LoadOrdered, LoadOrder
    <3>. QED
      BY <2>2, <3>2, <3>3 DEF IInv, SchOK, SchTypeOK, SchStates, schedulerInit
  <2>. QED
    BY <2>1, <2>2, LoadFacts
<1>4. ASSUME NEW d \in Devices
      PROVE  NodeOK(d)' /\ ((Guarded(d) /\ d \notin raced => MutexOK(d)))'
  <2>. DEFINE node == NodeOf(d)
  <2>1. CASE phase' = "loading" /\ ToCome(initFpgaDriver, node)'
    <3>1. ToCome(initFpgaDriver, node) /\ r # node
      BY <2>1, LoadOrdered, DeviceOrder
    <3>2. ~Has(node) /\ \A u \in Users : file[u].dev # d
      BY <3>1, LoadFacts DEF IInv, NodeOK
    <3>3. ~Has(node)'
      BY <3>1, <3>2, LoadFacts, DeviceOrder DEF Has, IInv, LifeOK
    <3>4. \A u \in Users : file'[u].dev # d
      BY <3>2, LoadFacts
    <3>5. At("tried", d)' = {} /\ At("in", d)' = {}
      BY <3>4 DEF At
    <3>. QED
      BY <2>1, <3>3, <3>4, <3>5 DEF NodeOK, MutexOK
  <2>2. CASE ~(phase' = "loading" /\ ToCome(initFpgaDriver, node)')
    <3>1. NodeOK(d)'
      BY <2>2, LoadFacts DEF NodeOK
    <3>2. r # BuffersOf(d)
      <4>1. SUFFICES ASSUME r = BuffersOf(d) PROVE FALSE
        OBVIOUS
      <4>2. /\ Ordered(initFpgaDriver, BuffersOf(d), NodeOf(d))
            /\ done + 1 \in 1 .. Len(initFpgaDriver) /\ done \in Nat
        BY DeviceOrder, LoadFacts DEF IInv, LifeOK
      <4>3. PICK k \in 1 .. Len(initFpgaDriver) : initFpgaDriver[k] = node
        BY <4>2 DEF Ordered
      <4>4. done + 1 <= k /\ BuffersOf(d) # node
        BY <4>1, <4>2, <4>3 DEF Ordered, BuffersOf, NodeOf
      <4>5. done + 1 < k /\ k \in Nat /\ Len(initFpgaDriver) \in Nat
        BY <4>1, <4>2, <4>3, <4>4 DEF Ordered
      <4>6. phase' = "loading"
        BY <4>2, <4>3, <4>5, LoadFacts
      <4>. QED
        BY <2>2, <4>1, <4>2, <4>4, <4>6, LoadOrdered
    <3>3. deviceMutex'[d] = deviceMutex[d]
      BY <3>2, LoadFacts DEF IInv, CharOK
    <3>4. tryLock' = tryLock /\ file' = file /\ raced' = raced /\ Guarded(d)
      BY LoadFacts DEF Guarded
    <3>5. At("tried", d)' = At("tried", d) /\ At("in", d)' = At("in", d)
      BY <3>4 DEF At
    <3>6. d \notin raced => MutexOK(d)
      BY <3>4 DEF IInv
    <3>. QED
      BY <3>1, <3>3, <3>4, <3>5, <3>6 DEF MutexOK
  <2>. QED
    BY <2>1, <2>2
<1>. QED
  BY <1>1, <1>2, <1>3, <1>4 DEF IInv

-----------------------------------------------------------------------------
(* Unloading.                                                              *)

\* A step of unloading takes one handle.
LEMMA UnloadHandles ==
    ASSUME IInv, Unload
    PROVE  LET r == exitFpgaDriver[done + 1] IN
           /\ handle' \in [Resources -> {"null", "held", "stale"}]
           /\ \A x \in Resources : x # r => handle'[x] = handle[x]
           /\ \A x \in Resources : handle'[x] = "held" => handle[x] = "held" /\ x # r
<1>. DEFINE r == exitFpgaDriver[done + 1]
<1>1. handle \in [Resources -> {"null", "held", "stale"}]
  BY DEF IInv, LifeOK
<1>2. \/ handle' = handle /\ handle[r] = "null"
      \/ \E worth \in {"stale", "null"} : handle' = [handle EXCEPT ![r] = worth]
  <2>1. Released(r) \/ destroyed("module", r)
    BY DEF Unload
  <2>. QED
    BY <2>1 DEF Released, destroyed, Zero
<1>. QED
  BY <1>1, <1>2

\* A device's node is gone before its mutex is destroyed.
LEMMA UnloadIInv == IInv /\ Unload => IInv'
<1>. SUFFICES ASSUME IInv, Unload PROVE IInv'
  OBVIOUS
<1>. DEFINE r == exitFpgaDriver[done + 1]
<1>1. /\ phase = "unloading" /\ done \in Nat /\ done < Len(exitFpgaDriver)
      /\ DestroyMutexOf(r) /\ CancelWork(r)
      /\ phase' = IF done + 1 = Len(exitFpgaDriver) THEN "unloaded" ELSE phase
      /\ done' = IF done + 1 = Len(exitFpgaDriver) THEN 0 ELSE done + 1
  BY DEF IInv, LifeOK, Unload
<1>2. Len(exitFpgaDriver) \in Nat /\ done + 1 \in 1 .. Len(exitFpgaDriver)
  BY <1>1, UnloadOrder DEF Ordered
<1>3. /\ handle' \in [Resources -> {"null", "held", "stale"}]
      /\ \A x \in Resources : handle'[x] = "held" => handle[x] = "held" /\ x # r
  BY UnloadHandles
<1>4. LifeOK'
  <2>1. handle' \in [Resources -> {"null", "held", "stale"}]
    BY <1>3
  <2>2. done' \in Nat /\ (phase' = "unloading" => done' < Len(exitFpgaDriver))
    BY <1>1, <1>2
  <2>. QED
    BY <1>1, <2>1, <2>2 DEF LifeOK
<1>5. /\ file' = file /\ raced' = raced
      /\ deviceMutex' \in [Devices -> BOOLEAN] /\ tryLock' \in [Devices -> BOOLEAN]
      /\ \A d \in Devices : BuffersOf(d) # r =>
            deviceMutex'[d] = deviceMutex[d] /\ tryLock'[d] = tryLock[d]
  <2>1. CASE DevicesOf(r) = {}
    BY <1>1, <2>1 DEF DestroyMutexOf, charVars, IInv, CharOK
  <2>2. CASE DevicesOf(r) # {}
    <3>1. PICK e \in Devices : BuffersOf(e) = r
      BY <2>2 DEF DevicesOf
    <3>2. MutexDestroy(e)
      BY <1>1, <2>2, <3>1 DEF DestroyMutexOf, DevicesOf
    <3>3. (~deviceMutex[e]) \in BOOLEAN
      OBVIOUS
    <3>. QED
      BY <3>1, <3>2, <3>3 DEF MutexDestroy, IInv, CharOK
  <2>. QED
    BY <2>1, <2>2
<1>6. CharOK'
  BY <1>5 DEF IInv, CharOK
<1>7. SchOK'
  <2>1. timerQueued' \in BOOLEAN
    BY <1>1 DEF CancelWork
  <2>. QED
    BY <1>1, <2>1 DEF CancelWork, IInv, SchOK, SchTypeOK
<1>8. ASSUME NEW d \in Devices
      PROVE  NodeOK(d)' /\ ((Guarded(d) /\ d \notin raced => MutexOK(d)))'
  <2>. DEFINE node == NodeOf(d)
  <2>1. /\ Ordered(exitFpgaDriver, node, BuffersOf(d)) /\ node \in Resources
    BY DeviceOrder
  <2>2. Has(node)' => Has(node) /\ r # node
    BY <1>3, <2>1 DEF Has, IInv, LifeOK
  <2>3. Has(node)' => ToCome(exitFpgaDriver, node)
    BY <1>1, <2>2 DEF IInv, NodeOK
  <2>4. Has(node)' => /\ phase' = "unloading" /\ ToCome(exitFpgaDriver, node)'
                     /\ r # BuffersOf(d)
    <3>1. SUFFICES ASSUME Has(node)'
                   PROVE  /\ phase' = "unloading" /\ ToCome(exitFpgaDriver, node)'
                          /\ r # BuffersOf(d)
      OBVIOUS
    <3>2. PICK k \in 1 .. Len(exitFpgaDriver) : k > done /\ exitFpgaDriver[k] = node
      BY <2>3, <3>1 DEF ToCome
    <3>3. k \in Nat /\ k # done + 1
      BY <1>2, <2>2, <3>1, <3>2
    <3>4. done + 1 < k
      BY <1>1, <3>2, <3>3
    <3>5. phase' = "unloading" /\ done' = done + 1
      BY <1>1, <1>2, <3>2, <3>4
    <3>6. ToCome(exitFpgaDriver, node)'
      BY <3>2, <3>4, <3>5 DEF ToCome
    <3>7. r # BuffersOf(d)
      BY <1>1, <1>2, <2>1, <3>2, <3>4 DEF Ordered
    <3>. QED
      BY <3>5, <3>6, <3>7
  <2>5. NodeOK(d)'
    BY <1>1, <2>4 DEF NodeOK
  <2>6. ASSUME Guarded(d)', d \notin raced' PROVE MutexOK(d)'
    <3>1. Has(node)'
      BY <1>1, <2>6 DEF Guarded
    <3>2. Guarded(d) /\ d \notin raced
      BY <1>5, <2>2, <2>6, <3>1 DEF Guarded
    <3>3. deviceMutex'[d] = deviceMutex[d] /\ tryLock'[d] = tryLock[d]
      BY <1>5, <2>4, <3>1
    <3>4. At("tried", d)' = At("tried", d) /\ At("in", d)' = At("in", d)
      BY <1>5 DEF At
    <3>. QED
      BY <3>2, <3>3, <3>4 DEF IInv, MutexOK
  <2>. QED
    BY <2>5, <2>6
<1>. QED
  BY <1>4, <1>6, <1>7, <1>8 DEF IInv

\* A step of anything else but the users leaves the life, the users, and the nodes.
Aside ==
    /\ UNCHANGED <<charVars, phase, done>>
    /\ \/ handle' = handle
       \/ \E dma \in Mappings, worth \in {"null", "held", "stale"} :
            handle' = [handle EXCEPT ![dma] = worth]

\* Such a step keeps the invariant if the scheduler's part is kept.
LEMMA AsideIInv == IInv /\ Aside /\ SchOK' => IInv'
<1>. SUFFICES ASSUME IInv, Aside, SchOK' PROVE IInv'
  OBVIOUS
<1>1. LifeOK'
  BY DEF IInv, LifeOK, Aside
<1>2. CharOK'
  BY DEF IInv, CharOK, Aside, charVars
<1>3. ASSUME NEW d \in Devices
      PROVE  NodeOK(d)' /\ ((Guarded(d) /\ d \notin raced => MutexOK(d)))'
  <2>1. Has(NodeOf(d))' <=> Has(NodeOf(d))
    BY DeviceOrder DEF Has, Aside, IInv, LifeOK
  <2>2. At("tried", d)' = At("tried", d) /\ At("in", d)' = At("in", d)
    BY DEF At, Aside, charVars
  <2>3. /\ phase' = phase /\ file' = file
        /\ ToCome(initFpgaDriver, NodeOf(d))' = ToCome(initFpgaDriver, NodeOf(d))
        /\ ToCome(exitFpgaDriver, NodeOf(d))' = ToCome(exitFpgaDriver, NodeOf(d))
    BY DEF Aside, charVars, ToCome
  <2>4. NodeOK(d)'
    BY <2>1, <2>3 DEF IInv, NodeOK
  <2>5. deviceMutex' = deviceMutex /\ tryLock' = tryLock /\ raced' = raced
    BY DEF Aside, charVars
  <2>. QED
    BY <2>1, <2>2, <2>3, <2>4, <2>5 DEF IInv, MutexOK, Guarded
<1>. QED
  BY <1>1, <1>2, <1>3 DEF IInv

\* The scheduler's order does not change with what is aside.
LEMMA SchStays == IInv /\ Aside /\ UNCHANGED schVars => SchOK'
  BY DEF IInv, SchOK, SchTypeOK, Aside, schVars, ToCome

-----------------------------------------------------------------------------
(* The interrupts, the workers and the threads.                            *)

\* The timer's interrupt and worker do not disturb each other's states.
LEMMA TimerIInv == IInv /\ (InterruptFromFPGA_TimerISR \/ TimerWork) => IInv'
<1>. SUFFICES ASSUME IInv, InterruptFromFPGA_TimerISR \/ TimerWork PROVE IInv'
  OBVIOUS
<1>1. Aside
  BY DEF InterruptFromFPGA_TimerISR, TimerWork, Aside
<1>2. /\ phase' = phase
      /\ ToCome(initFpgaDriver, "scheduler")' = ToCome(initFpgaDriver, "scheduler")
  BY <1>1 DEF Aside, ToCome
<1>. USE DEF IInv, SchOK, SchTypeOK, SchStates
<1>3. CASE TimerTick
  BY <1>1, <1>2, <1>3, AsideIInv DEF TimerTick, isShedulerReady
<1>4. CASE TimerSet
  BY <1>1, <1>2, <1>4, AsideIInv DEF TimerSet
<1>5. CASE TimerQueue
  BY <1>1, <1>2, <1>5, AsideIInv DEF TimerQueue
<1>6. CASE RunBegins
  BY <1>1, <1>2, <1>6, AsideIInv DEF RunBegins
<1>7. CASE RunConfigDone
  BY <1>1, <1>2, <1>7, AsideIInv DEF RunConfigDone
<1>8. CASE RunEnds
  BY <1>1, <1>2, <1>8, AsideIInv DEF RunEnds, NextState
<1>. QED
  BY <1>3, <1>4, <1>5, <1>6, <1>7, <1>8 DEF InterruptFromFPGA_TimerISR, TimerWork

\* What the machine's thread may run.
LEMMA CommandsAre ==
    MachineOK /\ doing # "none" => doing \in Configs \cup {"SM_PRIMARY_SPI", "SM_FPGA_RESET"}
  BY LifecycleAssumption DEF MachineOK, Configs

Others ==
    \/ spiInitConfig \/ spiDestroyUnmaps
    \/ InterruptFromFPGA_SpiISR \/ Threads \/ \E w \in {"P", "S"} : WorkBegins(w) \/ WorkEnds(w)
    \/ \E u \in Users : read(u) \/ \E c \in scene.commands : commanderWrite(u, c)

\* Whatever else runs leaves all of it alone.
LEMMA OthersIInv == MachineOK /\ IInv /\ Others => IInv' /\ UNCHANGED schVars
<1>. SUFFICES ASSUME MachineOK, IInv, Others PROVE Aside /\ UNCHANGED schVars
  BY AsideIInv, SchStays
<1>1. CASE InterruptFromFPGA_SpiISR \/ watchdogThread \/ TakeCommand
  BY <1>1 DEF InterruptFromFPGA_SpiISR, watchdogThread, TakeCommand, Aside
<1>2. CASE \E w \in {"P", "S"} : WorkBegins(w) \/ WorkEnds(w)
  BY <1>2 DEF WorkBegins, WorkEnds, Aside
<1>3. CASE \E u \in Users : read(u) \/ \E c \in scene.commands : commanderWrite(u, c)
  BY <1>3 DEF read, commanderWrite, Aside
<1>4. CASE spiInitConfig \/ spiDestroyUnmaps \/ CaseConfigures
  <2>1. \E p \in Actors, dma \in Mappings : DmaSteps(p, dma)
    BY <1>4, DmaStepsAre
  <2>2. UNCHANGED <<charVars, schVars, phase, done>>
    BY <1>4 DEF spiInitConfig, spiDestroyUnmaps, CaseConfigures
  <2>. QED
    BY <2>1, <2>2, DmaStepFacts DEF Aside, IInv, MachineOK
<1>5. CASE RunCommand
  <2>1. UNCHANGED <<charVars, schVars, phase, done>>
    BY <1>5 DEF RunCommand
  <2>2. doing \in Configs \/ handle' = handle
    <3>1. doing \in Configs \cup {"SM_PRIMARY_SPI", "SM_FPGA_RESET"}
      BY <1>5, CommandsAre DEF RunCommand
    <3>. QED
      BY <1>5, <3>1 DEF RunCommand
  <2>3. ASSUME doing \in Configs PROVE \E p \in Actors, dma \in Mappings : DmaSteps(p, dma)
    BY <1>5, <2>3, DmaStepsAre
  <2>. QED
    BY <2>1, <2>2, <2>3, DmaStepFacts DEF Aside, IInv, MachineOK
<1>. QED
  BY <1>1, <1>2, <1>3, <1>4, <1>5 DEF Others, Threads, MachineThread

\* When unloading begins, every node is still to come.
LEMMA RmmodIInv == IInv /\ rmmod => IInv' /\ UNCHANGED schVars
<1>. SUFFICES ASSUME IInv, rmmod PROVE IInv'
  BY DEF rmmod
<1>1. /\ phase = "ready" /\ phase' = "unloading" /\ done' = 0
      /\ UNCHANGED <<charVars, schVars, handle>>
  BY DEF rmmod
<1>2. Ordered(exitFpgaDriver, "wdNode", "wdBuffers")
  BY UnloadOrder
<1>3. LifeOK'
  <2>1. 0 < Len(exitFpgaDriver)
    BY <1>2 DEF Ordered
  <2>. QED
    BY <1>1, <2>1 DEF IInv, LifeOK
<1>4. CharOK' /\ SchOK'
  BY <1>1 DEF IInv, CharOK, SchOK, SchTypeOK, charVars, schVars
<1>5. ASSUME NEW d \in Devices
      PROVE  NodeOK(d)' /\ ((Guarded(d) /\ d \notin raced => MutexOK(d)))'
  <2>1. ToCome(exitFpgaDriver, NodeOf(d))'
    BY <1>1, DeviceOrder DEF ToCome, Ordered
  <2>2. At("tried", d)' = At("tried", d) /\ At("in", d)' = At("in", d)
    BY <1>1 DEF At, charVars
  <2>3. d \notin raced => MutexOK(d)
    BY <1>1 DEF IInv, Guarded
  <2>. QED
    BY <1>1, <2>1, <2>2, <2>3 DEF NodeOK, MutexOK, charVars
<1>. QED
  BY <1>3, <1>4, <1>5 DEF IInv

-----------------------------------------------------------------------------
(* The users.                                                              *)

Uses(u) == opened(u) \/ close(u) \/ \E d \in Devices : open(u, d)

\* Each call looks at one user, who keeps to one device; opens that overlap race.
LEMMA UsersIInv ==
    ASSUME IInv, NEW u \in Users, Uses(u)
    PROVE  IInv' /\ UNCHANGED schVars
<1>1. /\ UNCHANGED <<schVars, phase, done, handle>>
      /\ OpenResult(u) \/ Close(u) \/ \E d \in Devices : TryLock(u, d) /\ Has(NodeOf(d))
  BY DEF Uses, opened, close, open
<1>2. LifeOK' /\ SchOK'
  BY <1>1 DEF IInv, LifeOK, SchOK, SchTypeOK, schVars, ToCome
<1>3. file \in [Users -> FileType] /\ file[u] \in FileType
  BY DEF IInv, CharOK
<1>. DEFINE here(d) == Guarded(d) /\ d \notin raced => MutexOK(d)
<1>4. ASSUME NEW e \in Devices, TryLock(u, e), Has(NodeOf(e))
      PROVE  CharOK' /\ \A d \in Devices : NodeOK(d)' /\ here(d)'
  <2>1. CharOK'
    <3>1. (~deviceMutex[e]) \in BOOLEAN
      OBVIOUS
    <3>2. [at |-> "tried", dev |-> e] \in FileType
      BY DEF FileType
    <3>. QED
      BY <1>4, <3>1, <3>2 DEF TryLock, IInv, CharOK
  <2>2. ASSUME NEW d \in Devices PROVE NodeOK(d)'
    <3>1. d # e => \A v \in Users : file'[v].dev = d => file[v].dev = d
      BY <1>3, <1>4 DEF TryLock
    <3>. QED
      BY <1>1, <1>4, <3>1 DEF IInv, NodeOK, Has, ToCome
  <2>3. ASSUME NEW d \in Devices, Guarded(d)', d \notin raced' PROVE MutexOK(d)'
    <3>1. Guarded(d) /\ d \notin raced /\ file[u] = Out
      BY <1>1, <1>4, <2>3 DEF Guarded, Has, TryLock
    <3>2. MutexOK(d)
      BY <3>1 DEF IInv
    <3>3. At("in", d)' = At("in", d)
      BY <1>3, <1>4, <3>1 DEF TryLock, At, Out
    <3>4. CASE d # e
      <4>1. At("tried", d)' = At("tried", d)
        BY <1>3, <1>4, <3>1, <3>4 DEF TryLock, At, Out
      <4>2. deviceMutex'[d] = deviceMutex[d] /\ tryLock'[d] = tryLock[d]
        BY <1>4, <3>4 DEF TryLock, IInv, CharOK
      <4>. QED
        BY <3>2, <3>3, <4>1, <4>2 DEF MutexOK
    <3>5. CASE d = e
      <4>1. At("tried", d) = {}
        BY <1>4, <2>3, <3>5 DEF TryLock
      <4>2. At("tried", d)' = {u}
        BY <1>3, <1>4, <3>5, <4>1 DEF TryLock, At
      <4>3. deviceMutex'[d] /\ (tryLock'[d] <=> ~deviceMutex[d])
        BY <1>4, <3>5 DEF TryLock, IInv, CharOK
      <4>. QED
        BY <3>2, <3>3, <4>2, <4>3 DEF MutexOK
    <3>. QED
      BY <3>4, <3>5
  <2>. QED
    BY <2>1, <2>2, <2>3
<1>5. ASSUME OpenResult(u)
      PROVE  CharOK' /\ \A d \in Devices : NodeOK(d)' /\ here(d)'
  <2>1. CharOK'
    <3>1. [file[u] EXCEPT !.at = "in"] \in FileType /\ Out \in FileType
      BY <1>3 DEF FileType, Out
    <3>. QED
      BY <1>3, <1>5, <3>1 DEF OpenResult, IInv, CharOK
  <2>2. \A v \in Users : file'[v].dev \in {file[v].dev, "none"}
    BY <1>3, <1>5 DEF OpenResult, Out, FileType
  <2>3. ASSUME NEW d \in Devices PROVE NodeOK(d)'
    BY <1>1, <2>2, LifecycleAssumption DEF IInv, NodeOK, Has, ToCome
  <2>4. ASSUME NEW d \in Devices, Guarded(d)', d \notin raced' PROVE MutexOK(d)'
    <3>1. /\ Guarded(d) /\ d \notin raced /\ file[u].at = "tried"
          /\ deviceMutex' = deviceMutex /\ tryLock' = tryLock
      BY <1>1, <1>5, <2>4 DEF Guarded, Has, OpenResult
    <3>2. MutexOK(d)
      BY <3>1 DEF IInv
    <3>3. CASE file[u].dev # d
      <4>1. At("tried", d)' = At("tried", d) /\ At("in", d)' = At("in", d)
        BY <1>3, <1>5, <3>1, <3>3, LifecycleAssumption DEF OpenResult, At, Out, FileType
      <4>. QED
        BY <3>1, <3>2, <4>1 DEF MutexOK
    <3>4. CASE file[u].dev = d
      <4>1. u \in At("tried", d)
        BY <3>1, <3>4 DEF At
      <4>2. At("tried", d)' = {}
        BY <1>3, <1>5, <3>2, <3>4, <4>1 DEF OpenResult, At, Out, MutexOK, FileType
      <4>3. At("in", d)' = At("in", d) \cup (IF tryLock[d] THEN {u} ELSE {})
        BY <1>3, <1>5, <3>1, <3>4 DEF OpenResult, At, Out, FileType
      <4>. QED
        BY <3>1, <3>2, <4>1, <4>2, <4>3 DEF MutexOK
    <3>. QED
      BY <3>3, <3>4
  <2>. QED
    BY <2>1, <2>3, <2>4
<1>6. ASSUME Close(u)
      PROVE  CharOK' /\ \A d \in Devices : NodeOK(d)' /\ here(d)'
  <2>1. CharOK'
    <3>1. Out \in FileType
      BY DEF FileType, Out
    <3>. QED
      BY <1>3, <1>6, <3>1 DEF Close, IInv, CharOK
  <2>2. \A v \in Users : file'[v].dev \in {file[v].dev, "none"}
    BY <1>3, <1>6 DEF Close, Out
  <2>3. ASSUME NEW d \in Devices PROVE NodeOK(d)'
    BY <1>1, <2>2, LifecycleAssumption DEF IInv, NodeOK, Has, ToCome
  <2>4. ASSUME NEW d \in Devices, Guarded(d)', d \notin raced' PROVE MutexOK(d)'
    <3>1. /\ Guarded(d) /\ d \notin raced /\ file[u].at = "in" /\ tryLock' = tryLock
      BY <1>1, <1>6, <2>4 DEF Guarded, Has, Close
    <3>2. MutexOK(d)
      BY <3>1 DEF IInv
    <3>3. At("tried", d)' = At("tried", d)
      BY <1>3, <1>6, <3>1 DEF Close, At, Out
    <3>4. CASE file[u].dev # d
      <4>1. At("in", d)' = At("in", d)
        BY <1>3, <1>6, <3>4, LifecycleAssumption DEF Close, At, Out
      <4>2. deviceMutex'[d] = deviceMutex[d]
        BY <1>6, <3>4 DEF Close, IInv, CharOK
      <4>. QED
        BY <3>1, <3>2, <3>3, <4>1, <4>2 DEF MutexOK
    <3>5. CASE file[u].dev = d
      <4>1. u \in At("in", d) /\ At("tried", d) = {}
        BY <1>6, <2>4, <3>1, <3>5 DEF At, Close
      <4>2. At("in", d)' = {}
        BY <1>3, <1>6, <3>2, <4>1 DEF Close, At, Out, MutexOK
      <4>. QED
        BY <3>3, <4>1, <4>2 DEF MutexOK
    <3>. QED
      BY <3>4, <3>5
  <2>. QED
    BY <2>1, <2>3, <2>4
<1>. QED
  BY <1>1, <1>2, <1>4, <1>5, <1>6 DEF IInv

-----------------------------------------------------------------------------
(* The types of what only this module knows.                               *)

\* A step of loading fails for one of the resources.
LEMMA LoadMachineOK == MachineOK /\ IInv /\ Load => MachineOK'
<1>. SUFFICES ASSUME MachineOK, IInv, Load PROVE MachineOK'
  OBVIOUS
<1>. DEFINE r == initFpgaDriver[done + 1]
<1>1. UNCHANGED <<scene, command, doing, queued, working, disorderly>>
  BY DEF Load, Up
<1>2. allocated' \in Int
  <2>1. allocated' \in {allocated, allocated + 1}
    BY DEF Load, Acquire, AcquireFails, SkipHooks
  <2>. QED
    BY <2>1 DEF MachineOK
<1>3. failed' \subseteq Resources
  <2>1. failed' = failed \/ (r # "scheduler" /\ failed' = failed \cup {r})
    BY DEF Load, Acquire, AcquireFails, SkipHooks, configured, MapFails, SetMessage
  <2>2. done + 1 \in 1 .. Len(initFpgaDriver)
    BY LoadFacts
  <2>3. r # "scheduler" => r \in Resources
    BY <2>2, ResourcesListed
  <2>. QED
    BY <2>1, <2>3 DEF MachineOK
<1>4. DmaOK' /\ bad' \subseteq Resources
  <2>1. CASE r = "dma1"
    <3>1. DmaSteps("module", "dma1") /\ "module" \in Actors /\ "dma1" \in Mappings
      BY <2>1, DmaStepsAre
    <3>. QED
      BY <3>1, DmaStepFacts, ResourcesListed DEF IInv, MachineOK
  <2>2. CASE r # "dma1"
    <3>1. UNCHANGED <<dmaVars, bad, hasty>>
      BY <2>2 DEF Load, Acquire, AcquireFails, SkipHooks
    <3>. QED
      BY <3>1 DEF MachineOK, DmaOK, dmaVars
  <2>. QED
    BY <2>1, <2>2
<1>. QED
  BY <1>1, <1>2, <1>3, <1>4 DEF MachineOK

\* A step of unloading releases one of the resources.
LEMMA UnloadMachineOK == MachineOK /\ IInv /\ (rmmod \/ Unload) => MachineOK'
<1>. SUFFICES ASSUME MachineOK, IInv, rmmod \/ Unload PROVE MachineOK'
  OBVIOUS
<1>1. CASE rmmod
  <2>1. disorderly' \in BOOLEAN
    BY <1>1 DEF rmmod
  <2>2. DmaOK'
    BY <1>1 DEF rmmod, machineVars, dmaVars, DmaOK, MachineOK
  <2>. QED
    BY <1>1, <2>1, <2>2 DEF rmmod, Up, machineVars, MachineOK
<1>2. CASE Unload
  <2>. DEFINE r == exitFpgaDriver[done + 1]
  <2>1. /\ UNCHANGED <<scene, doing, working, disorderly>>
        /\ CancelWork(r) /\ command' \in {"none", command}
    BY <1>2 DEF Unload, Up
  <2>2. r \in Resources
    <3>1. done + 1 \in 1 .. Len(exitFpgaDriver)
      BY <1>2, UnloadOrder DEF IInv, LifeOK, Unload, Ordered
    <3>. QED
      BY <3>1, ResourcesListed
  <2>3. allocated' \in Int
    BY <1>2 DEF Unload, Released, MachineOK
  <2>4. queued' \subseteq {"P", "S"}
    BY <2>1 DEF CancelWork, MachineOK
  <2>5. DmaOK' /\ bad' \subseteq Resources /\ failed' \subseteq Resources
    <3>1. CASE r \in Mappings
      <4>1. DmaSteps("module", r) /\ "module" \in Actors
        BY <1>2, <3>1, DmaStepsAre
      <4>. HIDE DEF r
      <4>. QED
        BY <2>2, <3>1, <4>1, DmaStepFacts DEF IInv, MachineOK
    <3>2. CASE r \notin Mappings
      <4>1. Released(r)
        BY <1>2, <3>2 DEF Unload
      <4>. QED
        BY <2>2, <4>1 DEF Released, MachineOK, DmaOK, dmaVars
    <3>. QED
      BY <3>1, <3>2
  <2>. QED
    BY <2>1, <2>3, <2>4, <2>5 DEF MachineOK
<1>. QED
  BY <1>1, <1>2

\* What runs meanwhile posts, queues and maps only what there is.
LEMMA RunningMachineOK ==
    MachineOK /\ IInv /\ (Others \/ Interrupts \/ Works \/ Threads \/ \E u \in Users : Calls(u))
        => MachineOK'
<1>. SUFFICES ASSUME MachineOK, IInv,
                     \/ spiInitConfig \/ spiDestroyUnmaps
                     \/ Interrupts \/ Works \/ Threads \/ \E u \in Users : Calls(u)
              PROVE  MachineOK'
  BY DEF Others, Interrupts, Works, Calls
<1>0. UNCHANGED dmaVars /\ hasty' \in BOOLEAN => DmaOK'
  BY DEF MachineOK, DmaOK, dmaVars
<1>. USE DEF MachineOK, Up
<1>1. CASE InterruptFromFPGA_SpiISR
  BY <1>0, <1>1 DEF InterruptFromFPGA_SpiISR, DmaOK
<1>2. CASE InterruptFromFPGA_TimerISR \/ TimerWork
  BY <1>0, <1>2 DEF InterruptFromFPGA_TimerISR, TimerWork, machineVars, DmaOK
<1>3. ASSUME NEW w \in {"P", "S"}, WorkBegins(w) \/ WorkEnds(w)
      PROVE  MachineOK'
  <2>1. hasty' \in BOOLEAN
    BY <1>3 DEF WorkBegins, WorkEnds, DmaOK
  <2>2. DmaOK'
    BY <1>0, <1>3, <2>1 DEF WorkBegins, WorkEnds
  <2>. QED
    BY <1>3, <2>2 DEF WorkBegins, WorkEnds
<1>4. CASE watchdogThread \/ TakeCommand
  BY <1>0, <1>4 DEF watchdogThread, TakeCommand, machineVars, DmaOK
<1>5. CASE spiInitConfig \/ spiDestroyUnmaps \/ CaseConfigures
  <2>1. \E p \in Actors, dma \in Mappings : DmaSteps(p, dma)
    BY <1>5, DmaStepsAre
  <2>2. DmaOK' /\ bad' \subseteq Resources /\ failed' \subseteq Resources
    BY <2>1, DmaStepFacts, ResourcesListed DEF IInv, Mappings
  <2>3. UNCHANGED <<scene, command, doing, queued, working, allocated, disorderly>>
    BY <1>5 DEF spiInitConfig, spiDestroyUnmaps, CaseConfigures
  <2>. QED
    BY <2>2, <2>3
<1>6. CASE RunCommand
  <2>1. doing \in Configs \cup {"SM_PRIMARY_SPI", "SM_FPGA_RESET"}
    BY <1>6, CommandsAre DEF RunCommand
  <2>2. /\ UNCHANGED <<scene, working, allocated, disorderly>>
        /\ doing' = "none" /\ command' \in {"none", "SM_PRIMARY_SPI"}
    BY <1>6 DEF RunCommand
  <2>3. queued' \subseteq {"P", "S"}
    BY <1>6, <2>1 DEF RunCommand
  <2>4. DmaOK' /\ bad' \subseteq Resources /\ failed' \subseteq Resources
    <3>1. CASE doing \in Configs
      <4>1. \E p \in Actors, dma \in Mappings : DmaSteps(p, dma)
        BY <1>6, <3>1, DmaStepsAre
      <4>. QED
        BY <4>1, DmaStepFacts, ResourcesListed DEF IInv, Mappings
    <3>2. CASE doing \notin Configs
      BY <1>0, <1>6, <2>1, <3>2 DEF RunCommand, DmaOK
    <3>. QED
      BY <3>1, <3>2
  <2>. QED
    BY <2>2, <2>3, <2>4
<1>7. ASSUME NEW u \in Users, Calls(u)
      PROVE  MachineOK'
  <2>1. CASE opened(u) \/ close(u) \/ read(u)
    BY <1>0, <2>1 DEF opened, close, read, machineVars, DmaOK
  <2>2. ASSUME NEW d \in Devices, open(u, d) PROVE MachineOK'
    <3>1. disorderly' \in BOOLEAN
      BY <2>2 DEF open
    <3>. QED
      BY <1>0, <2>2, <3>1 DEF open, machineVars, DmaOK
  <2>3. ASSUME NEW c \in scene.commands, commanderWrite(u, c) PROVE MachineOK'
    <3>1. c \in Commands
      BY LifecycleAssumption
    <3>2. hasty' \in BOOLEAN
      BY <2>3 DEF commanderWrite, DmaOK
    <3>3. DmaOK'
      BY <1>0, <2>3, <3>2 DEF commanderWrite
    <3>. QED
      BY <2>3, <3>1, <3>3 DEF commanderWrite
  <2>. QED
    BY <1>7, <2>1, <2>2, <2>3 DEF Calls
<1>. QED
  BY <1>1, <1>2, <1>3, <1>4, <1>5, <1>6, <1>7 DEF Interrupts, Works, Threads, MachineThread

-----------------------------------------------------------------------------
(* The theorems.                                                           *)

\* Every step keeps the invariant.
LEMMA NextIInv == MachineOK /\ IInv /\ [Next]_vars => MachineOK' /\ IInv'
<1>. SUFFICES ASSUME MachineOK, IInv, [Next]_vars PROVE MachineOK' /\ IInv'
  OBVIOUS
<1>1. CASE Load
  BY <1>1, LoadIInv, LoadMachineOK
<1>6. CASE spiInitConfig \/ spiDestroyUnmaps
  BY <1>6, OthersIInv, RunningMachineOK DEF Others
<1>2. CASE rmmod \/ Unload
  BY <1>2, RmmodIInv, UnloadIInv, UnloadMachineOK
<1>3. CASE Interrupts \/ Works \/ Threads
  BY <1>3, TimerIInv, OthersIInv, RunningMachineOK DEF Interrupts, Works, Others
<1>4. ASSUME NEW u \in Users, Calls(u)
      PROVE  MachineOK' /\ IInv'
  BY <1>4, UsersIInv, OthersIInv, RunningMachineOK DEF Calls, Uses, Others
<1>5. CASE UNCHANGED vars
  <2>1. Aside /\ UNCHANGED schVars
    BY <1>5 DEF vars, lifeVars, Aside
  <2>2. MachineOK'
    BY <1>5 DEF vars, lifeVars, machineVars, dmaVars, MachineOK, DmaOK
  <2>. QED
    BY <2>1, <2>2, SchStays, AsideIInv
<1>. QED
  BY <1>1, <1>2, <1>3, <1>4, <1>5, <1>6 DEF Next, Module

\* The invariant holds in every state.
LEMMA AlwaysIInv == Spec => [](MachineOK /\ IInv)
<1>1. Init => MachineOK
  <2>. SUFFICES ASSUME Init PROVE MachineOK
    OBVIOUS
  <2>1. scene \in Scenes /\ command = "none" /\ doing = "none"
    BY DEF Init
  <2>3. allocated \in Int
    BY DEF Init
  <2>4. disorderly \in BOOLEAN
    BY DEF Init
  <2>2. queued = {} /\ working = {} /\ failed = {} /\ bad = {}
    BY DEF Init
  <2>5. DmaOK
    BY DEF Init, DmaOK, Actors, Answers
  <2>. QED
    BY <2>1, <2>2, <2>3, <2>4, <2>5 DEF MachineOK
<1>. QED
  BY <1>1, InitIInv, NextIInv, PTL DEF Spec

\* Every variable keeps its type, whatever fails and whoever stays.
THEOREM TypeCorrect == Spec => []TypeOK
<1>1. MachineOK /\ IInv => TypeOK
  <2>. SUFFICES ASSUME MachineOK, IInv PROVE TypeOK
    OBVIOUS
  <2>1. /\ message \in [Mappings -> {"none", "axis", "cmdBuffers"}] /\ live \subseteq Mappings
        /\ mapStep \in [{"module", "machine"} -> {"ask", "unmap", "zero", "map", "set"}]
        /\ hasty \in BOOLEAN
    BY DEF MachineOK, DmaOK, Actors, Answers, Targets
  <2>. QED
    BY <2>1 DEF MachineOK, IInv, LifeOK, SchOK, TypeOK
<1>. QED  BY <1>1, AlwaysIInv, PTL

\* A device has one user at a time, whose mutex is held, unless opens overlap, for
\* any number of users of both devices and however many resources cannot be had.
THEOREM OpensExclude == Spec => []ExclusiveOpen
<1>1. IInv => ExclusiveOpen
  <2>. SUFFICES ASSUME IInv, NEW d \in Devices, Has(NodeOf(d)), d \notin raced
                PROVE  /\ Cardinality(At("in", d)) <= 1
                       /\ At("in", d) # {} => deviceMutex[d]
    BY DEF ExclusiveOpen, OneUser
  <2>1. MutexOK(d)
    BY DEF IInv, Guarded
  <2>2. CASE At("in", d) = {}
    BY <2>2, FS_EmptySet
  <2>3. ASSUME NEW u \in At("in", d) PROVE Cardinality(At("in", d)) = 1
    <3>1. At("in", d) = {u}
      BY <2>1 DEF MutexOK
    <3>. QED
      BY <3>1, FS_Singleton
  <2>. QED
    BY <2>1, <2>2, <2>3 DEF MutexOK
<1>. QED  BY <1>1, AlwaysIInv, PTL

\* The scheduler is configured once and then only goes from its round to idle and
\* back, though interrupt and worker both set its state.
THEOREM SchedulerTakesTurns == Spec => ConfiguredThenRounds
<1>1. IInv /\ [Next]_vars => [schState' # schState =>
        <<schState, schState'>> \in
            {<<"SCH_IDLE", "SCH_INIT">>, <<"SCH_INIT", "SCH_CONFIG">>,
             <<"SCH_CONFIG", "SCH_MAIN_20MS">>, <<"SCH_MAIN_20MS", "SCH_IDLE">>}
            \cup (IF configDone THEN {<<"SCH_IDLE", "SCH_MAIN_20MS">>} ELSE {})]_schVars
  <2>. DEFINE allowed ==
           {<<"SCH_IDLE", "SCH_INIT">>, <<"SCH_INIT", "SCH_CONFIG">>,
            <<"SCH_CONFIG", "SCH_MAIN_20MS">>, <<"SCH_MAIN_20MS", "SCH_IDLE">>}
           \cup (IF configDone THEN {<<"SCH_IDLE", "SCH_MAIN_20MS">>} ELSE {})
  <2>1. ASSUME IInv, Next, schState' # schState PROVE <<schState, schState'>> \in allowed
    <3>1. \/ Load /\ schedulerInit /\ initFpgaDriver[done + 1] = "scheduler"
          \/ TimerSet \/ RunEnds
      <4>1. CASE Load
        BY <2>1, <4>1, LoadFacts DEF schVars
      <4>2. CASE rmmod \/ Unload
        BY <2>1, <4>2 DEF rmmod, Unload, CancelWork, schVars
      <4>3. CASE InterruptFromFPGA_TimerISR \/ TimerWork
        BY <2>1, <4>3 DEF InterruptFromFPGA_TimerISR, TimerWork, TimerTick, TimerQueue,
           RunBegins, RunConfigDone
      <4>4. CASE InterruptFromFPGA_SpiISR \/ Threads \/ spiInitConfig \/ spiDestroyUnmaps
        BY <2>1, <4>4 DEF InterruptFromFPGA_SpiISR, Threads, MachineThread, watchdogThread,
           TakeCommand, CaseConfigures, RunCommand, spiInitConfig, spiDestroyUnmaps, schVars
      <4>5. ASSUME NEW w \in {"P", "S"}, WorkBegins(w) \/ WorkEnds(w) PROVE FALSE
        BY <2>1, <4>5 DEF WorkBegins, WorkEnds, schVars
      <4>6. ASSUME NEW u \in Users, Calls(u) PROVE FALSE
        BY <2>1, <4>6 DEF Calls, opened, close, read, open, commanderWrite, schVars
      <4>. QED
        BY <2>1, <4>1, <4>2, <4>3, <4>4, <4>5, <4>6 DEF Next, Module, Interrupts, Works
    <3>2. CASE Load /\ schedulerInit /\ initFpgaDriver[done + 1] = "scheduler"
      <4>1. schState = "SCH_IDLE"
        BY <2>1, <3>2, LoadFacts DEF IInv, LifeOK, SchOK, ToCome
      <4>. QED
        BY <3>2, <4>1 DEF schedulerInit
    <3>3. CASE TimerSet
      BY <2>1, <3>3 DEF TimerSet, IInv, SchOK
    <3>4. CASE RunEnds
      BY <2>1, <3>4 DEF RunEnds, NextState, IInv, SchOK, SchTypeOK, SchStates
    <3>. QED
      BY <3>1, <3>2, <3>3, <3>4
  <2>. QED
    BY <2>1 DEF vars, schVars
<1>. QED
  BY <1>1, AlwaysIInv, PTL DEF Spec, ConfiguredThenRounds

-----------------------------------------------------------------------------
(* Unloading releases what loading acquired, once, whatever could not be   *)
(* had.  Each resource has one place in initFpgaDriver and one in          *)
(* exitFpgaDriver, and between the two the driver holds it unless it could *)
(* not be had; only the DMA mappings come and go with commands.            *)

\* s has each element of N once, and nothing else.
Spans(s, N) ==
    /\ s \in Seq(N)
    /\ \A x \in N : \E i \in 1 .. Len(s) : s[i] = x
    /\ \A i, j \in 1 .. Len(s) : s[i] = s[j] => i = j

-----------------------------------------------------------------------------
(* What is in the two sequences.                                           *)

\* Sequences over disjoint sets, one behind the other.
LEMMA SpansBoth ==
    ASSUME NEW M, NEW N, NEW s, NEW t, Spans(s, M), Spans(t, N), M \cap N = {}
    PROVE  Spans(s \o t, M \cup N)
<1>1. s \in Seq(M \cup N) /\ t \in Seq(M \cup N)
  <2>1. /\ Len(s) \in Nat /\ s = [i \in 1 .. Len(s) |-> s[i]] /\ \A i \in 1 .. Len(s) : s[i] \in M
        /\ Len(t) \in Nat /\ t = [i \in 1 .. Len(t) |-> t[i]] /\ \A i \in 1 .. Len(t) : t[i] \in N
    BY DEF Spans
  <2>. QED
    BY <2>1
<1>2. /\ s \o t \in Seq(M \cup N) /\ Len(s \o t) = Len(s) + Len(t)
      /\ \A i \in 1 .. Len(s) + Len(t) :
            (s \o t)[i] = IF i <= Len(s) THEN s[i] ELSE t[i - Len(s)]
  BY <1>1, ConcatProperties
<1>3. Len(s) \in Nat /\ Len(t) \in Nat
  BY <1>1
<1>4. /\ \A i \in 1 .. Len(s) : s[i] \in M
      /\ \A i \in 1 .. Len(t) : t[i] \in N
  BY DEF Spans
<1>5. ASSUME NEW x \in M \cup N PROVE \E i \in 1 .. Len(s \o t) : (s \o t)[i] = x
  <2>1. CASE x \in M
    <3>1. PICK i \in 1 .. Len(s) : s[i] = x
      BY <2>1 DEF Spans
    <3>2. i \in 1 .. Len(s) + Len(t) /\ (s \o t)[i] = x
      BY <1>2, <1>3, <3>1
    <3>. QED
      BY <1>2, <3>2
  <2>2. CASE x \in N
    <3>1. PICK i \in 1 .. Len(t) : t[i] = x
      BY <2>2 DEF Spans
    <3>2. i + Len(s) \in 1 .. Len(s) + Len(t) /\ (s \o t)[i + Len(s)] = x
      BY <1>2, <1>3, <3>1
    <3>. QED
      BY <1>2, <3>2
  <2>. QED
    BY <2>1, <2>2
<1>6. ASSUME NEW i \in 1 .. Len(s \o t), NEW j \in 1 .. Len(s \o t), (s \o t)[i] = (s \o t)[j]
      PROVE  i = j
  <2>1. i \in Nat /\ j \in Nat /\ i \in 1 .. Len(s) + Len(t) /\ j \in 1 .. Len(s) + Len(t)
    BY <1>2, <1>3
  <2>2. CASE i <= Len(s) /\ j <= Len(s)
    BY <1>2, <1>3, <1>6, <2>1, <2>2 DEF Spans
  <2>3. CASE i > Len(s) /\ j > Len(s)
    <3>. DEFINE k == i - Len(s)
                l == j - Len(s)
    <3>1. k \in 1 .. Len(t) /\ l \in 1 .. Len(t) /\ t[k] = t[l]
      BY <1>2, <1>3, <1>6, <2>1, <2>3
    <3>2. k = l => i = j
      BY <1>3, <2>1
    <3>. HIDE DEF k, l
    <3>. QED
      BY <3>1, <3>2 DEF Spans
  <2>4. CASE i <= Len(s) /\ j > Len(s)
    <3>1. (s \o t)[i] \in M /\ (s \o t)[j] \in N
      BY <1>2, <1>3, <1>4, <2>1, <2>4
    <3>. QED
      BY <1>6, <3>1
  <2>5. CASE i > Len(s) /\ j <= Len(s)
    <3>1. (s \o t)[i] \in N /\ (s \o t)[j] \in M
      BY <1>2, <1>3, <1>4, <2>1, <2>5
    <3>. QED
      BY <1>6, <3>1
  <2>. QED
    BY <1>3, <2>1, <2>2, <2>3, <2>4, <2>5
<1>. QED
  BY <1>2, <1>5, <1>6 DEF Spans

\* Loading acquires everything but the mapping of the first SPI.
LEMMA LoadSpans == Spans(initFpgaDriver, Names \ {"dma0"})
<1>1. /\ Spans(ramAxisInit, {"axis"}) /\ Spans(ramDiskInit, {"disk"})
      /\ Spans(stateMachineInit, {"smThread"}) /\ Spans(watchdogInit, {"wdThread"})
      /\ Spans(<<"scheduler">>, {"scheduler"}) /\ Spans(networkInit, {"netDevice", "hooks"})
  BY DEF Spans, ramAxisInit, ramDiskInit, stateMachineInit, watchdogInit, networkInit
<1>2. /\ Spans(charDeviceInit, {"wdBuffers", "wdNode", "cmdBuffers", "cmdNode"})
      /\ Spans(spiInit, {"spi0", "spi1", "dma1"})
  BY DEF Spans, charDeviceInit, spiInit
<1>3. /\ Spans(spiWorkInit, {"unitP", "queueP", "unitS", "queueS", "unitT", "queueT"})
      /\ Spans(isrGpioInit, {"irqSpi", "irqTimer", "irqWatchdog", "outReset", "outF1", "outF2"})
  BY DEF Spans, spiWorkInit, isrGpioInit
<1>. DEFINE N1 == {"axis"} \cup {"disk"}
            N2 == N1 \cup {"smThread"}
            N3 == N2 \cup {"wdBuffers", "wdNode", "cmdBuffers", "cmdNode"}
            N4 == N3 \cup {"spi0", "spi1", "dma1"}
            N5 == N4 \cup {"unitP", "queueP", "unitS", "queueS", "unitT", "queueT"}
            N6 == N5 \cup {"irqSpi", "irqTimer", "irqWatchdog", "outReset", "outF1", "outF2"}
            N7 == N6 \cup {"wdThread"}
            N8 == N7 \cup {"scheduler"}
            N9 == N8 \cup {"netDevice", "hooks"}
<1>4. /\ N1 \cap {"smThread"} = {}
      /\ N2 \cap {"wdBuffers", "wdNode", "cmdBuffers", "cmdNode"} = {}
      /\ N3 \cap {"spi0", "spi1", "dma1"} = {}
      /\ N4 \cap {"unitP", "queueP", "unitS", "queueS", "unitT", "queueT"} = {}
      /\ N5 \cap {"irqSpi", "irqTimer", "irqWatchdog", "outReset", "outF1", "outF2"} = {}
      /\ N6 \cap {"wdThread"} = {}
      /\ N7 \cap {"scheduler"} = {}
      /\ N8 \cap {"netDevice", "hooks"} = {}
  OBVIOUS
<1>5. N9 = Names \ {"dma0"}
  BY DEF Names
<1>6. Spans(ramAxisInit \o ramDiskInit, N1)
  BY <1>1, SpansBoth
<1>. HIDE DEF N1, N2, N3, N4, N5, N6, N7, N8, N9
<1>7. Spans(ramAxisInit \o ramDiskInit \o stateMachineInit, N2)
  BY <1>1, <1>4, <1>6, SpansBoth DEF N2
<1>8. Spans(ramAxisInit \o ramDiskInit \o stateMachineInit \o charDeviceInit, N3)
  BY <1>2, <1>4, <1>7, SpansBoth DEF N3
<1>. DEFINE front == ramAxisInit \o ramDiskInit \o stateMachineInit \o charDeviceInit
<1>9. Spans(front \o spiInit \o spiWorkInit \o isrGpioInit, N6)
  BY <1>2, <1>3, <1>4, <1>8, SpansBoth DEF N4, N5, N6
<1>10. Spans(front \o spiInit \o spiWorkInit \o isrGpioInit \o watchdogInit \o <<"scheduler">>
                   \o networkInit, N9)
  BY <1>1, <1>4, <1>9, SpansBoth DEF N7, N8, N9
<1>. QED
  BY <1>5, <1>10 DEF initFpgaDriver

\* Unloading releases everything; the scheduler is nothing to release.
LEMMA UnloadSpans == Spans(exitFpgaDriver, Names \ {"scheduler"})
<1>1. /\ Spans(networkDestroy, {"hooks", "netDevice"}) /\ Spans(watchdogDestroy, {"wdThread"})
      /\ Spans(stateMachineDestroy, {"smThread"}) /\ Spans(ramDiskDestroy, {"disk"})
      /\ Spans(ramAxisDestroy, {"axis"})
  BY DEF Spans, networkDestroy, watchdogDestroy, stateMachineDestroy, ramDiskDestroy,
     ramAxisDestroy
<1>2. /\ Spans(charDeviceDestroy, {"wdNode", "wdBuffers", "cmdNode", "cmdBuffers"})
      /\ Spans(spiDestroy, {"dma0", "dma1", "spi0", "spi1"})
  BY DEF Spans, charDeviceDestroy, spiDestroy
<1>3. /\ Spans(spiWorkDestroy, {"queueP", "unitP", "queueS", "unitS", "queueT", "unitT"})
      /\ Spans(isrGpioDestroy, {"outF2", "outF1", "outReset", "irqSpi", "irqTimer",
                                "irqWatchdog"})
  BY DEF Spans, spiWorkDestroy, isrGpioDestroy
<1>. DEFINE N1 == {"hooks", "netDevice"} \cup {"wdThread"}
            N2 == N1 \cup {"outF2", "outF1", "outReset", "irqSpi", "irqTimer", "irqWatchdog"}
            N3 == N2 \cup {"queueP", "unitP", "queueS", "unitS", "queueT", "unitT"}
            N4 == N3 \cup {"dma0", "dma1", "spi0", "spi1"}
            N5 == N4 \cup {"wdNode", "wdBuffers", "cmdNode", "cmdBuffers"}
            N6 == N5 \cup {"smThread"}
            N7 == N6 \cup {"disk"}
            N8 == N7 \cup {"axis"}
<1>4. /\ N1 \cap {"outF2", "outF1", "outReset", "irqSpi", "irqTimer", "irqWatchdog"} = {}
      /\ N2 \cap {"queueP", "unitP", "queueS", "unitS", "queueT", "unitT"} = {}
      /\ N3 \cap {"dma0", "dma1", "spi0", "spi1"} = {}
      /\ N4 \cap {"wdNode", "wdBuffers", "cmdNode", "cmdBuffers"} = {}
      /\ N5 \cap {"smThread"} = {}
      /\ N6 \cap {"disk"} = {}
      /\ N7 \cap {"axis"} = {}
  OBVIOUS
<1>5. N8 = Names \ {"scheduler"}
  BY DEF Names
<1>6. Spans(networkDestroy \o watchdogDestroy, N1)
  <2>1. {"hooks", "netDevice"} \cap {"wdThread"} = {}
    OBVIOUS
  <2>. QED
    BY <1>1, <2>1, SpansBoth
<1>. HIDE DEF N1, N2, N3, N4, N5, N6, N7, N8
<1>7. Spans(networkDestroy \o watchdogDestroy \o isrGpioDestroy \o spiWorkDestroy, N3)
  BY <1>3, <1>4, <1>6, SpansBoth DEF N2, N3
<1>8. Spans(networkDestroy \o watchdogDestroy \o isrGpioDestroy \o spiWorkDestroy \o spiDestroy
              \o charDeviceDestroy, N5)
  BY <1>2, <1>4, <1>7, SpansBoth DEF N4, N5
<1>9. Spans(networkDestroy \o watchdogDestroy \o isrGpioDestroy \o spiWorkDestroy \o spiDestroy
              \o charDeviceDestroy \o stateMachineDestroy \o ramDiskDestroy \o ramAxisDestroy, N8)
  BY <1>1, <1>4, <1>8, SpansBoth DEF N6, N7, N8
<1>. QED
  BY <1>5, <1>9 DEF exitFpgaDriver

\* The resources by name.
LEMMA ResourcesAre == Resources = Names \ {"scheduler"}
<1>1. ToSet(initFpgaDriver) = Names \ {"dma0"}
  BY LoadSpans DEF Spans, ToSet
<1>2. ToSet(exitFpgaDriver) = Names \ {"scheduler"}
  BY UnloadSpans DEF Spans, ToSet
<1>. QED
  BY <1>1, <1>2 DEF Resources, Names

\* The hooks are set after the device was looked for.
LEMMA HooksLast == Ordered(initFpgaDriver, "netDevice", "hooks")
<1>. DEFINE M == {"netDevice", "hooks"}
<1>1. /\ Avoids(ramAxisInit, M) /\ Avoids(ramDiskInit, M) /\ Avoids(stateMachineInit, M)
      /\ Avoids(charDeviceInit, M) /\ Avoids(spiInit, M)
  BY DEF Avoids, Names, ramAxisInit, ramDiskInit, stateMachineInit, charDeviceInit, spiInit
<1>2. /\ Avoids(spiWorkInit, M) /\ Avoids(isrGpioInit, M) /\ Avoids(watchdogInit, M)
      /\ Avoids(<<"scheduler">>, M)
  BY DEF Avoids, Names, spiWorkInit, isrGpioInit, watchdogInit
<1>3. Ordered(networkInit, "netDevice", "hooks")
  BY DEF Ordered, Names, networkInit
<1>4. "netDevice" \in M /\ "hooks" \in M
  OBVIOUS
<1>. HIDE DEF M
<1>5. Avoids(ramAxisInit \o ramDiskInit \o stateMachineInit \o charDeviceInit \o spiInit, M)
  BY <1>1, AvoidsBoth
<1>6. Avoids(ramAxisInit \o ramDiskInit \o stateMachineInit \o charDeviceInit \o spiInit
               \o spiWorkInit \o isrGpioInit \o watchdogInit \o <<"scheduler">>, M)
  BY <1>2, <1>5, AvoidsBoth
<1>. QED
  BY <1>3, <1>4, <1>6, OrderedRight DEF initFpgaDriver

-----------------------------------------------------------------------------
(* The invariant.                                                          *)

\* What is held from its place in the one sequence to its place in the other.
Steady == Resources \ (Mappings \cup {"hooks"})

\* The driver is between the two places.
Owned(r) ==
    /\ phase = "loading" => ~ToCome(initFpgaDriver, r)
    /\ phase = "unloading" => ToCome(exitFpgaDriver, r)
    /\ phase # "unloaded"

Excused ==
    failed \cup (IF "netDevice" \in failed THEN {"hooks"} ELSE {})
           \cup (IF disorderly THEN Mappings ELSE {})

HeldOnceOwned ==
    /\ \A r \in Steady : Owned(r) => Has(r) \/ r \in failed
    /\ Owned("hooks") => Has("hooks") \/ "hooks" \in Excused

NothingBefore ==
    phase = "loading" =>
        \A r \in Resources \ Mappings : ToCome(initFpgaDriver, r) => handle[r] = "null"

NothingAfter ==
    \A r \in Resources :
        phase \in {"unloading", "unloaded"} /\ ~Owned(r) =>
            ~Has(r) \/ (r \in Mappings /\ disorderly)

AtRest == Settled /\ \A u \in Users : file[u] = Out

\* Users and commands are only there between loading and unloading.
AwakeWhenReady == phase # "ready" /\ ~disorderly => AtRest

\* Nobody configures a DMA, and what went wrong is known.
Resting ==
    /\ \A p \in Actors : mapStep[p] = "ask"
    /\ \A d \in Mappings : handle[d] = "stale" => d \in failed

\* p configures dma, alone: it unmaps what was mapped, forgets what it unmapped, and
\* makes the message of what it has mapped.
Handles(p, dma) ==
    /\ \A q \in Actors : q # p => mapStep[q] = "ask"
    /\ mapStep[p] = "unmap" => handle[dma] # "null"
    /\ mapStep[p] = "zero" => ~Has(dma)
    /\ mapStep[p] = "set" => Has(dma)
    /\ \A d \in Mappings :
         handle[d] = "stale" => d \in failed \/ (d = dma /\ mapStep[p] = "zero")

\* The module configures while it loads and unloads, the thread in between.
MapInv ==
    ~disorderly =>
        \/ Resting
        \/ /\ phase = "loading" /\ initFpgaDriver[done + 1] = "dma1"
           /\ Handles("module", "dma1")
        \/ /\ phase = "unloading"
           /\ \E dma \in Mappings : exitFpgaDriver[done + 1] = dma /\ Handles("module", dma)
        \/ /\ phase = "ready" /\ doing \in Configs
           /\ \E dma \in Mappings : ConfiguredBy(doing) = dma /\ Handles("machine", dma)

Allocated == {r \in memoryAllocation : Has(r)}

CountOK == failed \cap memoryAllocation = {} => allocated = Cardinality(Allocated)

RelInv ==
    /\ HeldOnceOwned /\ NothingBefore /\ NothingAfter /\ AwakeWhenReady /\ MapInv /\ CountOK
    /\ bad \subseteq Excused

LEMMA MemoryIsSteady ==
    /\ memoryAllocation \subseteq Steady
    /\ Steady \subseteq Resources /\ Mappings \subseteq Resources
    /\ "hooks" \in Resources /\ "hooks" \notin Mappings /\ "netDevice" \in Steady
    /\ "scheduler" \notin Resources /\ "dma0" \notin Steady
  BY ResourcesAre DEF memoryAllocation, Steady, Mappings, Names

\* What is allocated is finite, so that it can be counted.
LEMMA AllocatedFinite == IsFiniteSet(Allocated)
<1>1. IsFiniteSet(memoryAllocation)
  <2>. DEFINE t == <<"axis", "wdBuffers", "cmdBuffers", "unitP", "unitS", "unitT">>
  <2>1. IsFiniteSet({"axis"})
    BY FS_Singleton
  <2>2. IsFiniteSet({"axis"} \cup {"wdBuffers"} \cup {"cmdBuffers"} \cup {"unitP"}
                      \cup {"unitS"} \cup {"unitT"})
    BY FS_Singleton, FS_Union
  <2>3. memoryAllocation = {"axis"} \cup {"wdBuffers"} \cup {"cmdBuffers"} \cup {"unitP"}
                             \cup {"unitS"} \cup {"unitT"}
    BY DEF memoryAllocation
  <2>. QED
    BY <2>2, <2>3
<1>2. Allocated \subseteq memoryAllocation
  BY DEF Allocated
<1>. QED
  BY <1>1, <1>2, FS_Subset

LEMMA InitRelInv == Init => RelInv
<1>. SUFFICES ASSUME Init PROVE RelInv
  OBVIOUS
<1>1. phase = "loading" /\ done = 0 /\ failed = {} /\ bad = {} /\ allocated = 0
  BY DEF Init
<1>2. \A r \in Resources : handle[r] = "null"
  BY DEF Init
<1>3. \A r \in Resources \ {"dma0"} : ToCome(initFpgaDriver, r)
  BY <1>1, LoadSpans, ResourcesAre DEF ToCome, Spans
<1>4. HeldOnceOwned /\ NothingBefore /\ NothingAfter
  BY <1>1, <1>2, <1>3, MemoryIsSteady DEF HeldOnceOwned, NothingBefore, NothingAfter,
     Owned, Mappings
<1>6. AwakeWhenReady /\ MapInv
  <2>1. AtRest
    BY DEF Init, CharInit, AtRest, Settled
  <2>2. Resting
    BY <1>2, MemoryIsSteady DEF Init, Resting, Actors
  <2>. QED
    BY <2>1, <2>2 DEF AwakeWhenReady, MapInv
<1>5. Allocated = {}
  BY <1>2, MemoryIsSteady DEF Allocated, Has
<1>. QED
  BY <1>1, <1>4, <1>5, <1>6, FS_EmptySet DEF RelInv, CountOK

-----------------------------------------------------------------------------
(* Configuring.                                                            *)

\* Whoever rests may begin with any device; whoever has answered all rests.
LEMMA RestingHandles ==
    ASSUME NEW p \in Actors, NEW dma \in Mappings
    PROVE  /\ Resting => Handles(p, dma)
           /\ Handles(p, dma) /\ mapStep[p] = "ask" => Resting
  BY DEF Resting, Handles, Has

\* A step of configDMA goes wrong only for a handle that could not be had.
LEMMA DmaStepHandles ==
    ASSUME LifeOK, DmaOK, NEW p \in Actors, NEW dma \in Mappings, DmaSteps(p, dma),
           Handles(p, dma)
    PROVE  Handles(p, dma)' /\ bad' \subseteq bad \cup failed
<1>0. /\ mapStep \in [Actors -> Answers] /\ dma \in Resources
      /\ handle \in [Resources -> {"null", "held", "stale"}]
      /\ Mappings \subseteq Resources
  BY MemoryIsSteady DEF DmaOK, LifeOK
<1>. DEFINE Claim == Handles(p, dma)' /\ bad' \subseteq bad \cup failed
<1>. HIDE DEF Answers, Actors, Mappings
<1>. USE <1>0 DEF Handles, Has
<1>1. ASSUME NEW a \in {"unmap", "map"}, Ask(p, dma, a) PROVE Claim
  BY <1>1 DEF Ask
<1>2. ASSUME Unmap(p, dma) PROVE Claim
  <2>1. handle[dma] # "null" /\ mapStep'[p] = "zero" /\ handle'[dma] = "stale"
    BY <1>2 DEF Unmap
  <2>2. bad' \subseteq bad \cup failed
    BY <1>2, <2>1 DEF Unmap
  <2>3. \A q \in Actors : q # p => mapStep'[q] = "ask"
    BY <1>2 DEF Unmap
  <2>4. \A d \in Mappings :
          handle'[d] = "stale" => d \in failed' \/ (d = dma /\ mapStep'[p] = "zero")
    BY <1>2, <2>1 DEF Unmap
  <2>. QED
    BY <2>1, <2>2, <2>3, <2>4
<1>3. ASSUME NEW next \in {"map", "ask"}, Zero(p, dma, next) PROVE Claim
  BY <1>3 DEF Zero
<1>4. ASSUME NEW b \in Targets, Map(p, dma, b) PROVE Claim
  BY <1>4 DEF Map
<1>5. ASSUME NEW b \in Targets, MapFails(p, dma, b) PROVE Claim
  BY <1>5 DEF MapFails
<1>6. ASSUME NEW b \in Targets, SetMessage(p, dma, b) PROVE Claim
  BY <1>6 DEF SetMessage
<1>7. ASSUME UNCHANGED <<handle, dmaVars, bad, failed, hasty>> PROVE Claim
  BY <1>7 DEF dmaVars
<1>. QED
  BY <1>1, <1>2, <1>3, <1>4, <1>5, <1>6, <1>7
     DEF DmaSteps, configDMA, configured, spiDmaDestroy, destroyed

\* The last step of it ends it.
LEMMA LastDmaStep ==
    ASSUME DmaOK, NEW p \in Actors, NEW dma,
           destroyed(p, dma) \/ \E b \in Targets : configured(p, dma, b)
    PROVE  mapStep'[p] = "ask"
<1>1. mapStep \in [Actors -> Answers]
  BY DEF DmaOK
<1>. QED
  BY <1>1 DEF destroyed, configured, MapFails, SetMessage, Zero, dmaVars

\* What stays if nobody configures.
LEMMA MapInvStays ==
    ASSUME MapInv, UNCHANGED <<phase, done, handle, failed, mapStep, doing>>,
           disorderly => disorderly'
    PROVE  MapInv'
<1>1. Resting => Resting'
  BY DEF Resting
<1>2. \A p, dma : Handles(p, dma) => Handles(p, dma)'
  BY DEF Handles, Has
<1>. QED
  BY <1>1, <1>2 DEF MapInv

-----------------------------------------------------------------------------
(* Loading.                                                                *)

\* A step of loading is about one resource, which it acquires or fails to.
LEMMA LoadOne ==
    ASSUME IInv, MachineOK, Load
    PROVE  LET r == initFpgaDriver[done + 1] IN
           /\ bad' = bad /\ ToCome(initFpgaDriver, r) /\ r \in Names \ {"dma0"}
           /\ \/ r = "scheduler" /\ UNCHANGED <<handle, allocated, failed>>
              \/ /\ r = "dma1" /\ allocated' = allocated
                 /\ failed' \in {failed, failed \cup {r}}
                 /\ \E worth \in {"held", "stale"} :
                      handle' \in {handle, [handle EXCEPT ![r] = worth]}
              \/ r = "hooks" /\ ~Has("netDevice") /\ UNCHANGED <<handle, allocated, failed>>
              \/ /\ r \in Resources /\ handle' = [handle EXCEPT ![r] = "held"]
                 /\ failed' = failed
                 /\ allocated' = IF r \in memoryAllocation THEN allocated + 1 ELSE allocated
              \/ /\ r \in Resources /\ failed' = failed \cup {r} /\ allocated' = allocated
                 /\ \E worth \in {"null", "stale"} : handle' = [handle EXCEPT ![r] = worth]
<1>. DEFINE r == initFpgaDriver[done + 1]
<1>1. phase = "loading" /\ done + 1 \in 1 .. Len(initFpgaDriver) /\ done \in Nat
  BY LoadFacts DEF IInv, LifeOK
<1>2. r \in Names \ {"dma0"} /\ ToCome(initFpgaDriver, r)
  BY <1>1, LoadSpans DEF Spans, ToCome
<1>3. Leaves(r) \subseteq {"null", "stale"}
  BY DEF Leaves
<1>4. r # "scheduler" => r \in Resources
  BY <1>2, ResourcesAre
<1>5. CASE r = "scheduler"
  BY <1>2, <1>5 DEF Load
<1>6. CASE r = "hooks" /\ ~Has("netDevice")
  BY <1>2, <1>6 DEF Load, SkipHooks
<1>7. CASE r # "scheduler" /\ Acquire(r)
  BY <1>2, <1>4, <1>7 DEF Acquire
<1>8. CASE r # "scheduler" /\ AcquireFails(r)
  BY <1>2, <1>3, <1>4, <1>8 DEF AcquireFails
<1>9. CASE r = "dma1"
  BY <1>2, <1>9 DEF Load, configured, MapFails, SetMessage
<1>. QED
  BY <1>5, <1>6, <1>7, <1>8, <1>9 DEF Load

\* The driver then owns one resource more.
LEMMA LoadOwned ==
    ASSUME IInv, Load, NEW x
    PROVE  LET r == initFpgaDriver[done + 1] IN
           /\ phase' \notin {"unloading", "unloaded"}
           /\ Owned(x)' => Owned(x) \/ x = r
           /\ phase' = "loading" /\ ToCome(initFpgaDriver, x)' =>
                ToCome(initFpgaDriver, x) /\ x # r
<1>. DEFINE r == initFpgaDriver[done + 1]
<1>1. /\ phase = "loading" /\ done + 1 \in 1 .. Len(initFpgaDriver) /\ done \in Nat
      /\ phase' \in {"loading", "ready", "discarded"}
      /\ phase' = "loading" => done' = done + 1
      /\ done + 1 < Len(initFpgaDriver) => phase' = "loading"
  BY LoadFacts DEF IInv, LifeOK
<1>2. Len(initFpgaDriver) \in Nat
  BY LoadSpans DEF Spans
<1>3. ASSUME Owned(x)', ~Owned(x) PROVE x = r
  <2>1. PICK k \in 1 .. Len(initFpgaDriver) : k > done /\ initFpgaDriver[k] = x
    BY <1>1, <1>3 DEF Owned, ToCome
  <2>2. CASE k = done + 1
    BY <2>1, <2>2
  <2>3. CASE k # done + 1
    <3>1. k > done + 1 /\ done + 1 < Len(initFpgaDriver)
      BY <1>1, <1>2, <2>1, <2>3
    <3>2. phase' = "loading" /\ ToCome(initFpgaDriver, x)'
      BY <1>1, <2>1, <3>1 DEF ToCome
    <3>. QED
      BY <1>3, <3>2 DEF Owned
  <2>. QED
    BY <2>2, <2>3
<1>4. ASSUME phase' = "loading", ToCome(initFpgaDriver, x)'
      PROVE  ToCome(initFpgaDriver, x) /\ x # r
  <2>1. PICK k \in 1 .. Len(initFpgaDriver) : k > done + 1 /\ initFpgaDriver[k] = x
    BY <1>1, <1>4 DEF ToCome
  <2>2. k > done /\ k # done + 1
    BY <1>1, <1>2, <2>1
  <2>. QED
    BY <1>1, <2>1, <2>2, LoadSpans DEF Spans, ToCome
<1>. QED
  BY <1>1, <1>3, <1>4

LEMMA LoadRelInv == IInv /\ MachineOK /\ RelInv /\ Load => RelInv'
<1>. SUFFICES ASSUME IInv, MachineOK, RelInv, Load PROVE RelInv'
  OBVIOUS
<1>. DEFINE r == initFpgaDriver[done + 1]
<1>1. /\ phase = "loading" /\ phase' \notin {"unloading", "unloaded"}
      /\ bad' = bad /\ ToCome(initFpgaDriver, r) /\ r \in Names \ {"dma0"}
      /\ handle \in [Resources -> {"null", "held", "stale"}]
  BY LoadOne, LoadOwned, LoadFacts DEF IInv, LifeOK
<1>2. /\ failed \subseteq failed' /\ Excused \subseteq Excused'
      /\ \A x \in Resources : x # r => handle'[x] = handle[x]
  <2>1. disorderly' = disorderly
    BY DEF Load
  <2>2. failed \subseteq failed'
    BY <1>1, LoadOne
  <2>3. \A x \in Resources : x # r => handle'[x] = handle[x]
    BY <1>1, LoadOne
  <2>. QED
    BY <2>1, <2>2, <2>3 DEF Excused
<1>3. r \in Resources => \/ handle'[r] = "held" \/ r \in failed'
                         \/ r = "hooks" /\ ~Has("netDevice")
                         \/ r = "dma1"
  BY <1>1, LoadOne, MemoryIsSteady
<1>4. \A x \in Steady : Owned(x)' => Has(x)' \/ x \in failed'
  <2>1. ASSUME NEW x \in Steady, Owned(x)', x # r PROVE Has(x)' \/ x \in failed'
    BY <1>2, <2>1, LoadOwned, MemoryIsSteady DEF RelInv, HeldOnceOwned, Has
  <2>2. ASSUME r \in Steady PROVE handle'[r] = "held" \/ r \in failed'
    BY <1>3, <2>2, MemoryIsSteady DEF Steady, Mappings
  <2>. QED
    BY <2>1, <2>2 DEF Has
<1>5. Owned("hooks")' => Has("hooks")' \/ "hooks" \in Excused'
  <2>1. CASE "hooks" # r
    BY <1>2, <2>1, LoadOwned, MemoryIsSteady DEF RelInv, HeldOnceOwned, Has
  <2>2. CASE "hooks" = r
    <3>1. ~Has("netDevice") => "netDevice" \in failed
      <4>1. ~ToCome(initFpgaDriver, "netDevice")
        <5>1. done + 1 \in 1 .. Len(initFpgaDriver) /\ done \in Nat
          BY LoadFacts DEF IInv, LifeOK
        <5>2. ASSUME NEW k \in 1 .. Len(initFpgaDriver), k > done,
                     initFpgaDriver[k] = "netDevice"
              PROVE  FALSE
          <6>1. k <= done + 1
            BY <2>2, <5>1, <5>2, HooksLast DEF Ordered
          <6>2. k = done + 1
            BY <5>1, <5>2, <6>1
          <6>. QED
            BY <2>2, <5>2, <6>2
        <5>. QED
          BY <5>2 DEF ToCome
      <4>2. Owned("netDevice")
        BY <1>1, <4>1 DEF Owned
      <4>. QED
        BY <4>2, MemoryIsSteady DEF RelInv, HeldOnceOwned
    <3>. QED
      BY <1>2, <1>3, <2>2, <3>1, MemoryIsSteady DEF Has, Excused
  <2>. QED
    BY <2>1, <2>2
<1>6. AwakeWhenReady' /\ MapInv'
  <2>0. /\ UNCHANGED <<command, doing, disorderly>> /\ file' = file
    BY LoadFacts DEF Load
  <2>1. AwakeWhenReady'
    BY <1>1, <2>0 DEF RelInv, AwakeWhenReady, AtRest, Settled
  <2>2. CASE r = "dma1"
    <3>1. DmaSteps("module", "dma1") /\ "module" \in Actors /\ "dma1" \in Mappings
      BY <2>2, DmaStepsAre
    <3>2. configured("module", "dma1", "axis") /\ "axis" \in Targets
      BY <2>2 DEF Load, Targets
    <3>3. PICK p \in Actors, dma \in Mappings : p = "module" /\ dma = "dma1"
      BY <3>1
    <3>4. mapStep'[p] = "ask"
      BY <3>2, <3>3, LastDmaStep DEF MachineOK
    <3>5. ~disorderly => Handles(p, dma)
      BY <1>1, <3>3, RestingHandles DEF RelInv, MapInv
    <3>6. ~disorderly => Handles(p, dma)'
      BY <3>1, <3>3, <3>5, DmaStepHandles DEF IInv, MachineOK
    <3>7. Handles(p, dma)' /\ mapStep'[p] = "ask" => Resting'
      BY DEF Resting, Handles
    <3>. QED
      BY <2>0, <2>1, <3>4, <3>6, <3>7 DEF MapInv
  <2>3. CASE r # "dma1"
    <3>1. ~disorderly => Resting
      BY <1>1, <2>3 DEF RelInv, MapInv
    <3>2. mapStep' = mapStep
      BY <2>3 DEF Load, Acquire, AcquireFails, SkipHooks, dmaVars
    <3>3. \A d \in Mappings : handle'[d] = handle[d]
      BY <1>1, <1>2, <2>3, MemoryIsSteady DEF Mappings, Names
    <3>. QED
      BY <1>2, <2>0, <2>1, <3>1, <3>2, <3>3 DEF MapInv, Resting
  <2>. QED
    BY <2>2, <2>3
<1>7. NothingBefore'
  <2>. SUFFICES ASSUME phase' = "loading", NEW x \in Resources \ Mappings,
                       ToCome(initFpgaDriver, x)'
                PROVE  handle'[x] = "null"
    BY DEF NothingBefore
  <2>1. ToCome(initFpgaDriver, x) /\ x # r
    BY LoadOwned
  <2>. QED
    BY <1>1, <1>2, <2>1 DEF RelInv, NothingBefore
<1>8. CountOK'
  <2>. SUFFICES ASSUME failed' \cap memoryAllocation = {}
                PROVE  allocated' = Cardinality(Allocated')
    BY DEF CountOK
  <2>1. allocated = Cardinality(Allocated) /\ Cardinality(Allocated) \in Nat
    BY <1>2, AllocatedFinite, FS_CardinalityType DEF RelInv, CountOK
  <2>2. CASE r \in memoryAllocation
    <3>1. /\ handle' = [handle EXCEPT ![r] = "held"] /\ allocated' = allocated + 1
          /\ r \in Resources \ Mappings
      <4>1. r # "dma1" /\ r # "hooks" /\ r # "scheduler"
        BY <2>2 DEF memoryAllocation
      <4>2. r \notin failed'
        BY <2>2
      <4>. QED
        BY <2>2, <4>1, <4>2, LoadOne, MemoryIsSteady DEF Steady
    <3>2. handle[r] = "null"
      BY <1>1, <3>1 DEF RelInv, NothingBefore
    <3>3. r \notin Allocated /\ Allocated' = Allocated \cup {r}
      BY <1>1, <2>2, <3>1, <3>2, MemoryIsSteady DEF Allocated, Has
    <3>. QED
      BY <2>1, <3>1, <3>3, AllocatedFinite, FS_AddElement
  <2>3. CASE r \notin memoryAllocation
    <3>1. allocated' = allocated
      BY <2>3, LoadOne
    <3>2. Allocated' = Allocated
      BY <1>2, <2>3, MemoryIsSteady DEF Allocated, Has
    <3>. QED
      BY <2>1, <3>1, <3>2
  <2>. QED
    BY <2>2, <2>3
<1>9. bad' \subseteq Excused'
  BY <1>1, <1>2 DEF RelInv
<1>. QED
  BY <1>1, <1>4, <1>5, <1>6, <1>7, <1>8, <1>9 DEF RelInv, HeldOnceOwned, NothingAfter

-----------------------------------------------------------------------------
(* Unloading.                                                              *)

\* A step of unloading is about one resource, which the driver then owns no more.
LEMMA UnloadOwned ==
    ASSUME IInv, Unload, NEW x \in Resources
    PROVE  LET r == exitFpgaDriver[done + 1] IN
           /\ phase = "unloading" /\ phase' \in {"unloading", "unloaded"}
           /\ r \in Resources /\ Owned(r) /\ (r \notin Mappings => Released(r))
           /\ (r \in Mappings => destroyed("module", r) /\ UNCHANGED <<allocated, bad>>)
           /\ UNCHANGED <<file, doing, failed, disorderly>> /\ command' \in {"none", command}
           /\ Owned(x)' <=> Owned(x) /\ x # r
<1>. DEFINE r == exitFpgaDriver[done + 1]
<1>1. /\ phase = "unloading" /\ done \in Nat /\ done < Len(exitFpgaDriver)
      /\ (r \notin Mappings => Released(r))
      /\ (r \in Mappings => destroyed("module", r) /\ UNCHANGED <<allocated, bad>>)
      /\ DestroyMutexOf(r) /\ UNCHANGED <<doing, failed, disorderly>>
      /\ command' \in {"none", command}
      /\ phase' = IF done + 1 = Len(exitFpgaDriver) THEN "unloaded" ELSE phase
      /\ done' = IF done + 1 = Len(exitFpgaDriver) THEN 0 ELSE done + 1
  BY DEF IInv, LifeOK, Unload, Released, destroyed, Zero
<1>2. Len(exitFpgaDriver) \in Nat /\ done + 1 \in 1 .. Len(exitFpgaDriver)
  BY <1>1, UnloadSpans DEF Spans
<1>3. r \in Resources /\ Owned(r)
  BY <1>1, <1>2, UnloadSpans, ResourcesAre DEF Spans, Owned, ToCome
<1>4. file' = file
  BY <1>1 DEF DestroyMutexOf, MutexDestroy, charVars, DevicesOf
<1>5. PICK k \in 1 .. Len(exitFpgaDriver) : exitFpgaDriver[k] = x
  BY UnloadSpans, ResourcesAre DEF Spans
<1>6. \A i \in 1 .. Len(exitFpgaDriver) : exitFpgaDriver[i] = x => i = k
  BY <1>5, UnloadSpans DEF Spans
<1>7. Owned(x) <=> k > done
  BY <1>1, <1>5, <1>6 DEF Owned, ToCome
<1>8. x = r <=> k = done + 1
  BY <1>2, <1>5, <1>6
<1>9. Owned(x)' <=> k > done + 1
  <2>1. CASE done + 1 = Len(exitFpgaDriver)
    <3>1. phase' = "unloaded" /\ ~(k > done + 1)
      BY <1>1, <1>2, <2>1
    <3>. QED
      BY <3>1 DEF Owned
  <2>2. CASE done + 1 # Len(exitFpgaDriver)
    <3>1. phase' = "unloading" /\ done' = done + 1
      BY <1>1, <2>2
    <3>. QED
      BY <1>5, <1>6, <3>1 DEF Owned, ToCome
  <2>. QED
    BY <2>1, <2>2
<1>10. k > done + 1 <=> k > done /\ k # done + 1
  BY <1>1, <1>2
<1>. QED
  BY <1>1, <1>3, <1>4, <1>7, <1>8, <1>9, <1>10

LEMMA UnloadRelInv == IInv /\ MachineOK /\ RelInv /\ Unload => RelInv'
<1>. SUFFICES ASSUME IInv, MachineOK, RelInv, Unload PROVE RelInv'
  OBVIOUS
<1>. DEFINE r == exitFpgaDriver[done + 1]
<1>1. /\ phase = "unloading" /\ phase' \in {"unloading", "unloaded"}
      /\ r \in Resources /\ Owned(r) /\ (r \notin Mappings => Released(r))
      /\ (r \in Mappings => destroyed("module", r) /\ UNCHANGED <<allocated, bad>>)
      /\ UNCHANGED <<file, doing, failed, disorderly>> /\ command' \in {"none", command}
  BY UnloadOwned, MemoryIsSteady
<1>2. \A x \in Resources : Owned(x)' <=> Owned(x) /\ x # r
  BY UnloadOwned
<1>3. handle \in [Resources -> {"null", "held", "stale"}]
  BY DEF IInv, LifeOK
<1>4. /\ \A x \in Resources : x # r => handle'[x] = handle[x]
      /\ handle'[r] # "held"
  BY <1>1, UnloadHandles
<1>5. HeldOnceOwned'
  <2>1. \A x \in Steady : Owned(x)' => Has(x)' \/ x \in failed'
    BY <1>1, <1>2, <1>4, MemoryIsSteady DEF RelInv, HeldOnceOwned, Has
  <2>2. Owned("hooks")' => Has("hooks")' \/ "hooks" \in Excused'
    BY <1>1, <1>2, <1>4, MemoryIsSteady DEF RelInv, HeldOnceOwned, Has, Excused
  <2>. QED
    BY <2>1, <2>2 DEF HeldOnceOwned
<1>6. NothingAfter'
  <2>. SUFFICES ASSUME NEW x \in Resources, ~Owned(x)'
                PROVE  handle'[x] # "held" \/ (x \in Mappings /\ disorderly')
    BY DEF NothingAfter, Has
  <2>1. CASE x = r
    BY <1>4, <2>1
  <2>2. CASE x # r
    BY <1>1, <1>2, <1>4, <2>2 DEF RelInv, NothingAfter, Has
  <2>. QED
    BY <2>1, <2>2
<1>7. CountOK'
  <2>. SUFFICES ASSUME failed \cap memoryAllocation = {}
                PROVE  allocated' = Cardinality(Allocated')
    BY <1>1 DEF CountOK
  <2>1. allocated = Cardinality(Allocated) /\ Cardinality(Allocated) \in Nat
    BY AllocatedFinite, FS_CardinalityType DEF RelInv, CountOK
  <2>2. CASE r \in memoryAllocation
    <3>1. handle[r] = "held"
      BY <1>1, <2>2, MemoryIsSteady DEF RelInv, HeldOnceOwned, Has
    <3>2. allocated' = allocated - 1 /\ handle'[r] # "held"
      BY <1>1, <1>4, <2>2, <3>1, MemoryIsSteady DEF Released, Steady
    <3>3. r \in Allocated /\ Allocated' = Allocated \ {r}
      BY <1>4, <2>2, <3>1, <3>2, MemoryIsSteady DEF Allocated, Has
    <3>4. Cardinality(Allocated \ {r}) = Cardinality(Allocated) - 1
      BY <3>3, AllocatedFinite, FS_RemoveElement
    <3>. QED
      BY <2>1, <3>2, <3>3, <3>4
  <2>3. CASE r \notin memoryAllocation
    <3>1. allocated' = allocated
      BY <1>1, <2>3 DEF Released
    <3>2. Allocated' = Allocated
      BY <1>4, <2>3, MemoryIsSteady DEF Allocated, Has
    <3>. QED
      BY <2>1, <3>1, <3>2
  <2>. QED
    BY <2>2, <2>3
<1>8. bad' \subseteq Excused'
  <2>1. bad' # bad => bad' = bad \cup {r} /\ handle[r] # "held"
                      /\ (handle[r] = "stale" \/ r \in Unasked)
    BY <1>1, <1>3 DEF Released, Has
  <2>3. bad' # bad => r \notin Mappings
    BY <1>1
  <2>2. r \notin Mappings /\ handle[r] # "held" /\ (handle[r] = "stale" \/ r \in Unasked) => r \in Excused
    <3>1. CASE r \in Steady
      BY <1>1, <3>1 DEF RelInv, HeldOnceOwned, Has, Excused
    <3>2. CASE r = "hooks"
      BY <1>1, <3>2 DEF RelInv, HeldOnceOwned, Has
    <3>. QED
      BY <1>1, <3>1, <3>2 DEF Steady
  <2>. QED
    BY <1>1, <2>1, <2>2, <2>3 DEF RelInv, Excused
<1>9. AwakeWhenReady' /\ MapInv'
  <2>1. AwakeWhenReady'
    BY <1>1 DEF RelInv, AwakeWhenReady, AtRest, Settled
  <2>2. CASE r \in Mappings
    <3>1. PICK p \in Actors, dma \in Mappings : p = "module" /\ dma = r
      BY <2>2, DmaStepsAre
    <3>2. DmaSteps(p, dma) /\ destroyed(p, dma)
      BY <1>1, <2>2, <3>1, DmaStepsAre
    <3>4. mapStep'[p] = "ask"
      BY <3>2, LastDmaStep DEF MachineOK
    <3>5. ~disorderly => Handles(p, dma)
      BY <1>1, <3>1, RestingHandles DEF RelInv, MapInv
    <3>6. ~disorderly => Handles(p, dma)'
      BY <3>2, <3>5, DmaStepHandles DEF IInv, MachineOK
    <3>7. Handles(p, dma)' /\ mapStep'[p] = "ask" => Resting'
      BY DEF Resting, Handles
    <3>. QED
      BY <1>1, <2>1, <3>4, <3>6, <3>7 DEF MapInv
  <2>3. CASE r \notin Mappings
    <3>1. ~disorderly => Resting
      BY <1>1, <2>3 DEF RelInv, MapInv
    <3>2. mapStep' = mapStep
      BY <1>1, <2>3 DEF Released, dmaVars
    <3>3. \A d \in Mappings : handle'[d] = handle[d]
      BY <1>4, <2>3, MemoryIsSteady
    <3>. QED
      BY <1>1, <2>1, <3>1, <3>2, <3>3 DEF MapInv, Resting
  <2>. QED
    BY <2>2, <2>3
<1>10. NothingBefore'
  BY <1>1 DEF NothingBefore
<1>. QED
  BY <1>5, <1>6, <1>7, <1>8, <1>9, <1>10 DEF RelInv

\* When unloading begins the driver owns all it owned, and who is not at rest is
\* disorderly.
LEMMA RmmodRelInv == IInv /\ RelInv /\ rmmod => RelInv'
<1>. SUFFICES ASSUME IInv, RelInv, rmmod PROVE RelInv'
  OBVIOUS
<1>1. /\ phase = "ready" /\ phase' = "unloading" /\ done' = 0
      /\ UNCHANGED <<file, command, doing, handle, allocated, failed, bad, mapStep>>
      /\ ~disorderly' => AtRest /\ ~disorderly
  BY DEF rmmod, charVars, machineVars, dmaVars, AtRest
<1>2. \A x \in Resources : Owned(x) /\ Owned(x)'
  BY <1>1, UnloadSpans, ResourcesAre DEF Spans, Owned, ToCome
<1>3. HeldOnceOwned' /\ NothingAfter' /\ NothingBefore'
  BY <1>1, <1>2, MemoryIsSteady DEF RelInv, HeldOnceOwned, NothingAfter, NothingBefore, Has,
     Excused
<1>4. Allocated' = Allocated
  BY <1>1 DEF Allocated, Has
<1>5. AwakeWhenReady' /\ MapInv'
  <2>1. ~disorderly' => Resting
    BY <1>1 DEF RelInv, MapInv, AtRest, Settled, Configs
  <2>. QED
    BY <1>1, <2>1 DEF AwakeWhenReady, MapInv, Resting, AtRest, Settled
<1>6. bad' \subseteq Excused'
  BY <1>1 DEF RelInv, Excused
<1>. QED
  BY <1>1, <1>3, <1>4, <1>5, <1>6 DEF RelInv, CountOK

-----------------------------------------------------------------------------
(* What runs meanwhile.                                                    *)

\* A step that is no part of loading or unloading.
Beside ==
    /\ UNCHANGED <<phase, done, allocated>>
    /\ disorderly => disorderly'
    /\ AwakeWhenReady' /\ MapInv'

LEMMA RestRelInv ==
    RelInv /\ Beside /\ UNCHANGED <<handle, failed, bad>> => RelInv'
<1>. SUFFICES ASSUME RelInv, Beside, UNCHANGED <<handle, failed, bad>> PROVE RelInv'
  OBVIOUS
<1>1. \A x : Owned(x)' <=> Owned(x)
  BY DEF Owned, ToCome, Beside
<1>2. \A x : ToCome(initFpgaDriver, x)' <=> ToCome(initFpgaDriver, x)
  BY DEF ToCome, Beside
<1>3. HeldOnceOwned'
  BY <1>1 DEF RelInv, HeldOnceOwned, Has, Excused, Mappings
<1>4. NothingBefore' /\ NothingAfter'
  BY <1>1, <1>2 DEF RelInv, NothingBefore, NothingAfter, Has, Beside
<1>5. Allocated' = Allocated
  BY DEF Allocated, Has
<1>6. bad' \subseteq Excused'
  BY DEF RelInv, Excused, Beside
<1>. QED
  BY <1>3, <1>4, <1>5, <1>6 DEF RelInv, CountOK, Beside

\* Mapping a buffer anew undoes the old mapping; only a mapping that failed is undone
\* without being there, or one that another thread undoes meanwhile.
LEMMA MapRelInv ==
    ASSUME IInv, MachineOK, RelInv, Beside, UNCHANGED disorderly,
           NEW p \in Actors, NEW dma \in Mappings, DmaSteps(p, dma),
           ~disorderly => Handles(p, dma),
           phase \in {"unloading", "unloaded"} => disorderly \/ (Has(dma)' => Has(dma))
    PROVE  RelInv'
<1>1. handle \in [Resources -> {"null", "held", "stale"}] /\ dma \in Resources
  BY MemoryIsSteady DEF IInv, LifeOK
<1>2. /\ \A x \in Resources : x # dma => handle'[x] = handle[x]
      /\ bad' \in {bad, bad \cup {dma}} /\ failed' \in {failed, failed \cup {dma}}
  <2>1. /\ bad' \in {bad, bad \cup {dma}} /\ failed' \in {failed, failed \cup {dma}}
        /\ \E worth \in {"null", "held", "stale"} :
             handle' \in {handle, [handle EXCEPT ![dma] = worth]}
    BY DmaStepFacts DEF IInv, MachineOK
  <2>. QED
    BY <1>1, <2>1
<1>3. /\ failed \subseteq failed' /\ Excused \subseteq Excused'
      /\ failed' \cap memoryAllocation = failed \cap memoryAllocation
  BY <1>2 DEF Excused, Mappings, memoryAllocation
<1>4. (\A x : Owned(x)' <=> Owned(x)) /\ phase' = phase
  BY DEF Owned, ToCome, Beside
<1>5. \A x : ToCome(initFpgaDriver, x)' <=> ToCome(initFpgaDriver, x)
  BY DEF ToCome, Beside
<1>6. HeldOnceOwned'
  <2>1. \A x \in Steady : Owned(x)' => Has(x)' \/ x \in failed'
    BY <1>2, <1>3, <1>4, MemoryIsSteady DEF RelInv, HeldOnceOwned, Has, Steady
  <2>2. Owned("hooks")' => Has("hooks")' \/ "hooks" \in Excused'
    BY <1>2, <1>3, <1>4, MemoryIsSteady DEF RelInv, HeldOnceOwned, Has
  <2>. QED
    BY <2>1, <2>2 DEF HeldOnceOwned
<1>7. NothingBefore'
  BY <1>2, <1>4, <1>5 DEF RelInv, NothingBefore
<1>8. NothingAfter'
  <2>. SUFFICES ASSUME NEW x \in Resources, phase \in {"unloading", "unloaded"}, ~Owned(x)
                PROVE  handle'[x] # "held" \/ (x \in Mappings /\ disorderly')
    BY <1>4 DEF NothingAfter, Has
  <2>2. CASE x = dma
    BY <2>2 DEF RelInv, NothingAfter, Has
  <2>3. CASE x # dma
    BY <1>2, <2>3 DEF RelInv, NothingAfter, Has
  <2>. QED
    BY <2>2, <2>3
<1>9. CountOK'
  <2>1. Allocated' = Allocated
    BY <1>2, MemoryIsSteady DEF Allocated, Has, Steady
  <2>. QED
    BY <1>3, <2>1 DEF RelInv, CountOK, Beside
<1>10. bad' \subseteq Excused'
  <2>1. CASE disorderly
    BY <1>2, <1>3, <2>1 DEF RelInv, Excused
  <2>2. CASE ~disorderly
    <3>1. bad' \subseteq bad \cup failed
      BY <2>2, DmaStepHandles DEF IInv, MachineOK
    <3>. QED
      BY <1>3, <3>1 DEF RelInv, Excused
  <2>. QED
    BY <2>1, <2>2
<1>. QED
  BY <1>6, <1>7, <1>8, <1>9, <1>10 DEF RelInv, Beside

\* The module unmaps, and maps only while it loads.
LEMMA ModuleMapsRelInv ==
    IInv /\ MachineOK /\ RelInv /\ (spiInitConfig \/ spiDestroyUnmaps) => RelInv'
<1>. SUFFICES ASSUME IInv, MachineOK, RelInv, spiInitConfig \/ spiDestroyUnmaps PROVE RelInv'
  OBVIOUS
<1>1. /\ UNCHANGED <<phase, done, allocated, disorderly, command, doing, file>>
      /\ phase \in {"loading", "unloading"}
  BY DEF spiInitConfig, spiDestroyUnmaps, charVars
<1>2. PICK p \in Actors, dma \in Mappings :
         /\ p = "module" /\ DmaSteps(p, dma)
         /\ \/ phase = "loading" /\ dma = "dma1" /\ initFpgaDriver[done + 1] = "dma1"
            \/ /\ phase = "unloading" /\ exitFpgaDriver[done + 1] = dma
               /\ Has(dma)' => Has(dma)
  <2>1. CASE spiInitConfig
    BY <2>1, DmaStepsAre DEF spiInitConfig
  <2>2. CASE spiDestroyUnmaps
    <3>1. PICK dma \in Mappings : dma = exitFpgaDriver[done + 1]
      BY <2>2, DmaStepsAre
    <3>2. DmaSteps("module", dma) /\ spiDmaDestroy("module", dma) /\ phase = "unloading"
      BY <2>2, <3>1, DmaStepsAre DEF spiDestroyUnmaps
    <3>3. Has(dma)' => Has(dma)
      <4>1. handle \in [Resources -> {"null", "held", "stale"}] /\ dma \in Resources
        BY MemoryIsSteady DEF IInv, LifeOK
      <4>. QED
        BY <3>2, <4>1 DEF spiDmaDestroy, Ask, Unmap, Has
    <3>. QED
      BY <3>1, <3>2, <3>3, DmaStepsAre
  <2>. QED
    BY <2>1, <2>2
<1>3. ~disorderly => Handles(p, dma)
  BY <1>1, <1>2, RestingHandles DEF RelInv, MapInv
<1>4. ~disorderly => Handles(p, dma)'
  BY <1>2, <1>3, DmaStepHandles DEF IInv, MachineOK
<1>5. AwakeWhenReady'
  BY <1>1 DEF RelInv, AwakeWhenReady, AtRest, Settled
<1>6. MapInv'
  BY <1>1, <1>2, <1>4 DEF MapInv
<1>. QED
  BY <1>1, <1>2, <1>3, <1>5, <1>6, MapRelInv DEF Beside

\* A command that configures while the driver is not ready is disorderly.
LEMMA CaseRelInv == IInv /\ MachineOK /\ RelInv /\ CaseConfigures => RelInv'
<1>. SUFFICES ASSUME IInv, MachineOK, RelInv, CaseConfigures PROVE RelInv'
  OBVIOUS
<1>1. /\ UNCHANGED <<phase, done, allocated, disorderly, command, doing, file>>
      /\ doing \in Configs
  BY DEF CaseConfigures, charVars
<1>2. PICK p \in Actors, dma \in Mappings :
         p = "machine" /\ dma = ConfiguredBy(doing) /\ DmaSteps(p, dma)
  BY <1>1, DmaStepsAre
<1>3. ~disorderly => phase = "ready"
  BY <1>1 DEF RelInv, AwakeWhenReady, AtRest, Settled, Configs
<1>4. ~disorderly => Handles(p, dma)
  BY <1>1, <1>2, <1>3, RestingHandles DEF RelInv, MapInv
<1>5. ~disorderly => Handles(p, dma)'
  BY <1>2, <1>4, DmaStepHandles DEF IInv, MachineOK
<1>6. AwakeWhenReady'
  BY <1>1 DEF RelInv, AwakeWhenReady, AtRest, Settled
<1>7. MapInv'
  BY <1>1, <1>2, <1>3, <1>5 DEF MapInv
<1>. QED
  BY <1>1, <1>2, <1>3, <1>4, <1>6, <1>7, MapRelInv DEF Beside

LEMMA RunCommandRelInv == IInv /\ MachineOK /\ RelInv /\ RunCommand => RelInv'
<1>. SUFFICES ASSUME IInv, MachineOK, RelInv, RunCommand PROVE RelInv'
  OBVIOUS
<1>1. /\ UNCHANGED <<phase, done, allocated, disorderly, file>>
      /\ doing # "none" /\ doing' = "none"
  BY DEF RunCommand, charVars
<1>2. ~disorderly => phase = "ready"
  BY <1>1 DEF RelInv, AwakeWhenReady, AtRest, Settled
<1>3. AwakeWhenReady'
  BY <1>1, <1>2 DEF AwakeWhenReady
<1>4. CASE doing \in Configs
  <2>1. PICK p \in Actors, dma \in Mappings :
           p = "machine" /\ dma = ConfiguredBy(doing) /\ DmaSteps(p, dma)
    BY <1>4, DmaStepsAre
  <2>2. \E b \in Targets : configured(p, dma, b)
    <3>1. configured("machine", ConfiguredBy(doing), BuffersFor(doing))
      BY <1>4 DEF RunCommand, Configs
    <3>. QED
      BY <1>4, <2>1, <3>1, DmaStepsAre
  <2>3. mapStep'[p] = "ask"
    BY <2>2, LastDmaStep DEF MachineOK
  <2>4. ~disorderly => Handles(p, dma)
    BY <1>2, <1>4, <2>1, RestingHandles DEF RelInv, MapInv
  <2>5. ~disorderly => Handles(p, dma)'
    BY <2>1, <2>4, DmaStepHandles DEF IInv, MachineOK
  <2>6. Handles(p, dma)' /\ mapStep'[p] = "ask" => Resting'
    BY DEF Resting, Handles
  <2>7. MapInv'
    BY <1>1, <2>3, <2>5, <2>6 DEF MapInv
  <2>. QED
    BY <1>1, <1>2, <1>3, <2>1, <2>4, <2>7, MapRelInv DEF Beside
<1>5. CASE doing \notin Configs
  <2>1. doing \in {"SM_PRIMARY_SPI", "SM_FPGA_RESET"}
    BY <1>1, <1>5, CommandsAre
  <2>2. UNCHANGED <<handle, failed, bad, mapStep>>
    BY <1>5, <2>1 DEF RunCommand, dmaVars, Configs
  <2>3. ~disorderly => Resting
    BY <1>2, <1>5 DEF RelInv, MapInv
  <2>4. MapInv'
    BY <1>1, <2>2, <2>3 DEF MapInv, Resting
  <2>. QED
    BY <1>1, <1>3, <2>2, <2>4, RestRelInv DEF Beside
<1>. QED
  BY <1>4, <1>5

\* Everybody else only makes the driver disorderly.
LEMMA OthersRelInv ==
    ASSUME RelInv, Interrupts \/ Works \/ watchdogThread \/ TakeCommand
                   \/ \E u \in Users : Calls(u)
    PROVE  RelInv'
<1>. DEFINE Kept == UNCHANGED <<phase, done, allocated, handle, failed, bad, mapStep>>
            Rests == AwakeWhenReady'
<1>. SUFFICES /\ Kept
              /\ disorderly => disorderly'
              /\ doing' = doing \/ doing = "none"
              /\ Rests
  <2>1. ASSUME Kept, disorderly => disorderly', doing' = doing PROVE MapInv'
    BY <2>1, MapInvStays DEF RelInv
  <2>2. ASSUME Kept, disorderly => disorderly', doing = "none" PROVE MapInv'
    <3>1. ~disorderly => Resting \/ phase \in {"loading", "unloading"}
      BY <2>2 DEF RelInv, MapInv, Configs
    <3>2. Resting => Resting'
      BY <2>2 DEF Resting
    <3>3. \A p, dma : Handles(p, dma) => Handles(p, dma)'
      BY <2>2 DEF Handles, Has
    <3>4. "none" \notin Configs
      BY DEF Configs
    <3>. QED
      BY <2>2, <3>1, <3>2, <3>3, <3>4 DEF RelInv, MapInv
  <2>. QED
    BY <2>1, <2>2, RestRelInv DEF Beside
<1>. USE DEF AtRest, Settled, AwakeWhenReady, charVars, machineVars, dmaVars
<1>0. AwakeWhenReady
  BY DEF RelInv
<1>1. CASE InterruptFromFPGA_SpiISR
  BY <1>0, <1>1 DEF InterruptFromFPGA_SpiISR
<1>2. CASE InterruptFromFPGA_TimerISR \/ TimerWork
  BY <1>0, <1>2 DEF InterruptFromFPGA_TimerISR, TimerWork
<1>3. CASE \E w \in {"P", "S"} : WorkBegins(w) \/ WorkEnds(w)
  BY <1>0, <1>3 DEF WorkBegins, WorkEnds
<1>4. CASE watchdogThread
  BY <1>0, <1>4 DEF watchdogThread
<1>5. CASE TakeCommand
  BY <1>0, <1>5 DEF TakeCommand
<1>6. ASSUME NEW u \in Users, Calls(u)
      PROVE  Kept /\ (disorderly => disorderly') /\ doing' = doing /\ Rests
  <2>1. CASE read(u)
    BY <1>0, <2>1 DEF read
  <2>2. CASE opened(u)
    BY <1>0, <2>2 DEF opened, OpenResult, Out
  <2>3. CASE close(u)
    BY <1>0, <2>3 DEF close, Close, Out
  <2>4. ASSUME NEW c \in scene.commands, commanderWrite(u, c)
        PROVE  Kept /\ disorderly' = disorderly /\ doing' = doing /\ Rests
    BY <1>0, <2>4 DEF commanderWrite, Out
  <2>5. ASSUME NEW d \in Devices, open(u, d)
        PROVE  /\ Kept /\ doing' = doing
               /\ disorderly => disorderly'
               /\ phase # "ready" => disorderly'
    BY <2>5 DEF open
  <2>. QED
    BY <1>6, <2>1, <2>2, <2>3, <2>4, <2>5 DEF Calls
<1>. QED
  BY <1>1, <1>2, <1>3, <1>4, <1>5, <1>6 DEF Interrupts, Works

-----------------------------------------------------------------------------
(* The theorem.                                                            *)

\* Every step keeps the invariant.
LEMMA NextRelInv == IInv /\ MachineOK /\ RelInv /\ [Next]_vars => RelInv'
<1>1. ASSUME IInv, MachineOK, RelInv, UNCHANGED vars PROVE RelInv'
  <2>1. UNCHANGED <<phase, done, allocated, handle, failed, bad, disorderly, file, command,
                    doing, mapStep>>
    BY <1>1 DEF vars, lifeVars, charVars, machineVars, dmaVars
  <2>2. AwakeWhenReady' /\ MapInv'
    BY <1>1, <2>1, MapInvStays DEF RelInv, AwakeWhenReady, AtRest, Settled
  <2>. QED
    BY <1>1, <2>1, <2>2, RestRelInv DEF Beside
<1>. QED
  BY <1>1, LoadRelInv, RmmodRelInv, UnloadRelInv, ModuleMapsRelInv, CaseRelInv, RunCommandRelInv,
     OthersRelInv DEF Next, Module, Threads, MachineThread

\* Unloading releases what was acquired, once, for both devices, any users and
\* commands, and however many resources cannot be had.
THEOREM ReleasesOnce == Spec => []ReleasedOnce
<1>1. RelInv => ReleasedOnce
  <2>. SUFFICES ASSUME RelInv PROVE ReleasedOnce
    OBVIOUS
  <2>1. phase = "unloaded" => \A r \in Resources : Has(r) => disorderly /\ r \in Mappings
    BY DEF RelInv, NothingAfter, Owned
  <2>2. ASSUME phase = "unloaded", failed \cap memoryAllocation = {} PROVE allocated = 0
    <3>1. Allocated = {}
      BY <2>2, MemoryIsSteady DEF RelInv, NothingAfter, Owned, Allocated, Steady
    <3>. QED
      BY <2>2, <3>1, FS_EmptySet DEF RelInv, CountOK
  <2>. QED
    BY <2>1, <2>2 DEF RelInv, Excused, ReleasedOnce
<1>. QED
  BY <1>1, InitRelInv, NextRelInv, AlwaysIInv, PTL DEF Spec
-----------------------------------------------------------------------------
(* Nothing is used that is not there.  What an activity uses was acquired  *)
(* before it could begin and is released after it has ended, so the ranks  *)
(* of the resources in both sequences come first.                          *)

\* When a resource is acquired: before the DMA mapping, with the work, with the
\* interrupts, or later.
LoadRank ==
    [r \in Names |->
        CASE r = "dma1" -> 1
          [] r \in {"unitP", "queueP", "unitS", "queueS", "unitT", "queueT"} -> 2
          [] r \in {"irqSpi", "irqTimer", "irqWatchdog", "outReset", "outF1", "outF2"} -> 3
          [] r \in {"wdThread", "scheduler", "netDevice", "hooks"} -> 4
          [] OTHER -> 0]

\* When it is released: each queue before its unit, and the SPI after the work and
\* its mappings.
UnloadRank ==
    [r \in Names |->
        CASE r = "queueP" -> 1
          [] r \in {"unitP", "queueS"} -> 2
          [] r \in {"unitS", "queueT"} -> 3
          [] r = "unitT" -> 4
          [] r \in {"dma0", "dma1"} -> 5
          [] r \in {"spi0", "spi1"} -> 6
          [] r \in {"wdNode", "wdBuffers", "cmdNode", "cmdBuffers", "smThread", "disk",
                    "axis"} -> 7
          [] OTHER -> 0]

\* The ranks of s go from lo to hi and do not fall.
Climbs(s, rank, lo, hi) ==
    /\ s \in Seq(Names)
    /\ \A i \in 1 .. Len(s) : lo <= rank[s[i]] /\ rank[s[i]] <= hi
    /\ \A i, j \in 1 .. Len(s) : i <= j => rank[s[i]] <= rank[s[j]]

\* One climb behind the other.
LEMMA ClimbsBoth ==
    ASSUME NEW rank \in [Names -> Nat], NEW lo \in Nat, NEW mid \in Nat, NEW hi \in Nat,
           NEW s, NEW t, Climbs(s, rank, lo, mid), Climbs(t, rank, mid, hi),
           lo <= mid, mid <= hi
    PROVE  Climbs(s \o t, rank, lo, hi)
<1>1. /\ s \o t \in Seq(Names) /\ Len(s \o t) = Len(s) + Len(t)
      /\ \A i \in 1 .. Len(s) + Len(t) :
            (s \o t)[i] = IF i <= Len(s) THEN s[i] ELSE t[i - Len(s)]
  BY ConcatProperties DEF Climbs
<1>2. Len(s) \in Nat /\ Len(t) \in Nat
  BY DEF Climbs
<1>3. /\ \A i \in 1 .. Len(s) : rank[s[i]] \in Nat
      /\ \A i \in 1 .. Len(t) : rank[t[i]] \in Nat
  BY DEF Climbs
<1>4. ASSUME NEW i \in 1 .. Len(s \o t), NEW j \in 1 .. Len(s \o t), i <= j
      PROVE  /\ lo <= rank[(s \o t)[i]] /\ rank[(s \o t)[i]] <= hi
             /\ rank[(s \o t)[i]] <= rank[(s \o t)[j]]
  <2>1. i \in Nat /\ j \in Nat /\ i \in 1 .. Len(s) + Len(t) /\ j \in 1 .. Len(s) + Len(t)
    BY <1>1, <1>2
  <2>2. CASE j <= Len(s)
    <3>1. i \in 1 .. Len(s) /\ j \in 1 .. Len(s)
      BY <1>2, <1>4, <2>1, <2>2
    <3>2. (s \o t)[i] = s[i] /\ (s \o t)[j] = s[j]
      BY <1>1, <2>1, <3>1
    <3>3. /\ lo <= rank[s[i]] /\ rank[s[i]] <= mid /\ rank[s[i]] <= rank[s[j]]
      BY <1>4, <3>1 DEF Climbs
    <3>4. rank[s[i]] <= hi
      BY <1>3, <3>1, <3>3
    <3>. QED
      BY <3>2, <3>3, <3>4
  <2>3. CASE i > Len(s)
    <3>. DEFINE k == i - Len(s)
                l == j - Len(s)
    <3>1. k \in 1 .. Len(t) /\ l \in 1 .. Len(t) /\ k <= l
      BY <1>2, <1>4, <2>1, <2>3
    <3>2. (s \o t)[i] = t[k] /\ (s \o t)[j] = t[l]
      BY <1>1, <1>2, <1>4, <2>1, <2>3
    <3>. HIDE DEF k, l
    <3>3. /\ mid <= rank[t[k]] /\ rank[t[k]] <= hi /\ rank[t[k]] <= rank[t[l]]
      BY <3>1 DEF Climbs
    <3>4. lo <= rank[t[k]]
      BY <1>3, <3>1, <3>3
    <3>. QED
      BY <3>2, <3>3, <3>4
  <2>4. CASE i <= Len(s) /\ j > Len(s)
    <3>. DEFINE l == j - Len(s)
    <3>1. i \in 1 .. Len(s) /\ l \in 1 .. Len(t)
      BY <1>2, <2>1, <2>4
    <3>2. (s \o t)[i] = s[i] /\ (s \o t)[j] = t[l]
      BY <1>1, <1>2, <2>1, <2>4
    <3>. HIDE DEF l
    <3>3. /\ lo <= rank[s[i]] /\ rank[s[i]] <= mid /\ mid <= rank[t[l]]
      BY <3>1 DEF Climbs
    <3>4. rank[s[i]] <= hi /\ rank[s[i]] <= rank[t[l]]
      BY <1>3, <3>1, <3>3
    <3>. QED
      BY <3>2, <3>3, <3>4
  <2>. QED
    BY <1>2, <2>1, <2>2, <2>3, <2>4
<1>5. \A i \in 1 .. Len(s \o t) : i <= i
  BY <1>1, <1>2
<1>. QED
  BY <1>1, <1>4, <1>5 DEF Climbs

LEMMA RanksAreNumbers == LoadRank \in [Names -> Nat] /\ UnloadRank \in [Names -> Nat]
  BY DEF LoadRank, UnloadRank

\* Loading goes by rank.
LEMMA LoadClimbs == Climbs(initFpgaDriver, LoadRank, 0, 4)
<1>1. /\ Climbs(ramAxisInit, LoadRank, 0, 0) /\ Climbs(ramDiskInit, LoadRank, 0, 0)
      /\ Climbs(stateMachineInit, LoadRank, 0, 0)
  BY DEF Climbs, LoadRank, Names, ramAxisInit, ramDiskInit, stateMachineInit
<1>2. Climbs(charDeviceInit, LoadRank, 0, 0)
  BY DEF Climbs, LoadRank, Names, charDeviceInit
<1>3. Climbs(spiInit, LoadRank, 0, 1)
  BY DEF Climbs, LoadRank, Names, spiInit
<1>4. Climbs(spiWorkInit, LoadRank, 1, 2)
  BY DEF Climbs, LoadRank, Names, spiWorkInit
<1>5. Climbs(isrGpioInit, LoadRank, 2, 3)
  BY DEF Climbs, LoadRank, Names, isrGpioInit
<1>6. /\ Climbs(watchdogInit, LoadRank, 3, 4) /\ Climbs(<<"scheduler">>, LoadRank, 4, 4)
      /\ Climbs(networkInit, LoadRank, 4, 4)
  BY DEF Climbs, LoadRank, Names, watchdogInit, networkInit
<1>. DEFINE front == ramAxisInit \o ramDiskInit \o stateMachineInit \o charDeviceInit
            upTo == front \o spiInit \o spiWorkInit
<1>7. Climbs(front, LoadRank, 0, 0)
  BY <1>1, <1>2, ClimbsBoth, RanksAreNumbers
<1>8. Climbs(upTo, LoadRank, 0, 2)
  <2>1. Climbs(front \o spiInit, LoadRank, 0, 1)
    BY <1>3, <1>7, ClimbsBoth, RanksAreNumbers
  <2>. QED
    BY <1>4, <2>1, ClimbsBoth, RanksAreNumbers
<1>9. Climbs(upTo \o isrGpioInit \o watchdogInit, LoadRank, 0, 4)
  <2>1. Climbs(upTo \o isrGpioInit, LoadRank, 0, 3)
    BY <1>5, <1>8, ClimbsBoth, RanksAreNumbers
  <2>. QED
    BY <1>6, <2>1, ClimbsBoth, RanksAreNumbers
<1>10. Climbs(upTo \o isrGpioInit \o watchdogInit \o <<"scheduler">> \o networkInit,
              LoadRank, 0, 4)
  BY <1>6, <1>9, ClimbsBoth, RanksAreNumbers
<1>. QED
  BY <1>10 DEF initFpgaDriver

\* So does unloading.
LEMMA UnloadClimbs == Climbs(exitFpgaDriver, UnloadRank, 0, 7)
<1>1. /\ Climbs(networkDestroy, UnloadRank, 0, 0) /\ Climbs(watchdogDestroy, UnloadRank, 0, 0)
  BY DEF Climbs, UnloadRank, Names, networkDestroy, watchdogDestroy
<1>2. Climbs(isrGpioDestroy, UnloadRank, 0, 0)
  BY DEF Climbs, UnloadRank, Names, isrGpioDestroy
<1>3. Climbs(spiWorkDestroy, UnloadRank, 0, 4)
  BY DEF Climbs, UnloadRank, Names, spiWorkDestroy
<1>4. Climbs(spiDestroy, UnloadRank, 4, 6)
  BY DEF Climbs, UnloadRank, Names, spiDestroy
<1>5. Climbs(charDeviceDestroy, UnloadRank, 6, 7)
  BY DEF Climbs, UnloadRank, Names, charDeviceDestroy
<1>6. /\ Climbs(stateMachineDestroy, UnloadRank, 7, 7) /\ Climbs(ramDiskDestroy, UnloadRank, 7, 7)
      /\ Climbs(ramAxisDestroy, UnloadRank, 7, 7)
  BY DEF Climbs, UnloadRank, Names, stateMachineDestroy, ramDiskDestroy, ramAxisDestroy
<1>. DEFINE front == networkDestroy \o watchdogDestroy \o isrGpioDestroy
<1>7. Climbs(front, UnloadRank, 0, 0)
  BY <1>1, <1>2, ClimbsBoth, RanksAreNumbers
<1>8. Climbs(front \o spiWorkDestroy, UnloadRank, 0, 4)
  BY <1>3, <1>7, ClimbsBoth, RanksAreNumbers
<1>9. Climbs(front \o spiWorkDestroy \o spiDestroy, UnloadRank, 0, 6)
  BY <1>4, <1>8, ClimbsBoth, RanksAreNumbers
<1>10. Climbs(front \o spiWorkDestroy \o spiDestroy \o charDeviceDestroy \o stateMachineDestroy
                \o ramDiskDestroy \o ramAxisDestroy, UnloadRank, 0, 7)
  BY <1>5, <1>6, <1>9, ClimbsBoth, RanksAreNumbers
<1>. QED
  BY <1>10 DEF exitFpgaDriver

\* While something is still to come, so is what has a higher rank.
LEMMA RankedToCome ==
    ASSUME NEW rank \in [Names -> Nat], NEW lo, NEW hi, NEW N, N \subseteq Names,
           NEW s, Climbs(s, rank, lo, hi), Spans(s, N), NEW a \in N, NEW b \in N,
           rank[a] < rank[b], done \in Nat
    PROVE  /\ ToCome(s, a) => ToCome(s, b)
           /\ done + 1 \in 1 .. Len(s) /\ s[done + 1] = b => ~ToCome(s, a)
<1>1. PICK j \in 1 .. Len(s) : s[j] = b
  BY DEF Spans
<1>2. Len(s) \in Nat /\ j \in Nat
  BY DEF Spans
<1>3. ASSUME NEW i \in 1 .. Len(s), s[i] = a PROVE i < j
  <2>1. i \in Nat /\ rank[a] \in Nat /\ rank[b] \in Nat
    BY <1>2
  <2>2. j <= i => rank[b] <= rank[a]
    BY <1>1, <1>3 DEF Climbs
  <2>. QED
    BY <1>2, <2>1, <2>2
<1>4. ToCome(s, a) => ToCome(s, b)
  <2>. SUFFICES ASSUME NEW k \in 1 .. Len(s), k > done, s[k] = a PROVE ToCome(s, b)
    BY DEF ToCome
  <2>1. k < j /\ k \in Nat
    BY <1>2, <1>3
  <2>2. j > done
    BY <1>2, <2>1
  <2>. QED
    BY <1>1, <2>2 DEF ToCome
<1>5. ASSUME done + 1 \in 1 .. Len(s), s[done + 1] = b, ToCome(s, a) PROVE FALSE
  <2>1. PICK k \in 1 .. Len(s) : k > done /\ s[k] = a
    BY <1>5 DEF ToCome
  <2>2. j = done + 1
    BY <1>1, <1>5 DEF Spans
  <2>3. k < done + 1 /\ k \in Nat
    BY <1>2, <1>3, <2>1, <2>2
  <2>. QED
    BY <2>1, <2>3
<1>. QED
  BY <1>4, <1>5

-----------------------------------------------------------------------------
(* The invariant.                                                          *)

\* The interrupt was requested, or the driver is loaded.
Requested(irq) == phase = "loading" => ~ToCome(initFpgaDriver, irq)

\* Users stay within the loaded driver, and all that is vital could be had.
Orderly == ~disorderly /\ failed \cap Vital = {}

\* The queue of the work that transfers with a mapping.
QueueOf(dma) == IF dma = "dma0" THEN "queueP" ELSE "queueS"

\* A message that was made is in place until the thread takes it apart, or its queue
\* is destroyed.
MessagesOK ==
    /\ \A dma \in live : Has(dma)
    /\ \A dma \in Mappings :
         message[dma] # "none" /\ phase # "unloaded" =>
            \/ dma \in live \/ Reconfigures(dma)
            \/ phase = "unloading" /\ ~Owned(QueueOf(dma))
    /\ phase = "loading" /\ ToCome(initFpgaDriver, "dma1") => message["dma1"] = "none"
    /\ Owned("dma1") => message["dma1"] # "none"

\* Work is pending or running only after its interrupt was requested, or the driver
\* was loaded, and until its queue is destroyed.
Pending ==
    /\ "P" \in queued \cup working => phase # "loading" /\ Owned("queueP")
    /\ "S" \in queued \cup working => Requested("irqSpi") /\ Owned("queueS")
    /\ timerQueued \/ timerWorker # "idle" => Requested("irqTimer") /\ Owned("queueT")

\* As long as nothing was hasty, a frame is transferred with a message, and no
\* transfer is under way when the thread takes its message apart.
NoHaste ==
    ~hasty =>
        /\ "SM_PRIMARY_SPI" \in {command, doing} \/ "P" \in queued \cup working =>
             message["dma0"] # "none"
        /\ \A w \in working : ~Reconfigures(DmaOf(w))

Guards == MessagesOK /\ Pending /\ NoHaste

UseInv ==
    Orderly => \/ fault = "none" /\ phase # "discarded" /\ Guards
               \/ fault = "masterTransfer" /\ hasty

\* A fault stops everything.
LEMMA FaultStops == [Next]_vars /\ fault # "none" => UNCHANGED vars
  BY DEF Next, Module, Load, spiInitConfig, Unload, spiDestroyUnmaps, rmmod, Interrupts,
     InterruptFromFPGA_SpiISR, InterruptFromFPGA_TimerISR, Works, TimerWork, WorkBegins,
     WorkEnds, Threads, watchdogThread, MachineThread, TakeCommand, CaseConfigures, RunCommand,
     Calls, opened, close, read, open, commanderWrite, Up

\* What is acquired before another and released after it is there as long as that.
LEMMA OwnedByRank ==
    ASSUME done \in Nat, NEW a \in Names \ {"scheduler"}, NEW b \in Names \ {"scheduler"},
           UnloadRank[a] < UnloadRank[b], Owned(a),
           b = "dma0" \/ phase # "loading" \/ (a # "dma0" /\ LoadRank[b] < LoadRank[a])
    PROVE  Owned(b)
<1>. DEFINE M == Names \ {"scheduler"}
            N == Names \ {"dma0"}
<1>1. /\ M \subseteq Names /\ N \subseteq Names /\ a \in M /\ b \in M
      /\ (a # "dma0" => a \in N) /\ (b # "dma0" => b \in N)
  OBVIOUS
<1>2. Spans(exitFpgaDriver, M) /\ Spans(initFpgaDriver, N)
  BY UnloadSpans, LoadSpans
<1>. HIDE DEF M, N
<1>3. phase = "unloading" => ToCome(exitFpgaDriver, b)
  <2>1. ToCome(exitFpgaDriver, a) => ToCome(exitFpgaDriver, b)
    BY <1>1, <1>2, RankedToCome, RanksAreNumbers, UnloadClimbs
  <2>. QED
    BY <2>1 DEF Owned
<1>4. phase = "loading" => ~ToCome(initFpgaDriver, b)
  <2>1. CASE b = "dma0"
    BY <2>1, LoadSpans DEF ToCome, Spans
  <2>2. CASE phase = "loading" /\ b # "dma0" /\ a # "dma0"
    <3>1. ToCome(initFpgaDriver, b) => ToCome(initFpgaDriver, a)
      BY <1>1, <1>2, <2>2, RankedToCome, RanksAreNumbers, LoadClimbs
    <3>. QED
      BY <2>2, <3>1 DEF Owned
  <2>. QED
    BY <2>1, <2>2
<1>. QED
  BY <1>3, <1>4 DEF Owned

\* What each activity rests on.
LEMMA Lasting ==
    ASSUME done \in Nat
    PROVE  /\ Owned("wdThread") => Owned("wdBuffers")
           /\ Owned("irqSpi") => Owned("queueS") /\ Requested("irqSpi")
           /\ Owned("irqTimer") => Owned("queueT") /\ Requested("irqTimer")
           /\ Requested("irqSpi") /\ Owned("queueS") =>
                Owned("unitS") /\ Owned("spi1") /\ Owned("dma1")
           /\ Requested("irqTimer") /\ Owned("queueT") => Owned("unitT")
           /\ Owned("dma1") => Owned("axis") /\ Owned("cmdBuffers")
           /\ phase # "loading" /\ Owned("queueP") =>
                Owned("unitP") /\ Owned("spi0") /\ Owned("dma0")
           /\ phase # "loading" /\ Owned("dma0") => Owned("axis") /\ Owned("cmdBuffers")
<1>1. /\ UnloadRank["wdThread"] = 0 /\ UnloadRank["wdBuffers"] = 7
      /\ UnloadRank["irqSpi"] = 0 /\ UnloadRank["queueS"] = 2 /\ UnloadRank["unitS"] = 3
      /\ UnloadRank["irqTimer"] = 0 /\ UnloadRank["queueT"] = 3 /\ UnloadRank["unitT"] = 4
      /\ UnloadRank["queueP"] = 1 /\ UnloadRank["unitP"] = 2 /\ UnloadRank["spi0"] = 6
      /\ UnloadRank["spi1"] = 6 /\ UnloadRank["dma0"] = 5 /\ UnloadRank["dma1"] = 5
      /\ UnloadRank["axis"] = 7 /\ UnloadRank["cmdBuffers"] = 7
  BY DEF UnloadRank, Names
<1>2. /\ LoadRank["wdThread"] = 4 /\ LoadRank["wdBuffers"] = 0
      /\ LoadRank["irqSpi"] = 3 /\ LoadRank["irqTimer"] = 3
      /\ LoadRank["queueS"] = 2 /\ LoadRank["unitS"] = 2 /\ LoadRank["queueT"] = 2
      /\ LoadRank["unitT"] = 2 /\ LoadRank["spi1"] = 0 /\ LoadRank["dma1"] = 1
      /\ LoadRank["axis"] = 0 /\ LoadRank["cmdBuffers"] = 0
  BY DEF LoadRank, Names
<1>. DEFINE N == Names \ {"scheduler", "dma0"}
<1>3. /\ N \subseteq Names \ {"scheduler"} /\ "dma0" \in Names \ {"scheduler"}
      /\ {"wdThread", "wdBuffers", "irqSpi", "queueS", "unitS", "irqTimer", "queueT", "unitT",
          "queueP", "unitP", "spi0", "spi1", "dma1", "axis", "cmdBuffers"} \subseteq N
  BY DEF Names
<1>4. /\ Owned("irqSpi") => Requested("irqSpi")
      /\ Owned("irqTimer") => Requested("irqTimer")
  BY DEF Owned, Requested
<1>5. ASSUME NEW a \in N, NEW b \in N, UnloadRank[a] < UnloadRank[b],
             phase # "loading" \/ LoadRank[b] < LoadRank[a], Owned(a)
      PROVE  Owned(b)
  BY <1>3, <1>5, OwnedByRank
<1>6. ASSUME NEW irq \in N, NEW b \in N, NEW q \in N, Requested(irq), Owned(q),
             LoadRank[b] < LoadRank[irq], UnloadRank[q] < UnloadRank[b]
      PROVE  Owned(b)
  <2>1. CASE phase = "loading"
    <3>1. ~ToCome(initFpgaDriver, irq)
      BY <1>6, <2>1 DEF Requested
    <3>2. ToCome(initFpgaDriver, b) => ToCome(initFpgaDriver, irq)
      <4>. DEFINE I == Names \ {"dma0"}
      <4>1. I \subseteq Names /\ irq \in I /\ b \in I /\ Spans(initFpgaDriver, I)
        BY LoadSpans
      <4>. HIDE DEF I
      <4>. QED
        BY <1>6, <4>1, RankedToCome, RanksAreNumbers, LoadClimbs
    <3>. QED
      BY <2>1, <3>1, <3>2 DEF Owned
  <2>2. CASE phase # "loading"
    BY <1>5, <1>6, <2>2
  <2>. QED
    BY <2>1, <2>2
<1>7. Owned("wdThread") => Owned("wdBuffers")
  BY <1>1, <1>2, <1>3, <1>5
<1>8. Owned("irqSpi") => Owned("queueS")
  BY <1>1, <1>2, <1>3, <1>5
<1>9. Owned("irqTimer") => Owned("queueT")
  BY <1>1, <1>2, <1>3, <1>5
<1>10. Owned("dma1") => Owned("axis") /\ Owned("cmdBuffers")
  BY <1>1, <1>2, <1>3, <1>5
<1>11. Requested("irqSpi") /\ Owned("queueS") =>
         Owned("unitS") /\ Owned("spi1") /\ Owned("dma1")
  BY <1>1, <1>2, <1>3, <1>6
<1>12. Requested("irqTimer") /\ Owned("queueT") => Owned("unitT")
  BY <1>1, <1>2, <1>3, <1>6
<1>13. phase # "loading" /\ Owned("queueP") => Owned("unitP") /\ Owned("spi0")
  BY <1>1, <1>3, <1>5
<1>14. Owned("queueP") => Owned("dma0")
  BY <1>1, <1>3, OwnedByRank
<1>15. phase # "loading" /\ Owned("dma0") => Owned("axis") /\ Owned("cmdBuffers")
  <2>1. {"axis", "cmdBuffers", "dma0"} \subseteq Names \ {"scheduler"}
    BY <1>3
  <2>. QED
    BY <1>1, <2>1, OwnedByRank
<1>. QED
  BY <1>4, <1>7, <1>8, <1>9, <1>10, <1>11, <1>12, <1>13, <1>14, <1>15

-----------------------------------------------------------------------------

\* In an orderly state a vital resource is held as long as it is owned.
LEMMA VitalHeld ==
    ASSUME RelInv, Orderly, NEW r \in Vital \ Mappings, Owned(r)
    PROVE  Has(r)
<1>1. r \in Steady
  BY ResourcesAre DEF Vital, Mappings, Steady, Names
<1>. QED
  BY <1>1 DEF RelInv, HeldOnceOwned, Orderly

\* And nothing is held that is not owned.
LEMMA HeldIsOwned ==
    ASSUME RelInv, Orderly, NEW r \in Resources, Has(r), r \notin Mappings \/ phase # "loading"
    PROVE  Owned(r)
<1>1. phase = "loading" => ~ToCome(initFpgaDriver, r)
  BY DEF RelInv, NothingBefore, Has
<1>2. phase \in {"unloading", "unloaded"} => Owned(r)
  BY DEF RelInv, NothingAfter, Orderly
<1>. QED
  BY <1>1, <1>2 DEF Owned

\* In an orderly state a command runs only while the driver is ready.
LEMMA OrderlyRests ==
    ASSUME RelInv, Orderly
    PROVE  /\ phase # "ready" => AtRest /\ \A dma : ~Reconfigures(dma)
           /\ doing \notin Configs => mapStep["machine"] = "ask"
<1>1. phase # "ready" => AtRest
  BY DEF RelInv, AwakeWhenReady, Orderly
<1>2. phase # "ready" => \A dma : ~Reconfigures(dma)
  BY <1>1 DEF AtRest, Settled, Reconfigures, Configs
<1>3. doing \notin Configs => mapStep["machine"] = "ask"
  <2>1. PICK q \in Actors : q = "machine"
    BY DEF Actors
  <2>2. q # "module"
    BY <2>1
  <2>3. \A dma : Handles("module", dma) => mapStep[q] = "ask"
    BY <2>1, <2>2 DEF Handles
  <2>. QED
    BY <2>1, <2>3 DEF RelInv, MapInv, Resting, Orderly
<1>. QED
  BY <1>1, <1>2, <1>3

\* Before the driver is loaded nothing is there and nobody needs anything.
LEMMA InitUseInv == Init => UseInv
<1>. SUFFICES ASSUME Init PROVE fault = "none" /\ phase # "discarded" /\ Guards
  BY DEF UseInv
<1>1. /\ phase = "loading" /\ done = 0 /\ fault = "none" /\ command = "none" /\ doing = "none"
      /\ queued = {} /\ working = {} /\ ~timerQueued /\ timerWorker = "idle" /\ live = {}
  BY DEF Init, SchInit
<1>2. \A dma \in Mappings : message[dma] = "none"
  BY DEF Init
<1>3. ~Owned("dma1")
  BY <1>1, LoadSpans DEF Spans, Names, Owned, ToCome
<1>4. MessagesOK
  BY <1>1, <1>2, <1>3 DEF MessagesOK, Mappings
<1>5. Pending /\ NoHaste
  BY <1>1 DEF Pending, NoHaste
<1>. QED
  BY <1>1, <1>4, <1>5 DEF Guards

\* The messages are as they were if nobody touches them.
LEMMA MessagesStay ==
    ASSUME MessagesOK, UNCHANGED <<phase, done, handle, message, live>>,
           \A dma \in Mappings : Reconfigures(dma) => Reconfigures(dma)'
    PROVE  MessagesOK'
<1>1. \A dma : Has(dma)' <=> Has(dma)
  BY DEF Has
<1>2. /\ \A r : Owned(r)' <=> Owned(r)
      /\ ToCome(initFpgaDriver, "dma1")' <=> ToCome(initFpgaDriver, "dma1")
  BY DEF Owned, ToCome
<1>. QED
  BY <1>1, <1>2 DEF MessagesOK

\* Pending stays as it is if no more work is pending or running.
LEMMA PendingStays ==
    ASSUME Pending, UNCHANGED <<phase, done>>,
           queued' \cup working' \subseteq queued \cup working,
           timerQueued' \/ timerWorker' # "idle" => timerQueued \/ timerWorker # "idle"
    PROVE  Pending'
<1>2. /\ Owned("queueP")' <=> Owned("queueP")
      /\ Owned("queueS")' <=> Owned("queueS")
      /\ Owned("queueT")' <=> Owned("queueT")
      /\ Requested("irqSpi")' <=> Requested("irqSpi")
      /\ Requested("irqTimer")' <=> Requested("irqTimer")
  BY DEF Owned, Requested, ToCome
<1>. QED
  BY <1>2 DEF Pending

-----------------------------------------------------------------------------
(* Loading and unloading.                                                  *)

\* What has a lower rank than what is being acquired is there already, and what has a
\* higher one is not.
LEMMA LoadedBefore ==
    ASSUME done \in Nat, done + 1 \in 1 .. Len(initFpgaDriver), NEW a \in Names \ {"dma0"},
           initFpgaDriver[done + 1] \in Names \ {"dma0"}
    PROVE  /\ LoadRank[a] < LoadRank[initFpgaDriver[done + 1]] => ~ToCome(initFpgaDriver, a)
           /\ LoadRank[initFpgaDriver[done + 1]] < LoadRank[a] => ToCome(initFpgaDriver, a)
<1>. DEFINE N == Names \ {"dma0"}
<1>1. PICK b \in N : b = initFpgaDriver[done + 1]
  OBVIOUS
<1>2. a \in N /\ N \subseteq Names /\ Spans(initFpgaDriver, N)
  BY LoadSpans
<1>. HIDE DEF N
<1>3. LoadRank[a] < LoadRank[b] => ~ToCome(initFpgaDriver, a)
  BY <1>1, <1>2, RankedToCome, RanksAreNumbers, LoadClimbs
<1>4. ToCome(initFpgaDriver, b)
  BY <1>1 DEF ToCome
<1>5. LoadRank[b] < LoadRank[a] => ToCome(initFpgaDriver, a)
  BY <1>1, <1>2, <1>4, RankedToCome, RanksAreNumbers, LoadClimbs
<1>. QED
  BY <1>1, <1>3, <1>5

\* While the module configures the secondary DMA no transfer of it is under way, and
\* what it needs is there.
LEMMA ConfigNeeds ==
    ASSUME done \in Nat, done + 1 \in 1 .. Len(initFpgaDriver), phase = "loading",
           initFpgaDriver[done + 1] = "dma1", RelInv, Orderly, Pending
    PROVE  Has("spi1") /\ Has("axis") /\ "S" \notin queued \cup working
<1>. DEFINE N == Names \ {"dma0"}
<1>1. "dma1" \in N /\ "spi1" \in N /\ "axis" \in N /\ "irqSpi" \in N
  BY DEF Names
<1>2. /\ LoadRank["spi1"] < LoadRank["dma1"] /\ LoadRank["axis"] < LoadRank["dma1"]
      /\ LoadRank["dma1"] < LoadRank["irqSpi"]
  BY DEF LoadRank, Names
<1>3. /\ ~ToCome(initFpgaDriver, "spi1") /\ ~ToCome(initFpgaDriver, "axis")
      /\ ToCome(initFpgaDriver, "irqSpi")
  BY <1>1, <1>2, LoadedBefore
<1>4. Owned("spi1") /\ Owned("axis") /\ ~Requested("irqSpi")
  BY <1>3 DEF Owned, Requested
<1>5. Has("spi1") /\ Has("axis")
  BY <1>4, VitalHeld DEF Vital, Mappings
<1>. QED
  BY <1>4, <1>5 DEF Pending

\* When a mapping is undone at unloading, its queue is gone and its device is there.
LEMMA UnmapNeeds ==
    ASSUME IInv, RelInv, Orderly, Pending, phase = "unloading", NEW dma \in Mappings,
           exitFpgaDriver[done + 1] = dma
    PROVE  ~Owned(QueueOf(dma)) /\ Has(SpiOf(dma)) /\ WorkOf(dma) \notin queued \cup working
<1>. DEFINE M == Names \ {"scheduler"}
<1>1. /\ dma \in M /\ QueueOf(dma) \in M /\ SpiOf(dma) \in M /\ M \subseteq Names
      /\ Spans(exitFpgaDriver, M)
  BY UnloadSpans DEF Mappings, Names, QueueOf, SpiOf
<1>2. UnloadRank[QueueOf(dma)] < UnloadRank[dma] /\ UnloadRank[dma] < UnloadRank[SpiOf(dma)]
  BY DEF UnloadRank, Names, Mappings, QueueOf, SpiOf
<1>3. done \in Nat /\ done + 1 \in 1 .. Len(exitFpgaDriver)
  BY UnloadSpans DEF IInv, LifeOK, Spans
<1>. HIDE DEF M
<1>4. ~ToCome(exitFpgaDriver, QueueOf(dma))
  BY <1>1, <1>2, <1>3, RankedToCome, RanksAreNumbers, UnloadClimbs
<1>5. ToCome(exitFpgaDriver, dma)
  BY <1>3 DEF ToCome
<1>6. ToCome(exitFpgaDriver, SpiOf(dma))
  BY <1>1, <1>2, <1>3, <1>5, RankedToCome, RanksAreNumbers, UnloadClimbs
<1>7. Owned(SpiOf(dma)) /\ ~Owned(QueueOf(dma))
  BY <1>4, <1>6 DEF Owned
<1>8. SpiOf(dma) \in Vital \ Mappings
  BY DEF SpiOf, Vital, Mappings
<1>9. Has(SpiOf(dma))
  BY <1>7, <1>8, VitalHeld
<1>10. WorkOf(dma) \notin queued \cup working
  BY <1>7 DEF Pending, WorkOf, QueueOf, Mappings
<1>. QED
  BY <1>7, <1>9, <1>10

\* The steps of loading find what they need, unless something vital could not be had.
LEMMA LoadUseInv == IInv /\ MachineOK /\ RelInv /\ UseInv /\ Load => UseInv'
<1>. SUFFICES ASSUME IInv, MachineOK, RelInv, UseInv, Load, Orderly'
              PROVE  fault' = "none" /\ phase' # "discarded" /\ Guards'
  BY DEF UseInv
<1>. DEFINE r == initFpgaDriver[done + 1]
<1>1. /\ phase = "loading" /\ done + 1 \in 1 .. Len(initFpgaDriver) /\ done \in Nat
      /\ file' = file /\ phase' \in {"loading", "ready", "discarded"}
  BY LoadFacts DEF IInv, LifeOK
<1>2. /\ r \in Names \ {"dma0"} /\ ToCome(initFpgaDriver, r)
      /\ failed' \in {failed, failed \cup {r}}
  BY LoadOne
<1>3. UNCHANGED <<command, doing, queued, working, disorderly, timerQueued, timerWorker>>
  BY LoadFacts DEF Load, schVars, schedulerInit
<1>4. Orderly
  BY <1>2, <1>3 DEF Orderly
<1>5. fault = "none" /\ MessagesOK /\ Pending /\ NoHaste
  BY <1>4 DEF UseInv, Guards, Load, Up
<1>6. phase' # "discarded"
  BY <1>4 DEF Orderly, Vital, Load, Advance
<1>7. AtRest /\ \A dma : ~Reconfigures(dma) /\ ~Reconfigures(dma)'
  BY <1>1, <1>3, <1>4, OrderlyRests DEF AtRest, Settled, Reconfigures, Configs
<1>8. \/ /\ r # "dma1" /\ UNCHANGED <<message, live, fault, hasty>>
         /\ \A dma \in Mappings : handle'[dma] = handle[dma]
      \/ r = "dma1" /\ SetMessage("module", "dma1", "axis")
  <2>1. CASE r = "scheduler"
    BY <2>1 DEF Load, dmaVars
  <2>2. CASE r = "hooks" /\ ~Has("netDevice")
    BY <2>2 DEF Load, SkipHooks, dmaVars
  <2>3. CASE r = "dma1"
    <3>1. "dma1" \notin failed'
      BY DEF Orderly, Vital
    <3>. QED
      BY <2>3, <3>1 DEF Load, configured, MapFails
  <2>4. CASE r \notin {"scheduler", "dma1"} /\ AcquireFails(r)
    <3>1. r \in failed'
      BY <2>4 DEF AcquireFails
    <3>2. r \notin Vital
      BY <3>1 DEF Orderly
    <3>3. r \notin Mappings /\ handle \in [Resources -> {"null", "held", "stale"}]
      BY <1>2, <2>4 DEF Mappings, IInv, LifeOK
    <3>. QED
      BY <2>4, <3>2, <3>3, MemoryIsSteady DEF AcquireFails, Vital, dmaVars
  <2>5. CASE r \notin {"scheduler", "dma1"} /\ Acquire(r)
    <3>1. r \notin Mappings /\ handle \in [Resources -> {"null", "held", "stale"}]
      BY <1>2, <2>5 DEF Mappings, IInv, LifeOK
    <3>. QED
      BY <2>5, <3>1, MemoryIsSteady DEF Acquire, dmaVars
  <2>. QED
    BY <2>1, <2>2, <2>3, <2>4, <2>5 DEF Load
<1>9. ASSUME NEW x PROVE Owned(x) => Owned(x)'
  <2>1. phase' = "loading" /\ ToCome(initFpgaDriver, x)' => ToCome(initFpgaDriver, x)
    BY LoadOwned
  <2>. QED
    BY <1>1, <1>6, <2>1 DEF Owned
<1>10. fault' = "none" /\ hasty' = hasty
       /\ (message["dma0"] # "none" => message'["dma0"] # "none")
  <2>1. CASE r = "dma1"
    <3>1. "S" \notin working
      BY <1>1, <1>4, <1>5, <2>1, ConfigNeeds
    <3>2. WorkOf("dma1") = "S" /\ SetMessage("module", "dma1", "axis")
      BY <1>8, <2>1 DEF WorkOf
    <3>3. fault' = "none"
      BY <1>1, <1>5, <3>1, <3>2 DEF SetMessage, UseUnder, Use, Gone
    <3>4. hasty' = hasty
      BY <3>2 DEF SetMessage, Meets, MachineOK, DmaOK
    <3>. QED
      BY <3>2, <3>3, <3>4 DEF SetMessage, MachineOK, DmaOK, Mappings
  <2>2. CASE r # "dma1"
    BY <1>5, <1>8, <2>2
  <2>. QED
    BY <2>1, <2>2
<1>11. MessagesOK'
  <2>1. phase' = "loading" /\ ToCome(initFpgaDriver, "dma1")' =>
          ToCome(initFpgaDriver, "dma1") /\ r # "dma1"
    BY LoadOwned
  <2>2. Owned("dma1")' => Owned("dma1") \/ r = "dma1"
    BY LoadOwned
  <2>3. CASE r # "dma1"
    <3>1. UNCHANGED <<message, live>> /\ \A dma \in Mappings : Has(dma) => Has(dma)'
      BY <1>8, <2>3 DEF Has
    <3>2. live \subseteq Mappings
      BY DEF MachineOK, DmaOK
    <3>. QED
      BY <1>1, <1>5, <1>7, <2>1, <2>2, <2>3, <3>1, <3>2 DEF MessagesOK
  <2>4. CASE r = "dma1"
    <3>1. PICK p \in Actors, dma \in Mappings : p = "module" /\ dma = "dma1"
      BY DmaStepsAre
    <3>2. SetMessage(p, dma, "axis")
      BY <1>8, <2>4, <3>1
    <3>3. Handles(p, dma)
      BY <1>1, <1>4, <3>1, RestingHandles DEF RelInv, MapInv, Orderly
    <3>4. Has(dma) /\ handle' = handle /\ live' = live \cup {dma}
          /\ message' = [message EXCEPT ![dma] = "axis"]
      BY <3>2, <3>3 DEF SetMessage, Handles
    <3>5. /\ message'[dma] = "axis" /\ \A d \in Mappings : d # dma => message'[d] = message[d]
          /\ \A d : Has(d)' <=> Has(d)
      BY <3>4 DEF MachineOK, DmaOK, Has
    <3>. HIDE DEF Mappings, Actors
    <3>6. ASSUME NEW d \in Mappings, message'[d] # "none" PROVE d \in live'
      BY <1>1, <1>5, <1>7, <3>4, <3>5, <3>6 DEF MessagesOK
    <3>7. \A d \in live' : Has(d)'
      BY <1>5, <3>4, <3>5 DEF MessagesOK
    <3>. QED
      BY <2>1, <2>4, <3>1, <3>5, <3>6, <3>7 DEF MessagesOK
  <2>. QED
    BY <2>3, <2>4
<1>12. Pending'
  <2>1. "P" \notin queued \cup working
    BY <1>1, <1>5 DEF Pending
  <2>2. ASSUME NEW irq, Requested(irq) PROVE Requested(irq)'
    <3>1. phase' = "loading" /\ ToCome(initFpgaDriver, irq)' => ToCome(initFpgaDriver, irq)
      BY LoadOwned
    <3>. QED
      BY <1>1, <2>2, <3>1 DEF Requested
  <2>. QED
    BY <1>3, <1>5, <1>9, <2>1, <2>2 DEF Pending
<1>13. NoHaste'
  BY <1>3, <1>5, <1>7, <1>10 DEF NoHaste
<1>. QED
  BY <1>6, <1>10, <1>11, <1>12, <1>13 DEF Guards

\* The module configures while nobody transfers.
LEMMA ModuleMapsUseInv ==
    IInv /\ MachineOK /\ RelInv /\ UseInv /\ (spiInitConfig \/ spiDestroyUnmaps) => UseInv'
<1>. SUFFICES ASSUME IInv, MachineOK, RelInv, UseInv, spiInitConfig \/ spiDestroyUnmaps, Orderly'
              PROVE  fault' = "none" /\ phase' # "discarded" /\ Guards'
  BY DEF UseInv
<1>1. /\ UNCHANGED <<phase, done, disorderly, command, doing, queued, working>>
      /\ timerQueued' = timerQueued /\ timerWorker' = timerWorker
      /\ phase \in {"loading", "unloading"} /\ fault = "none"
  BY DEF spiInitConfig, spiDestroyUnmaps, schVars, Up
<1>2. PICK p \in Actors, dma \in Mappings :
         /\ p = "module"
         /\ \E a \in {"unmap", "map"} : \/ Ask(p, dma, a) \/ Unmap(p, dma) \/ Zero(p, dma, "map")
                                        \/ Map(p, dma, "axis")
         /\ \/ phase = "loading" /\ dma = "dma1" /\ initFpgaDriver[done + 1] = "dma1"
            \/ /\ phase = "unloading" /\ exitFpgaDriver[done + 1] = dma
               /\ ~Map(p, dma, "axis")
  <2>1. CASE spiInitConfig
    BY <2>1, DmaStepsAre DEF spiInitConfig, configDMA
  <2>2. CASE spiDestroyUnmaps
    <3>1. PICK dma \in Mappings : dma = exitFpgaDriver[done + 1]
      BY <2>2, DmaStepsAre
    <3>2. spiDmaDestroy("module", dma) /\ phase = "unloading"
      BY <2>2, <3>1 DEF spiDestroyUnmaps
    <3>3. "module" \in Actors /\ mapStep["module"] # "map"
      BY <3>2, DmaStepsAre DEF spiDmaDestroy, Ask, Unmap
    <3>. QED
      BY <3>1, <3>2, <3>3 DEF spiDmaDestroy, Map
  <2>. QED
    BY <2>1, <2>2
<1>3. failed' = failed /\ message' = message
  BY <1>2 DEF Ask, Unmap, Zero, Map
<1>4. Orderly
  BY <1>1, <1>3 DEF Orderly
<1>5. MessagesOK /\ Pending /\ NoHaste
  BY <1>1, <1>4 DEF UseInv, Guards
<1>6. /\ WorkOf(dma) \notin working /\ Has(SpiOf(dma))
      /\ phase = "loading" => Has("axis")
  <2>1. CASE phase = "loading"
    <3>1. done \in Nat /\ done + 1 \in 1 .. Len(initFpgaDriver)
      BY <2>1, LoadSpans DEF IInv, LifeOK, Spans
    <3>2. WorkOf(dma) = "S" /\ SpiOf(dma) = "spi1"
      BY <1>2, <2>1 DEF WorkOf, SpiOf
    <3>. QED
      BY <1>2, <1>4, <1>5, <2>1, <3>1, <3>2, ConfigNeeds
  <2>2. CASE phase = "unloading"
    BY <1>2, <1>4, <1>5, <2>2, UnmapNeeds
  <2>. QED
    BY <1>1, <2>1, <2>2
<1>7. fault' = "none" /\ hasty' = hasty
  <2>1. ~Gone /\ hasty \in BOOLEAN
    BY <1>1 DEF Gone, MachineOK, DmaOK
  <2>2. fault' = "none"
    BY <1>1, <1>2, <1>6, <2>1 DEF Ask, Unmap, Zero, Map, UseUnder, Use
  <2>3. hasty' = hasty
    BY <1>2, <1>6, <2>1 DEF Ask, Unmap, Zero, Map, Meets
  <2>. QED
    BY <2>2, <2>3
<1>8. \A d : ~Reconfigures(d) /\ ~Reconfigures(d)'
  BY <1>1, <1>4, OrderlyRests DEF Reconfigures, Configs, AtRest, Settled
<1>9. MessagesOK'
  <2>1. Handles(p, dma)
    BY <1>1, <1>2, <1>4, RestingHandles DEF RelInv, MapInv, Orderly
  <2>2. handle \in [Resources -> {"null", "held", "stale"}] /\ Mappings \subseteq Resources
        /\ live \subseteq Mappings
    BY MemoryIsSteady DEF IInv, LifeOK, MachineOK, DmaOK
  <2>3. /\ \A d \in Mappings : d # dma => (d \in live' <=> d \in live) /\ handle'[d] = handle[d]
        /\ dma \in live' => dma \in live /\ handle'[dma] = "held"
    <3>1. dma \in live => Has(dma)
      BY <1>5 DEF MessagesOK
    <3>2. CASE \E a \in {"unmap", "map"} : Ask(p, dma, a)
      BY <3>1, <3>2 DEF Ask, Has
    <3>3. CASE Unmap(p, dma)
      BY <2>2, <3>3 DEF Unmap
    <3>4. CASE Zero(p, dma, "map")
      BY <2>1, <2>2, <3>1, <3>4 DEF Zero, Handles
    <3>5. CASE Map(p, dma, "axis")
      BY <2>2, <3>5 DEF Map
    <3>. QED
      BY <1>2, <3>2, <3>3, <3>4, <3>5
  <2>4. live' \subseteq Mappings
    BY <1>2, <2>2 DEF Ask, Unmap, Zero, Map
  <2>5. /\ \A x : Owned(x)' <=> Owned(x)
        /\ ToCome(initFpgaDriver, "dma1")' <=> ToCome(initFpgaDriver, "dma1")
    BY <1>1 DEF Owned, ToCome
  <2>6. \A d \in live' : Has(d)'
    BY <1>5, <2>3, <2>4 DEF MessagesOK, Has
  <2>7. phase = "loading" => message[dma] = "none"
    <3>1. phase = "loading" => ToCome(initFpgaDriver, "dma1")
      BY <1>2, LoadSpans DEF IInv, LifeOK, Spans, ToCome
    <3>. QED
      BY <1>2, <1>5, <3>1 DEF MessagesOK
  <2>8. phase = "unloading" => ~Owned(QueueOf(dma))
    BY <1>2, <1>4, <1>5, UnmapNeeds
  <2>9. ASSUME NEW d \in Mappings, message[d] # "none"
        PROVE  d \in live' \/ (phase = "unloading" /\ ~Owned(QueueOf(d)))
    BY <1>1, <1>5, <1>8, <2>3, <2>7, <2>8, <2>9 DEF MessagesOK
  <2>. QED
    BY <1>1, <1>3, <1>5, <2>5, <2>6, <2>9 DEF MessagesOK
<1>10. Pending'
  BY <1>1, <1>5, PendingStays
<1>11. NoHaste'
  BY <1>1, <1>3, <1>5, <1>7, <1>8 DEF NoHaste
<1>. QED
  BY <1>1, <1>7, <1>9, <1>10, <1>11 DEF Guards

\* When unloading begins everything is still owned, and who is orderly sleeps.
LEMMA RmmodUseInv == IInv /\ RelInv /\ UseInv /\ rmmod => UseInv'
<1>. SUFFICES ASSUME IInv, RelInv, UseInv, rmmod, Orderly'
              PROVE  fault' = "none" /\ phase' # "discarded" /\ Guards'
  BY DEF UseInv
<1>1. phase = "ready" /\ phase' = "unloading" /\ done' = 0 /\ fault' = fault /\ fault = "none"
  BY DEF rmmod, Up
<1>2. UNCHANGED <<command, doing, message, live, queued, working, handle, failed, hasty>>
  BY DEF rmmod, machineVars, dmaVars
<1>3. timerQueued' = timerQueued /\ timerWorker' = timerWorker
  BY DEF rmmod, schVars
<1>4. ~disorderly /\ command = "none" /\ doing = "none"
  BY DEF rmmod, Settled, Orderly
<1>5. Orderly
  BY <1>2, <1>4 DEF Orderly
<1>6. MessagesOK /\ Pending /\ NoHaste
  BY <1>1, <1>5 DEF UseInv, Guards
<1>7. \A x \in Resources : Owned(x) /\ Owned(x)'
  BY <1>1, UnloadSpans, ResourcesAre DEF Spans, Owned, ToCome
<1>8. "dma1" \in Resources /\ "queueP" \in Resources /\ "queueS" \in Resources
      /\ "queueT" \in Resources
  BY ResourcesAre DEF Names
<1>9. \A dma : ~Reconfigures(dma) /\ ~Reconfigures(dma)'
  BY <1>2, <1>4 DEF Reconfigures, Configs
<1>10. MessagesOK'
  BY <1>1, <1>2, <1>6, <1>7, <1>8, <1>9 DEF MessagesOK, Has
<1>11. Pending'
  BY <1>1, <1>2, <1>3, <1>6, <1>7, <1>8 DEF Pending, Requested
<1>12. NoHaste'
  BY <1>2, <1>6, <1>9 DEF NoHaste
<1>. QED
  BY <1>1, <1>10, <1>11, <1>12 DEF Guards

\* The queues are destroyed before what their work uses, and what they still hold
\* is cancelled.
LEMMA UnloadUseInv == IInv /\ MachineOK /\ RelInv /\ UseInv /\ Unload => UseInv'
<1>. SUFFICES ASSUME IInv, MachineOK, RelInv, UseInv, Unload, Orderly'
              PROVE  fault' = "none" /\ phase' # "discarded" /\ Guards'
  BY DEF UseInv
<1>. DEFINE r == exitFpgaDriver[done + 1]
<1>1. /\ phase = "unloading" /\ phase' \in {"unloading", "unloaded"}
      /\ r \in Resources /\ Owned(r) /\ (r \notin Mappings => Released(r))
      /\ (r \in Mappings => destroyed("module", r) /\ UNCHANGED <<allocated, bad>>)
      /\ UNCHANGED <<file, doing, failed, disorderly>> /\ command' \in {"none", command}
  BY UnloadOwned, MemoryIsSteady
<1>2. \A x \in Resources : Owned(x)' <=> Owned(x) /\ x # r
  BY UnloadOwned
<1>3. working' = working /\ Quiet(r) /\ CancelWork(r) /\ fault = "none"
  BY DEF Unload, Up
<1>4. Orderly
  BY <1>1 DEF Orderly
<1>5. MessagesOK /\ Pending /\ NoHaste
  BY <1>3, <1>4 DEF UseInv, Guards
<1>6. AtRest /\ \A dma : ~Reconfigures(dma) /\ ~Reconfigures(dma)'
  BY <1>1, <1>4, OrderlyRests DEF AtRest, Settled, Reconfigures, Configs
<1>7. UNCHANGED <<message, live, hasty>> /\ fault' = "none"
  <2>1. CASE r \in Mappings
    BY <1>1, <1>3, <2>1 DEF destroyed, Zero, Use, Gone, dmaVars
  <2>2. CASE r \notin Mappings
    BY <1>1, <1>3, <2>2 DEF Released, dmaVars
  <2>. QED
    BY <2>1, <2>2
<1>8. /\ "dma1" \in Resources /\ "queueP" \in Resources
      /\ "queueS" \in Resources /\ "queueT" \in Resources
      /\ \A dma \in Mappings : QueueOf(dma) \in Resources
  BY ResourcesAre DEF Names, QueueOf
<1>9. MessagesOK'
  <2>1. r \notin live
    <3>. SUFFICES ASSUME r \in live PROVE FALSE
      OBVIOUS
    <3>1. PICK p \in Actors, dma \in Mappings : p = "module" /\ dma = r
      BY DmaStepsAre DEF MachineOK, DmaOK
    <3>2. destroyed(p, dma) /\ Has(dma)
      BY <1>1, <1>5, <3>1 DEF MessagesOK
    <3>3. Handles(p, dma)
      BY <1>1, <1>4, <3>1, RestingHandles DEF RelInv, MapInv, Orderly
    <3>. QED
      BY <3>2, <3>3 DEF destroyed, Zero, Handles, Has
  <2>2. \A dma \in live : Has(dma)'
    <3>1. live \subseteq Resources
      BY MemoryIsSteady DEF MachineOK, DmaOK
    <3>. QED
      BY <1>5, <2>1, <3>1, UnloadHandles DEF MessagesOK, Has
  <2>3. Owned("dma1")' => Owned("dma1")
    BY <1>2, <1>8
  <2>. QED
    BY <1>1, <1>2, <1>5, <1>6, <1>7, <1>8, <2>2, <2>3 DEF MessagesOK
<1>10. /\ queued' \subseteq queued /\ (timerQueued' => timerQueued) /\ timerWorker' = timerWorker
  BY <1>3 DEF CancelWork
<1>11. Pending'
  <2>2. /\ r = "queueP" => "P" \notin queued' \cup working'
        /\ r = "queueS" => "S" \notin queued' \cup working'
        /\ r = "queueT" => ~timerQueued' /\ timerWorker' = "idle"
    BY <1>3 DEF CancelWork, Quiet
  <2>3. Requested("irqSpi")' /\ Requested("irqTimer")'
    BY <1>1 DEF Requested
  <2>. QED
    BY <1>1, <1>2, <1>3, <1>5, <1>8, <1>10, <2>2, <2>3 DEF Pending
<1>12. NoHaste'
  BY <1>1, <1>3, <1>5, <1>6, <1>7, <1>10 DEF NoHaste, AtRest, Settled
<1>. QED
  BY <1>1, <1>7, <1>9, <1>11, <1>12 DEF Guards

-----------------------------------------------------------------------------
(* What runs meanwhile.                                                    *)

\* A step that leaves the driver as it is keeps the invariant if nobody then needs
\* more than there is.
LEMMA AsideUseInv ==
    ASSUME UseInv, Orderly, fault = "none",
           UNCHANGED <<phase, done, handle, message, live>>,
           \A dma \in Mappings : Reconfigures(dma) => Reconfigures(dma)',
           fault' = "none" \/ (hasty' /\ fault' = "masterTransfer"), Pending', NoHaste'
    PROVE  UseInv'
<1>1. MessagesOK /\ phase # "discarded"
  BY DEF UseInv, Guards
<1>2. MessagesOK'
  BY <1>1, MessagesStay
<1>. QED
  BY <1>1, <1>2 DEF UseInv, Guards

\* What there is while work is pending or running.
LEMMA WorkHas ==
    ASSUME IInv, MachineOK, RelInv, UseInv, Orderly, fault = "none"
    PROVE  /\ "P" \in queued \cup working =>
                /\ ~Gone /\ Has("queueP") /\ Has("unitP") /\ Has("spi0")
                /\ message["dma0"] # "none" =>
                     Has(message["dma0"]) /\ ("dma0" \in live \/ Reconfigures("dma0"))
           /\ "S" \in queued \cup working =>
                /\ ~Gone /\ Has("queueS") /\ Has("unitS") /\ Has("spi1")
                /\ message["dma1"] # "none" /\ Has(message["dma1"])
                /\ "dma1" \in live \/ Reconfigures("dma1")
           /\ timerQueued \/ timerWorker # "idle" =>
                ~Gone /\ Has("queueT") /\ Has("unitT")
           /\ Has("irqSpi") => ~Gone /\ Has("queueS") /\ Requested("irqSpi") /\ Owned("queueS")
           /\ Has("irqTimer") =>
                ~Gone /\ Has("queueT") /\ Requested("irqTimer") /\ Owned("queueT")
           /\ Has("wdThread") => ~Gone /\ Has("wdBuffers")
<1>1. /\ done \in Nat /\ Pending /\ MessagesOK /\ phase # "discarded"
      /\ message["dma0"] \in {"none"} \cup Targets /\ message["dma1"] \in {"none"} \cup Targets
      /\ "dma0" \in Mappings /\ "dma1" \in Mappings
  BY DEF IInv, LifeOK, UseInv, Guards, MachineOK, DmaOK, Mappings
<1>2. \A r \in {"queueP", "unitP", "spi0", "queueS", "unitS", "spi1", "queueT", "unitT",
                "axis", "cmdBuffers", "wdBuffers"} : Owned(r) => Has(r)
  BY VitalHeld DEF Vital, Mappings
<1>3. /\ Has("irqSpi") => Owned("irqSpi")
      /\ Has("irqTimer") => Owned("irqTimer")
      /\ Has("wdThread") => Owned("wdThread")
  BY HeldIsOwned, ResourcesAre DEF Names, Mappings
<1>4. \A r : Owned(r) => ~Gone
  BY <1>1 DEF Owned, Gone
<1>5. ASSUME "P" \in queued \cup working
      PROVE  /\ ~Gone /\ Has("queueP") /\ Has("unitP") /\ Has("spi0")
             /\ message["dma0"] # "none" =>
                  Has(message["dma0"]) /\ ("dma0" \in live \/ Reconfigures("dma0"))
  <2>1. phase # "loading" /\ Owned("queueP")
    BY <1>1, <1>5 DEF Pending
  <2>2. Owned("unitP") /\ Owned("spi0") /\ Owned("axis") /\ Owned("cmdBuffers")
    BY <1>1, <2>1, Lasting
  <2>3. QueueOf("dma0") = "queueP" /\ phase # "unloaded"
    BY <2>1 DEF QueueOf, Owned
  <2>4. message["dma0"] # "none" => "dma0" \in live \/ Reconfigures("dma0")
    BY <1>1, <2>1, <2>3 DEF MessagesOK
  <2>. QED
    BY <1>1, <1>2, <1>4, <2>1, <2>2, <2>4 DEF Targets
<1>6. ASSUME "S" \in queued \cup working
      PROVE  /\ ~Gone /\ Has("queueS") /\ Has("unitS") /\ Has("spi1")
             /\ message["dma1"] # "none" /\ Has(message["dma1"])
             /\ "dma1" \in live \/ Reconfigures("dma1")
  <2>1. Requested("irqSpi") /\ Owned("queueS")
    BY <1>1, <1>6 DEF Pending
  <2>2. /\ Owned("unitS") /\ Owned("spi1") /\ Owned("dma1") /\ Owned("axis")
        /\ Owned("cmdBuffers")
    BY <1>1, <2>1, Lasting
  <2>3. QueueOf("dma1") = "queueS" /\ phase # "unloaded"
    BY <2>1 DEF QueueOf, Owned
  <2>4. message["dma1"] # "none"
    BY <1>1, <2>2 DEF MessagesOK
  <2>5. "dma1" \in live \/ Reconfigures("dma1")
    BY <1>1, <2>1, <2>3, <2>4 DEF MessagesOK
  <2>. QED
    BY <1>1, <1>2, <1>4, <2>1, <2>2, <2>4, <2>5 DEF Targets
<1>7. ASSUME timerQueued \/ timerWorker # "idle"
      PROVE  ~Gone /\ Has("queueT") /\ Has("unitT")
  <2>1. Requested("irqTimer") /\ Owned("queueT")
    BY <1>1, <1>7 DEF Pending
  <2>2. Owned("unitT")
    BY <1>1, <2>1, Lasting
  <2>. QED
    BY <1>2, <1>4, <2>1, <2>2
<1>8. Has("irqSpi") => ~Gone /\ Has("queueS") /\ Requested("irqSpi") /\ Owned("queueS")
  BY <1>1, <1>2, <1>3, <1>4, Lasting
<1>9. Has("irqTimer") => ~Gone /\ Has("queueT") /\ Requested("irqTimer") /\ Owned("queueT")
  BY <1>1, <1>2, <1>3, <1>4, Lasting
<1>10. Has("wdThread") => ~Gone /\ Has("wdBuffers")
  BY <1>1, <1>2, <1>3, <1>4, Lasting
<1>. QED
  BY <1>5, <1>6, <1>7, <1>8, <1>9, <1>10

\* When the driver is ready everything vital is there.
LEMMA ReadyHas ==
    ASSUME RelInv, Orderly, phase = "ready"
    PROVE  ~Gone /\ \A r \in Vital \ Mappings : Has(r)
<1>1. \A r : Owned(r)
  BY DEF Owned
<1>. QED
  BY <1>1, VitalHeld DEF Gone

\* The interrupts find the queues.
LEMMA InterruptsUseInv == IInv /\ MachineOK /\ RelInv /\ UseInv /\ Interrupts => UseInv'
<1>. SUFFICES ASSUME IInv, MachineOK, RelInv, UseInv, Interrupts, Orderly' PROVE UseInv'
  BY DEF UseInv
<1>1. /\ UNCHANGED <<phase, done, handle, message, live, mapStep, command, doing, working,
                     timerWorker, hasty>>
      /\ failed' = failed /\ disorderly' = disorderly /\ fault = "none"
  BY DEF Interrupts, InterruptFromFPGA_SpiISR, InterruptFromFPGA_TimerISR, charVars, schVars,
     machineVars, dmaVars, TimerTick, TimerSet, TimerQueue, Up
<1>2. Orderly
  BY <1>1 DEF Orderly
<1>3. Pending /\ NoHaste
  BY <1>1, <1>2 DEF UseInv, Guards
<1>4. \A dma : Reconfigures(dma)' <=> Reconfigures(dma)
  BY <1>1 DEF Reconfigures
<1>5. CASE InterruptFromFPGA_SpiISR
  <2>1. /\ Has("irqSpi") /\ queued' = queued \cup {"S"} /\ timerQueued' = timerQueued
        /\ Use("SpiISR", {"queueS"})
    BY <1>5 DEF InterruptFromFPGA_SpiISR, schVars
  <2>2. ~Gone /\ Has("queueS") /\ Requested("irqSpi") /\ Owned("queueS")
    BY <1>1, <1>2, <2>1, WorkHas
  <2>3. fault' = "none"
    BY <1>1, <2>1, <2>2 DEF Use
  <2>4. Pending'
    <3>1. Requested("irqSpi")' /\ Owned("queueS")'
      BY <1>1, <2>2 DEF Requested, Owned, ToCome
    <3>2. /\ Owned("queueP")' <=> Owned("queueP")
          /\ Owned("queueT")' <=> Owned("queueT")
          /\ Requested("irqTimer")' <=> Requested("irqTimer")
      BY <1>1 DEF Requested, Owned, ToCome
    <3>. QED
      BY <1>1, <1>3, <2>1, <3>1, <3>2 DEF Pending
  <2>5. NoHaste'
    BY <1>1, <1>3, <1>4, <2>1 DEF NoHaste
  <2>. QED
    BY <1>1, <1>2, <1>4, <2>3, <2>4, <2>5, AsideUseInv
<1>6. CASE InterruptFromFPGA_TimerISR
  <2>1. Has("irqTimer") /\ queued' = queued
    BY <1>6 DEF InterruptFromFPGA_TimerISR, machineVars
  <2>2. ~Gone /\ Has("queueT") /\ Requested("irqTimer") /\ Owned("queueT")
    BY <1>1, <1>2, <2>1, WorkHas
  <2>3. fault' = "none"
    BY <1>1, <1>6, <2>2 DEF InterruptFromFPGA_TimerISR, Use
  <2>4. Pending'
    <3>1. Requested("irqTimer")' /\ Owned("queueT")'
      BY <1>1, <2>2 DEF Requested, Owned, ToCome
    <3>2. /\ Owned("queueP")' <=> Owned("queueP")
          /\ Owned("queueS")' <=> Owned("queueS")
          /\ Requested("irqSpi")' <=> Requested("irqSpi")
      BY <1>1 DEF Requested, Owned, ToCome
    <3>. QED
      BY <1>1, <1>3, <2>1, <3>1, <3>2 DEF Pending
  <2>5. NoHaste'
    BY <1>1, <1>3, <1>4, <2>1 DEF NoHaste
  <2>. QED
    BY <1>1, <1>2, <1>4, <2>3, <2>4, <2>5, AsideUseInv
<1>. QED
  BY <1>5, <1>6 DEF Interrupts

\* A transfer finds its device, and its message unless somebody was hasty.
LEMMA TransferFinds ==
    ASSUME IInv, MachineOK, RelInv, UseInv, Orderly, fault = "none", NEW w \in {"P", "S"},
           w \in queued \cup working, ~hasty, ~Reconfigures(DmaOf(w))
    PROVE  /\ ~Gone /\ Has(IF w = "P" THEN "unitP" ELSE "unitS")
           /\ Has(SpiOf(DmaOf(w))) /\ DmaOf(w) \in live /\ Has(message[DmaOf(w)])
<1>1. NoHaste
  BY DEF UseInv, Guards
<1>2. CASE w = "P"
  <2>1. DmaOf(w) = "dma0" /\ SpiOf("dma0") = "spi0" /\ message["dma0"] # "none"
    BY <1>1, <1>2 DEF DmaOf, SpiOf, NoHaste
  <2>. QED
    BY <1>2, <2>1, WorkHas
<1>3. CASE w = "S"
  <2>1. DmaOf(w) = "dma1" /\ SpiOf("dma1") = "spi1"
    BY <1>3 DEF DmaOf, SpiOf
  <2>. QED
    BY <1>3, <2>1, WorkHas
<1>. QED
  BY <1>2, <1>3

LEMMA WorksUseInv == IInv /\ MachineOK /\ RelInv /\ UseInv /\ Works => UseInv'
<1>. SUFFICES ASSUME IInv, MachineOK, RelInv, UseInv, Works, Orderly' PROVE UseInv'
  BY DEF UseInv
<1>1. /\ UNCHANGED <<phase, done, handle, message, live, mapStep, command, doing>>
      /\ failed' = failed /\ disorderly' = disorderly /\ fault = "none"
  BY DEF Works, TimerWork, WorkBegins, WorkEnds, machineVars, dmaVars, Up
<1>2. Orderly
  BY <1>1 DEF Orderly
<1>3. Pending /\ NoHaste
  BY <1>1, <1>2 DEF UseInv, Guards
<1>4. \A dma : Reconfigures(dma)' <=> Reconfigures(dma)
  BY <1>1 DEF Reconfigures
<1>5. CASE TimerWork
  <2>1. /\ queued' = queued /\ working' = working /\ hasty' = hasty
        /\ Use("schedulerTimerRun", {"queueT", "unitT"})
    BY <1>5 DEF TimerWork, machineVars
  <2>2. timerQueued \/ timerWorker # "idle"
    BY <1>5 DEF TimerWork, RunBegins, RunConfigDone, RunEnds
  <2>3. ~Gone /\ Has("queueT") /\ Has("unitT")
    BY <1>1, <1>2, <2>2, WorkHas
  <2>4. fault' = "none"
    BY <1>1, <2>1, <2>3 DEF Use
  <2>5. Pending'
    BY <1>1, <1>3, <2>1, <2>2, PendingStays
  <2>6. NoHaste'
    BY <1>1, <1>3, <1>4, <2>1 DEF NoHaste
  <2>. QED
    BY <1>1, <1>2, <1>4, <2>4, <2>5, <2>6, AsideUseInv
<1>6. ASSUME NEW w \in {"P", "S"}, WorkBegins(w) PROVE UseInv'
  <2>1. /\ w \in queued /\ queued' = queued \ {w} /\ working' = working \cup {w}
        /\ timerQueued' = timerQueued /\ timerWorker' = timerWorker
        /\ hasty' = (hasty \/ Reconfigures(DmaOf(w)))
        /\ spi_sync(w, {IF w = "P" THEN "unitP" ELSE "unitS"})
    BY <1>6 DEF WorkBegins, schVars
  <2>2. Pending'
    BY <1>1, <1>3, <2>1, PendingStays
  <2>3. fault' \in {"none", "masterTransfer"}
    BY <1>1, <2>1 DEF spi_sync
  <2>4. ~hasty' => ~hasty /\ ~Reconfigures(DmaOf(w))
    BY <2>1
  <2>5. ~hasty' => fault' = "none"
    <3>. SUFFICES ASSUME ~hasty' PROVE fault' = "none"
      OBVIOUS
    <3>1. /\ ~Gone /\ Has(IF w = "P" THEN "unitP" ELSE "unitS")
          /\ Has(SpiOf(DmaOf(w))) /\ DmaOf(w) \in live /\ Has(message[DmaOf(w)])
      BY <1>1, <1>2, <2>1, <2>4, TransferFinds
    <3>. QED
      BY <1>1, <2>1, <3>1 DEF spi_sync
  <2>6. NoHaste'
    BY <1>1, <1>3, <1>4, <2>1, <2>4 DEF NoHaste
  <2>. QED
    BY <1>1, <1>2, <1>4, <2>2, <2>3, <2>5, <2>6, AsideUseInv
<1>7. ASSUME NEW w \in {"P", "S"}, WorkEnds(w) PROVE UseInv'
  <2>1. /\ w \in working /\ queued' = queued /\ working' = working \ {w}
        /\ timerQueued' = timerQueued /\ timerWorker' = timerWorker /\ hasty' = hasty
        /\ spi_sync(w, {})
    BY <1>7 DEF WorkEnds, schVars
  <2>2. Pending'
    BY <1>1, <1>3, <2>1, PendingStays
  <2>3. fault' \in {"none", "masterTransfer"}
    BY <1>1, <2>1 DEF spi_sync
  <2>4. ~hasty => ~Reconfigures(DmaOf(w))
    BY <1>3, <2>1 DEF NoHaste
  <2>5. ~hasty => fault' = "none"
    <3>. SUFFICES ASSUME ~hasty PROVE fault' = "none"
      OBVIOUS
    <3>1. /\ ~Gone /\ Has(SpiOf(DmaOf(w))) /\ DmaOf(w) \in live /\ Has(message[DmaOf(w)])
      BY <1>1, <1>2, <2>1, <2>4, TransferFinds
    <3>. QED
      BY <1>1, <2>1, <3>1 DEF spi_sync
  <2>6. NoHaste'
    BY <1>1, <1>3, <1>4, <2>1 DEF NoHaste
  <2>. QED
    BY <1>1, <1>2, <1>4, <2>1, <2>2, <2>3, <2>5, <2>6, AsideUseInv
<1>. QED
  BY <1>5, <1>6, <1>7 DEF Works

-----------------------------------------------------------------------------
(* The machine's thread.                                                   *)

\* A step of the thread in configDMA finds what it needs, and spoils no transfer but
\* in haste.
LEMMA MachineMaps ==
    ASSUME IInv, MachineOK, RelInv, UseInv, Orderly, Orderly', fault = "none", phase = "ready",
           NEW p \in Actors, p = "machine", NEW dma \in Mappings, NEW b \in Targets,
           doing \in Configs, dma = ConfiguredBy(doing),
           \/ configDMA(p, dma, b) /\ doing' = doing
           \/ configured(p, dma, b) /\ doing' = "none",
           UNCHANGED <<phase, done, queued, working, timerQueued, timerWorker>>,
           command' \in {"none", command} \/ (dma = "dma0" /\ configured(p, dma, b))
    PROVE  UseInv'
<1>1. /\ MessagesOK /\ Pending /\ NoHaste /\ Handles(p, dma)
      /\ handle \in [Resources -> {"null", "held", "stale"}] /\ dma \in Resources
      /\ mapStep \in [Actors -> Answers] /\ live \subseteq Mappings /\ hasty \in BOOLEAN
      /\ message \in [Mappings -> {"none"} \cup Targets] /\ Mappings \subseteq Resources
  <2>1. Handles(p, dma)
    BY RestingHandles DEF RelInv, MapInv, Orderly
  <2>. QED
    BY <2>1, MemoryIsSteady DEF UseInv, Guards, IInv, LifeOK, MachineOK, DmaOK
<1>2. ~Gone /\ Has(SpiOf(dma)) /\ Has(b)
  <2>1. SpiOf(dma) \in Vital \ Mappings /\ b \in Vital \ Mappings
    BY DEF SpiOf, Vital, Mappings, Targets
  <2>. QED
    BY <2>1, ReadyHas
<1>3. /\ \A d \in Mappings : Reconfigures(d) <=>
              d = dma /\ mapStep[p] \in {"zero", "map", "set"}
      /\ \A d \in Mappings : Reconfigures(d)' <=>
              d = dma /\ doing' # "none" /\ mapStep'[p] \in {"zero", "map", "set"}
  BY DEF Reconfigures, Configs
<1>4. /\ \A w \in working : DmaOf(w) = dma <=> w = WorkOf(dma)
      /\ working \subseteq {"P", "S"} /\ \A w \in working : DmaOf(w) \in Mappings
  BY DEF DmaOf, WorkOf, Mappings, MachineOK
<1>. DEFINE Messages == /\ \A d \in live' : handle'[d] = "held"
                        /\ \A d \in Mappings :
                             message'[d] # "none" => d \in live' \/ Reconfigures(d)'
                        /\ \A d \in Mappings : message[d] # "none" => message'[d] # "none"
            Works2 == ~hasty' => ~hasty /\ \A w \in working : ~Reconfigures(DmaOf(w))'
            Faults == fault' = "none" \/ (hasty' /\ fault' = "masterTransfer")
<1>5. /\ \A d \in live : handle[d] = "held"
      /\ \A d \in Mappings : message[d] # "none" => d \in live \/ Reconfigures(d)
      /\ message["dma1"] # "none"
  BY <1>1 DEF MessagesOK, Owned, Has
<1>6. /\ ~hasty => \A w \in working : ~Reconfigures(DmaOf(w))
      /\ ~hasty /\ WorkOf(dma) \in working => message[dma] # "none"
  BY <1>1, <1>5 DEF NoHaste, WorkOf, Mappings
<1>. HIDE DEF Mappings, Actors, Answers, Targets
<1>7. ASSUME NEW a \in {"unmap", "map"}, Ask(p, dma, a), doing' = doing
      PROVE  Messages /\ Works2 /\ Faults
  <2>1. UNCHANGED <<message, live, handle, hasty>> /\ mapStep[p] = "ask" /\ mapStep'[p] = a
        /\ fault' = "none"
    BY <1>1, <1>2, <1>7 DEF Ask, Use
  <2>2. Messages
    BY <1>3, <1>5, <2>1
  <2>3. a = "map" => handle[dma] = "null"
    BY <1>7 DEF Ask
  <2>4. a = "map" => message[dma] = "none"
    BY <1>3, <1>5, <2>1, <2>3
  <2>5. Works2
    BY <1>3, <1>4, <1>6, <2>1, <2>4
  <2>. QED
    BY <2>1, <2>2, <2>5
<1>8. ASSUME Unmap(p, dma), doing' = doing
      PROVE  Messages /\ Works2 /\ Faults
  <2>1. /\ message' = message /\ live' = live \ {dma} /\ mapStep'[p] = "zero"
        /\ \A d \in Mappings : d # dma => handle'[d] = handle[d]
        /\ mapStep[p] = "unmap"
    BY <1>1, <1>8 DEF Unmap
  <2>2. hasty' = (hasty \/ WorkOf(dma) \in working)
    BY <1>8 DEF Unmap, Meets
  <2>3. Messages
    <3>1. Reconfigures(dma)'
      BY <1>3, <1>8, <2>1 DEF Configs
    <3>. QED
      BY <1>1, <1>3, <1>5, <2>1, <3>1
  <2>4. Works2
    BY <1>3, <1>4, <2>2
  <2>5. Faults
    BY <1>2, <1>8, <2>2 DEF Unmap, UseUnder, Use
  <2>. QED
    BY <2>3, <2>4, <2>5
<1>9. ASSUME Zero(p, dma, "map") \/ Map(p, dma, b), doing' = doing
      PROVE  Messages /\ Works2 /\ Faults
  <2>1. /\ UNCHANGED <<message, live, hasty>> /\ mapStep[p] \in {"zero", "map"}
        /\ mapStep'[p] \in {"map", "set"}
        /\ \A d \in Mappings : d # dma => handle'[d] = handle[d]
        /\ dma \in live => handle'[dma] = "held"
    BY <1>1, <1>5, <1>9 DEF Zero, Map, Handles, Has
  <2>2. Messages
    <3>1. \A d \in Mappings : Reconfigures(d)' <=> Reconfigures(d)
      BY <1>3, <1>9, <2>1 DEF Configs
    <3>. QED
      BY <1>1, <1>5, <2>1, <3>1
  <2>3. Works2
    BY <1>3, <1>4, <1>6, <2>1
  <2>4. Faults
    BY <1>2, <1>9 DEF Zero, Map, Use
  <2>. QED
    BY <2>2, <2>3, <2>4
<1>10. ASSUME SetMessage(p, dma, b), doing' = "none"
       PROVE  Messages /\ Works2 /\ Faults
  <2>1. /\ live' = live \cup {dma} /\ handle' = handle /\ handle[dma] = "held"
        /\ message' = [message EXCEPT ![dma] = b]
    BY <1>1, <1>10 DEF SetMessage, Handles, Has
  <2>2. hasty' = (hasty \/ WorkOf(dma) \in working)
    BY <1>10 DEF SetMessage, Meets
  <2>3. b # "none"
    BY DEF Targets
  <2>4. Messages
    BY <1>1, <1>3, <1>5, <1>10, <2>1, <2>3
  <2>5. Works2
    BY <1>3, <1>4, <1>10, <2>2
  <2>6. Faults
    BY <1>2, <1>10, <2>2 DEF SetMessage, UseUnder, Use
  <2>. QED
    BY <2>4, <2>5, <2>6
<1>11. Messages /\ Works2 /\ Faults
  <2>1. ~MapFails(p, dma, b)
    <3>1. dma \notin failed'
      BY DEF Orderly, Vital, Mappings
    <3>. QED
      BY <3>1 DEF MapFails
  <2>. QED
    BY <1>7, <1>8, <1>9, <1>10, <2>1 DEF configDMA, configured
<1>12. (\A x : Owned(x)) /\ \A x : Owned(x)'
  BY DEF Owned
<1>13. MessagesOK'
  BY <1>5, <1>11, <1>12, DmaStepsAre DEF MessagesOK, Has
<1>14. Pending'
  BY <1>1, PendingStays
<1>15. NoHaste'
  <2>1. configured(p, dma, b) => SetMessage(p, dma, b)
    <3>1. dma \notin failed'
      BY DEF Orderly, Vital, Mappings
    <3>. QED
      BY <3>1 DEF MapFails, configured
  <2>2. dma = "dma0" /\ configured(p, dma, b) => message'["dma0"] # "none"
    <3>1. b # "none"
      BY DEF Targets
    <3>. QED
      BY <1>1, <2>1, <3>1 DEF SetMessage
  <2>3. message["dma0"] # "none" => message'["dma0"] # "none"
    <3>1. "dma0" \in Mappings
      BY DEF Mappings
    <3>. QED
      BY <1>11, <3>1
  <2>4. doing' # "SM_PRIMARY_SPI"
    BY DEF Configs
  <2>. QED
    BY <1>1, <1>11, <2>2, <2>3, <2>4 DEF NoHaste
<1>. QED
  BY <1>11, <1>13, <1>14, <1>15 DEF UseInv, Guards

\* A command is run by the loaded driver.
LEMMA MachineUseInv ==
    IInv /\ MachineOK /\ RelInv /\ UseInv /\ (CaseConfigures \/ RunCommand) => UseInv'
<1>. SUFFICES ASSUME IInv, MachineOK, RelInv, UseInv, CaseConfigures \/ RunCommand, Orderly'
              PROVE  UseInv'
  BY DEF UseInv
<1>1. /\ UNCHANGED <<phase, done, working, disorderly>> /\ fault = "none"
      /\ timerQueued' = timerQueued /\ timerWorker' = timerWorker
      /\ doing # "none" /\ doing' \in {"none", doing}
  BY DEF CaseConfigures, RunCommand, schVars, Up, Configs
<1>2. doing \in Configs \cup {"SM_PRIMARY_SPI", "SM_FPGA_RESET"}
  BY <1>1, CommandsAre
<1>3. Orderly
  <2>1. failed \subseteq failed'
    <3>1. CASE doing \in Configs
      <4>1. PICK p \in Actors, dma \in Mappings : DmaSteps(p, dma)
        BY <3>1, DmaStepsAre
      <4>2. failed' \in {failed, failed \cup {dma}}
        BY <4>1, DmaStepFacts DEF IInv, MachineOK
      <4>. QED
        BY <4>2
    <3>2. CASE doing \notin Configs
      BY <1>2, <3>2 DEF CaseConfigures, RunCommand, Configs
    <3>. QED
      BY <3>1, <3>2
  <2>. QED
    BY <1>1, <2>1 DEF Orderly
<1>4. phase = "ready"
  BY <1>1, <1>3, OrderlyRests DEF AtRest, Settled
<1>5. CASE doing \in Configs
  <2>1. PICK p \in Actors, dma \in Mappings, b \in Targets :
           p = "machine" /\ dma = ConfiguredBy(doing) /\ b = BuffersFor(doing)
    BY <1>5, DmaStepsAre
  <2>2. \/ configDMA(p, dma, b) /\ doing' = doing
        \/ configured(p, dma, b) /\ doing' = "none"
    <3>1. CASE CaseConfigures
      BY <2>1, <3>1 DEF CaseConfigures
    <3>2. CASE RunCommand
      BY <1>5, <2>1, <3>2 DEF RunCommand, Configs
    <3>. QED
      BY <3>1, <3>2
  <2>3. queued' = queued
    BY <1>5 DEF CaseConfigures, RunCommand, Configs
  <2>4. command' \in {"none", command} \/ (dma = "dma0" /\ configured(p, dma, b))
    <3>1. CASE CaseConfigures
      BY <3>1 DEF CaseConfigures
    <3>2. CASE RunCommand
      <4>1. doing = "SM_RAMDISK_CONFIG" => dma = "dma0"
        BY <2>1 DEF ConfiguredBy
      <4>2. configured(p, dma, b)
        BY <1>5, <2>1, <3>2 DEF RunCommand, Configs
      <4>. QED
        BY <3>2, <4>1, <4>2 DEF RunCommand
    <3>. QED
      BY <3>1, <3>2
  <2>. QED
    BY <1>1, <1>3, <1>4, <1>5, <2>1, <2>2, <2>3, <2>4, MachineMaps
<1>6. CASE doing \notin Configs
  <2>1. /\ UNCHANGED <<handle, message, live, mapStep, hasty>> /\ command' = "none"
        /\ doing' = "none"
        /\ queued' = queued \/ (doing = "SM_PRIMARY_SPI" /\ queued' = queued \cup {"P"})
        /\ Use("machine", {}) \/ Use("machine", {"queueP", "unitP"})
    BY <1>2, <1>6 DEF CaseConfigures, RunCommand, Configs, dmaVars
  <2>2. ~Gone /\ Has("queueP") /\ Has("unitP")
    BY <1>3, <1>4, ReadyHas DEF Vital, Mappings
  <2>3. fault' = "none"
    BY <1>1, <2>1, <2>2 DEF Use
  <2>4. Pending /\ NoHaste
    BY <1>1, <1>3 DEF UseInv, Guards
  <2>5. \A dma : ~Reconfigures(dma) /\ ~Reconfigures(dma)'
    BY <1>6, <2>1 DEF Reconfigures, Configs
  <2>6. Pending'
    <3>1. (\A x : Owned(x)') /\ \A irq : Requested(irq)'
      BY <1>1, <1>4 DEF Owned, Requested
    <3>. QED
      BY <1>1, <1>4, <3>1 DEF Pending
  <2>7. NoHaste'
    BY <1>1, <2>1, <2>4, <2>5 DEF NoHaste
  <2>. QED
    BY <1>1, <1>3, <2>1, <2>3, <2>5, <2>6, <2>7, AsideUseInv
<1>. QED
  BY <1>5, <1>6

\* The other threads.
LEMMA ThreadsUseInv ==
    IInv /\ MachineOK /\ RelInv /\ UseInv /\ (watchdogThread \/ TakeCommand) => UseInv'
<1>. SUFFICES ASSUME IInv, MachineOK, RelInv, UseInv, watchdogThread \/ TakeCommand, Orderly'
              PROVE  UseInv'
  BY DEF UseInv
<1>2. CASE watchdogThread
  <2>1. Orderly /\ fault = "none"
    BY <1>2 DEF watchdogThread, Orderly, Up
  <2>2. ~Gone /\ Has("wdBuffers")
    BY <1>2, <2>1, WorkHas DEF watchdogThread
  <2>. QED
    BY <1>2, <2>2 DEF watchdogThread, Use
<1>3. CASE TakeCommand
  <2>1. /\ UNCHANGED <<phase, done, handle, message, live, mapStep, queued, working, hasty>>
        /\ timerQueued' = timerQueued /\ timerWorker' = timerWorker
        /\ failed' = failed /\ disorderly' = disorderly /\ fault = "none"
        /\ command # "none" /\ doing = "none" /\ doing' = command /\ command' = "none"
        /\ Use("machine", {})
    BY <1>3 DEF TakeCommand, schVars, dmaVars, Up
  <2>2. Orderly
    BY <2>1 DEF Orderly
  <2>3. Pending /\ NoHaste
    BY <2>1, <2>2 DEF UseInv, Guards
  <2>4. phase = "ready"
    BY <2>1, <2>2, OrderlyRests DEF AtRest, Settled
  <2>5. fault' = "none"
    BY <2>1, <2>4 DEF Use, Gone
  <2>6. mapStep["machine"] = "ask"
    BY <2>1, <2>2, OrderlyRests DEF Configs
  <2>7. \A dma : ~Reconfigures(dma) /\ ~Reconfigures(dma)'
    BY <2>1, <2>6 DEF Reconfigures
  <2>8. Pending'
    BY <2>1, <2>3, PendingStays
  <2>9. NoHaste'
    BY <2>1, <2>3, <2>7 DEF NoHaste
  <2>. QED
    BY <2>1, <2>2, <2>5, <2>7, <2>8, <2>9, AsideUseInv
<1>. QED
  BY <1>2, <1>3

-----------------------------------------------------------------------------
(* The users.                                                              *)

\* A user who stays within the loaded driver finds the buffers.
LEMMA CallsUseInv ==
    ASSUME IInv, RelInv, UseInv, NEW u \in Users, Calls(u)
    PROVE  UseInv'
<1>. SUFFICES ASSUME Orderly' PROVE UseInv'
  BY DEF UseInv
<1>1. /\ UNCHANGED <<phase, done, handle, message, live, mapStep, queued, working, doing>>
      /\ timerQueued' = timerQueued /\ timerWorker' = timerWorker
      /\ failed' = failed /\ (disorderly => disorderly') /\ fault = "none"
  <2>1. CASE opened(u) \/ close(u) \/ read(u)
    BY <2>1 DEF opened, close, read, schVars, machineVars, dmaVars, Up
  <2>2. CASE \E d \in Devices : open(u, d)
    BY <2>2 DEF open, schVars, machineVars, dmaVars, Up
  <2>3. CASE \E c \in scene.commands : commanderWrite(u, c)
    BY <2>3 DEF commanderWrite, schVars, dmaVars, Up
  <2>. QED
    BY <2>1, <2>2, <2>3 DEF Calls
<1>2. Orderly
  BY <1>1 DEF Orderly
<1>3. Pending /\ NoHaste
  BY <1>1, <1>2 DEF UseInv, Guards
<1>4. phase = "ready"
  <2>1. CASE \E d \in Devices : open(u, d)
    BY <2>1 DEF open, Orderly
  <2>2. CASE ~\E d \in Devices : open(u, d)
    <3>1. file[u].at # "out"
      BY <2>2 DEF Calls, opened, close, read, commanderWrite, OpenResult, Close
    <3>. QED
      BY <1>2, <3>1, OrderlyRests DEF AtRest, Out
  <2>. QED
    BY <2>1, <2>2
<1>5. ~Gone /\ Has("cmdBuffers") /\ Has("wdBuffers")
  BY <1>2, <1>4, ReadyHas DEF Vital, Mappings
<1>6. fault' = "none"
  BY <1>1, <1>5 DEF Calls, opened, close, read, open, commanderWrite, Use, BuffersOf
<1>7. Pending'
  BY <1>1, <1>3, PendingStays
<1>8. \A dma : Reconfigures(dma)' <=> Reconfigures(dma)
  BY <1>1 DEF Reconfigures
<1>9. NoHaste'
  <2>1. CASE UNCHANGED <<command, hasty>>
    BY <1>1, <1>3, <1>8, <2>1 DEF NoHaste
  <2>2. ASSUME NEW c \in scene.commands, commanderWrite(u, c) PROVE NoHaste'
    <3>1. /\ command' = c
          /\ hasty' = (hasty \/ (c = "SM_PRIMARY_SPI" /\ message["dma0"] = "none"))
      BY <2>2 DEF commanderWrite
    <3>. QED
      BY <1>1, <1>3, <1>8, <3>1 DEF NoHaste
  <2>. QED
    BY <2>1, <2>2 DEF Calls, opened, close, read, open, machineVars
<1>. QED
  BY <1>1, <1>2, <1>6, <1>7, <1>8, <1>9, AsideUseInv

-----------------------------------------------------------------------------
(* The theorem.                                                            *)

\* Every step keeps the invariant.
LEMMA NextUseInv == IInv /\ MachineOK /\ RelInv /\ UseInv /\ [Next]_vars => UseInv'
<1>1. ASSUME UseInv, UNCHANGED vars PROVE UseInv'
  <2>1. /\ UNCHANGED <<phase, done, handle, message, live, mapStep, queued, working, command,
                       doing, timerQueued, timerWorker>>
        /\ UNCHANGED <<failed, disorderly, fault, hasty>>
    BY <1>1 DEF vars, lifeVars, schVars, machineVars, dmaVars
  <2>2. SUFFICES ASSUME Orderly', fault = "none" PROVE UseInv'
    BY <1>1, <2>1 DEF UseInv, Orderly
  <2>3. Orderly
    BY <2>1, <2>2 DEF Orderly
  <2>4. Pending /\ NoHaste
    BY <1>1, <2>2, <2>3 DEF UseInv, Guards
  <2>5. \A dma : Reconfigures(dma)' <=> Reconfigures(dma)
    BY <2>1 DEF Reconfigures
  <2>6. Pending' /\ NoHaste'
    BY <2>1, <2>4, <2>5, PendingStays DEF NoHaste
  <2>. QED
    BY <1>1, <2>1, <2>2, <2>3, <2>5, <2>6, AsideUseInv
<1>. QED
  BY <1>1, LoadUseInv, ModuleMapsUseInv, RmmodUseInv, UnloadUseInv, InterruptsUseInv,
     WorksUseInv, MachineUseInv, ThreadsUseInv, CallsUseInv DEF Next, Module, Threads,
     MachineThread

\* Nothing of the driver is used that is not there, whatever comes when and however
\* many users, if they stay within the loaded driver and all that is vital could be had;
\* but a transfer that configDMA meets, or that no configDMA came before: the order in
\* which main.c loads and unloads protects every other activity.
THEOREM NothingMissing == Spec => []NothingMissingIsUsed
<1>1. UseInv => NothingMissingIsUsed
  BY DEF UseInv, Orderly, NothingMissingIsUsed
<1>. QED
  BY <1>1, InitRelInv, InitUseInv, NextRelInv, NextUseInv, AlwaysIInv, PTL DEF Spec
=============================================================================
