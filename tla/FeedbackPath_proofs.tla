------------------------ MODULE FeedbackPath_proofs -------------------------
(***************************************************************************)
(* What module FeedbackPath promises for any number of replies that fits   *)
(* its eight bit counters, and any number of configurations and samples.   *)
(*                                                                         *)
(* Two arguments.  Without any assumption on the FPGA, tryLock is a lock   *)
(* for one transfer, TxData holds nothing twice and no sample unnoticed,   *)
(* though two work queues fill it.  If the FPGA spaces                     *)
(* its interrupts, no transfer fails and configurations start on a quiet   *)
(* path, then the unsynchronised counters agree with the replies: every    *)
(* reply is owed, in flight, transferred or counted, and configCount is    *)
(* twice the number counted.                                               *)
(***************************************************************************)
EXTENDS FeedbackPath, TLAPS

\* What FeedbackPath.cfg assumes of the FPGA and of its user.
Orderly == Spaced /\ QuietConfig /\ ~SpiMayFail

\* 1 while the one reply that an interrupt announced is not transferred yet.
InFlight == IF \/ queued /\ carries = "reply"
               \/ work = "xfer" /\ serving = "reply"
            THEN 1 ELSE 0

\* 1 while the last reply is transferred and not counted yet.
Uncounted == IF work \in {"unlock", "confirm", "count"} /\ serving = "reply" THEN 1 ELSE 0

\* What is announced says what it is.
Labelled ==
    /\ queued => carries # "none"
    /\ work \in {"xfer", "unlock", "confirm"} => serving # "none"

\* The configuration has still to reach the FPGA.
Handing == thread # "idle" \/ ConfigOnItsWay

\* A configuration is the only frame there is, and stays the ramdisk's until it
\* has been sent.
OneConfiguration ==
    /\ thread # "idle" => ~primaryQueued /\ primary = "idle"
    /\ thread = "mapped" => primaryMode = "ramdisk"
    /\ primary = "xfer" /\ primaryTarget = "ramdisk" =>
           ~primaryQueued /\ primaryMode = "ramdisk"

\* From the first store of resetLongDma to the arrival of the configuration at
\* the FPGA the path is at rest and the counters are what the thread left.
ThreadOwnsCounters ==
    Handing =>
        /\ tryLock = 0 /\ ~queued /\ work = "idle" /\ owed = 0
        /\ configCount = 0
        /\ thread # "reset" => ~configDone
        /\ thread \notin {"reset", "cleared"} => answered = 0
        /\ thread = "begun" => ~payloadReady
        /\ thread \in {"prepared", "mapped", "idle"} => payloadReady /\ payloadBytes = 2 * Replies

\* Before the first configuration there is nothing to count.
NothingOpen ==
    ~Handing /\ ~payloadReady =>
        /\ ~configDone /\ configCount = 0 /\ owed = 0
        /\ work \notin {"count", "compare"}
        /\ queued => carries # "reply"
        /\ work \in {"xfer", "unlock", "confirm"} => serving # "reply"

\* While one is open every reply is owed, in flight or transferred, and the
\* count follows the transferred ones; it is closed when all are counted.
CountFollows ==
    ~Handing /\ payloadReady =>
        /\ payloadBytes = 2 * Replies
        /\ answered + owed + InFlight = Replies
        /\ work \in {"count", "compare"} => ~configDone /\ serving = "reply"
        /\ work = "count" => loaded = configCount
        /\ work = "compare" => loaded + 2 = configCount
        /\ Uncounted = 1 => answered >= 1
        /\ ~configDone => configCount = 2 * (answered - Uncounted)
        /\ ~configDone /\ work # "compare" => configCount # 2 * Replies
        /\ configDone => answered = Replies
        /\ queued /\ carries = "sample" => answered = Replies
        /\ work \in {"xfer", "unlock", "confirm"} /\ serving = "sample" => configDone

\* The inductive invariant of an orderly path.
OrderlyInv ==
    /\ TypeOK
    /\ LockIsForOneTransfer
    /\ ~failed
    /\ Labelled
    /\ OneConfiguration
    /\ ThreadOwnsCounters
    /\ NothingOpen
    /\ CountFollows
-----------------------------------------------------------------------------
\* Every step keeps the types.
LEMMA NextTypeOK == TypeOK /\ [Next]_vars => TypeOK'
<1> SUFFICES ASSUME TypeOK, [Next]_vars PROVE TypeOK'
  OBVIOUS
<1> USE FeedbackAssumption DEF isrVars, workVars, fpgaVars, countVars, ramVars, threadVars, readVars,
    primVars, Parts
<1>1. ASSUME NEW kind \in {"reply", "sample"}, SpiISR(kind) PROVE TypeOK'
  <2>1. owed' \in 0 .. Replies /\ announced' \in 0 .. MaxSamples
    BY <1>1 DEF SpiISR, Announces, TypeOK
  <2>2. tryLock' \in {0, 1} /\ queued' \in BOOLEAN /\ carries' \in {"none", "reply", "sample"}
    BY <1>1 DEF SpiISR, TypeOK
  <2>3. UNCHANGED <<workVars, countVars, ramVars, threadVars, answered, transfers, txData,
                    wakeUpDevice, readVars, failed, primVars>>
    BY <1>1 DEF SpiISR
  <2> QED
    BY <2>1, <2>2, <2>3 DEF TypeOK
<1>2. CASE StartWork
  <2>1. queued' \in BOOLEAN
    BY <1>2 DEF StartWork
  <2>2. work' = "xfer" /\ target' = mode /\ serving' = carries
    BY <1>2 DEF StartWork
  <2>3. UNCHANGED <<tryLock, carries, countVars, ramVars, threadVars, fpgaVars, answered,
                       transfers, txData, wakeUpDevice, readVars, failed, primVars>>
    BY <1>2 DEF StartWork
  <2> QED
    BY <2>1, <2>2, <2>3 DEF TypeOK, Bytes
<1>3. CASE TransferDone
  <2>1. /\ work' = "unlock" /\ answered' \in Nat
        /\ UNCHANGED <<isrVars, target, serving, countVars, ramVars, threadVars, fpgaVars,
                       wakeUpDevice, readVars, failed, primVars>>
    BY <1>3 DEF TransferDone, TypeOK
  <2>2. CASE target = "commander"
    <3>1. transfers' = transfers + 1 /\ txData' = [p \in Parts |-> transfers + 1]
      BY <1>3, <2>2 DEF TransferDone
    <3>2. transfers \in Nat /\ transfers' \in Nat
      BY <3>1 DEF TypeOK
    <3>3. txData' \in [Parts -> 0 .. transfers'] /\ lastRead' \in [Parts -> 0 .. transfers']
      BY <2>1, <3>1, <3>2 DEF TypeOK
    <3> QED
      BY <2>1, <3>2, <3>3 DEF TypeOK, Bytes
  <2>3. CASE target # "commander"
    <3>1. UNCHANGED <<transfers, txData>>
      BY <1>3, <2>3 DEF TransferDone
    <3> QED
      BY <2>1, <3>1 DEF TypeOK, Bytes
  <2> QED
    BY <2>2, <2>3
<1>4. CASE TransferFailed
  BY <1>4 DEF TransferFailed, TypeOK, Bytes
<1>5. CASE clearIsrLock
  BY <1>5 DEF clearIsrLock, TypeOK, Bytes
<1>6. CASE ConfirmCheck
  BY <1>6 DEF ConfirmCheck, TypeOK, Bytes
<1>7. CASE ConfirmCount
  BY <1>7 DEF ConfirmCount, TypeOK, Bytes
<1>8. CASE ConfirmCompare
  <2>1. configDone' \in BOOLEAN
    BY <1>8 DEF ConfirmCompare, TypeOK
  <2>2. work' = "wake"
    BY <1>8 DEF ConfirmCompare
  <2>3. UNCHANGED <<isrVars, target, serving, configCount, loaded, ramVars, threadVars,
                       fpgaVars, answered, transfers, txData, wakeUpDevice, readVars, failed, primVars>>
    BY <1>8 DEF ConfirmCompare
  <2> QED
    BY <2>1, <2>2, <2>3 DEF TypeOK, Bytes
<1>9. CASE eventWakeUpDevice
  BY <1>9 DEF eventWakeUpDevice, TypeOK, Bytes
<1>10. CASE ResetCount
  BY <1>10 DEF ResetCount, TypeOK, Bytes
<1>11. CASE ResetDone
  <2>1. configDone' \in BOOLEAN /\ thread' = "cleared"
    BY <1>11 DEF ResetDone
  <2>2. UNCHANGED <<isrVars, workVars, configCount, loaded, ramVars, mode, rounds, fpgaVars,
                       answered, transfers, txData, wakeUpDevice, readVars, failed, primVars>>
    BY <1>11 DEF ResetDone
  <2> QED
    BY <2>1, <2>2 DEF TypeOK, Bytes
<1>12. CASE PrepareBegin
  <2>1. payloadReady' \in BOOLEAN
    BY <1>12 DEF PrepareBegin
  <2>2. payloadBytes' = 0 /\ answered' = 0 /\ thread' = "begun"
    BY <1>12 DEF PrepareBegin
  <2>3. UNCHANGED <<isrVars, workVars, countVars, mode, rounds, fpgaVars, transfers, txData,
                       wakeUpDevice, readVars, failed, primVars>>
    BY <1>12 DEF PrepareBegin
  <2> QED
    BY <2>1, <2>2, <2>3 DEF TypeOK, Bytes
<1>13. CASE PrepareEnd
  BY <1>13 DEF PrepareEnd, TypeOK, Bytes
<1>14. CASE ConfigPrimary \/ ConfigNormal
  BY <1>14 DEF ConfigPrimary, ConfigNormal, TypeOK, Bytes
<1>15. CASE QueueConfig \/ QueueFrame
  <2>1. UNCHANGED <<isrVars, workVars, countVars, ramVars, mode, rounds, fpgaVars, answered,
                    transfers, txData, wakeUpDevice, readVars, failed, primaryMode, primary,
                    primaryTarget>>
    BY <1>15 DEF QueueConfig, QueueFrame
  <2>2. primaryQueued' \in BOOLEAN
    BY <1>15 DEF QueueConfig, QueueFrame
  <2>3. frames' \in 0 .. MaxFrames
    <3>1. CASE QueueConfig
      BY <3>1 DEF QueueConfig, TypeOK
    <3>2. CASE QueueFrame
      <4>1. frames \in Nat /\ frames < MaxFrames /\ frames' = frames + 1
        BY <3>2 DEF QueueFrame, TypeOK
      <4> QED
        BY <4>1
    <3> QED
      BY <1>15, <3>1, <3>2
  <2>4. thread' \in {"idle", "reset", "cleared", "begun", "prepared", "mapped"}
    BY <1>15 DEF QueueConfig, QueueFrame
  <2> QED
    BY <2>1, <2>2, <2>3, <2>4 DEF TypeOK, Bytes
<1>16. CASE StartPrimary
  <2>1. primaryQueued' \in BOOLEAN /\ primary' = "xfer" /\ primaryTarget' = primaryMode
    BY <1>16 DEF StartPrimary
  <2>2. UNCHANGED <<isrVars, workVars, countVars, ramVars, threadVars, fpgaVars, answered,
                    transfers, txData, wakeUpDevice, readVars, failed, primaryMode, frames>>
    BY <1>16 DEF StartPrimary
  <2> QED
    BY <2>1, <2>2 DEF TypeOK, Bytes
<1>17. CASE PrimaryDone
  <2>1. /\ primary' = "check" /\ owed' \in 0 .. Replies
        /\ UNCHANGED <<isrVars, workVars, countVars, ramVars, threadVars, announced, answered,
                   wakeUpDevice, readVars, failed, primaryMode, primaryQueued, primaryTarget,
                   frames>>
    BY <1>17 DEF PrimaryDone, TypeOK
  <2>2. CASE primaryTarget = "commander"
    <3>1. transfers' = transfers + 1 /\ txData' = [txData EXCEPT !["head"] = transfers + 1]
      BY <1>17, <2>2 DEF PrimaryDone
    <3>2. transfers \in Nat /\ transfers' \in Nat
      BY <3>1 DEF TypeOK
    <3>3. txData' \in [Parts -> 0 .. transfers'] /\ lastRead' \in [Parts -> 0 .. transfers']
      BY <2>1, <3>1, <3>2 DEF TypeOK
    <3> QED
      BY <2>1, <3>2, <3>3 DEF TypeOK, Bytes
  <2>3. CASE primaryTarget # "commander"
    <3>1. UNCHANGED <<transfers, txData>>
      BY <1>17, <2>3 DEF PrimaryDone
    <3> QED
      BY <2>1, <3>1 DEF TypeOK, Bytes
  <2> QED
    BY <2>2, <2>3
<1>18. CASE PrimaryFailed
  BY <1>18 DEF PrimaryFailed, TypeOK, Bytes
<1>19. CASE PreambleCheck
  <2>1. wakeUpDevice' \in BOOLEAN /\ primary' = "idle"
    BY <1>19 DEF PreambleCheck, TypeOK
  <2>2. UNCHANGED <<isrVars, workVars, countVars, ramVars, threadVars, fpgaVars, answered,
                    transfers, txData, readVars, failed, primaryMode, primaryQueued,
                    primaryTarget, frames>>
    BY <1>19 DEF PreambleCheck
  <2> QED
    BY <2>1, <2>2 DEF TypeOK, Bytes
<1>20. CASE WatchdogWakes
  BY <1>20 DEF WatchdogWakes, TypeOK, Bytes
<1>21. ASSUME NEW buffer \in {"commander", "ramdisk"}, configSecondary(buffer) PROVE TypeOK'
  BY <1>21 DEF configSecondary, TypeOK
<1>22. CASE ReadEnter
  BY <1>22 DEF ReadEnter, TypeOK, Bytes
<1>23. CASE ReadWoken
  BY <1>23 DEF ReadWoken, TypeOK, Bytes
<1>24. CASE ReadLowerFlag
  <2>1. wakeUpDevice' \in BOOLEAN /\ reader' = "copyHead"
    BY <1>24 DEF ReadLowerFlag, CopyStep
  <2>2. UNCHANGED <<isrVars, workVars, countVars, ramVars, threadVars, fpgaVars, answered,
                       transfers, txData, lastRead, failed, primVars>>
    BY <1>24 DEF ReadLowerFlag
  <2> QED
    BY <2>1, <2>2 DEF TypeOK, Bytes
<1>25. ASSUME NEW part \in Parts, ReadCopy(part) PROVE TypeOK'
  <2>1. reader' \in {"copyTail", "zeroHead"}
    BY <1>25 DEF ReadCopy, CopyStep, ZeroStep
  <2>2. lastRead' \in [Parts -> 0 .. transfers]
    BY <1>25 DEF ReadCopy, TypeOK
  <2>3. UNCHANGED <<isrVars, workVars, countVars, ramVars, threadVars, fpgaVars, answered,
                    transfers, txData, wakeUpDevice, failed, primVars>>
    BY <1>25 DEF ReadCopy
  <2> QED
    BY <2>1, <2>2, <2>3 DEF TypeOK, Bytes
<1>26. ASSUME NEW part \in Parts, ReadZero(part) PROVE TypeOK'
  <2>1. reader' \in {"zeroTail", "out"}
    BY <1>26 DEF ReadZero, ZeroStep
  <2>2. txData' \in [Parts -> 0 .. transfers]
    BY <1>26 DEF ReadZero, TypeOK
  <2>3. UNCHANGED <<isrVars, workVars, countVars, ramVars, threadVars, fpgaVars, answered,
                    transfers, wakeUpDevice, lastRead, failed, primVars>>
    BY <1>26 DEF ReadZero
  <2> QED
    BY <2>1, <2>2, <2>3 DEF TypeOK, Bytes
<1>27. CASE UNCHANGED vars
  BY <1>27 DEF vars, TypeOK
<1> QED
  BY <1>1, <1>2, <1>3, <1>4, <1>5, <1>6, <1>7, <1>8, <1>9, <1>10, <1>11, <1>12, <1>13, <1>14,
     <1>15, <1>16, <1>17, <1>18, <1>19, <1>20, <1>21, <1>22, <1>23, <1>24, <1>25, <1>26, <1>27
     DEF Next, Interrupt, Worker, PrimaryWorker, StateMachineThread, Reader, Reading

LEMMA InitTypeOK == Init => TypeOK
<1> SUFFICES ASSUME Init PROVE TypeOK
  OBVIOUS
<1>1. {queued, configDone, payloadReady, wakeUpDevice, failed, primaryQueued} \subseteq BOOLEAN
  BY DEF Init
<1>2. /\ tryLock = 0 /\ carries = "none" /\ work = "idle" /\ target = "ramdisk"
      /\ serving = "none" /\ mode = "ramdisk" /\ thread = "idle" /\ reader = "out"
      /\ primaryMode = "commander" /\ primary = "idle" /\ primaryTarget = "commander"
  BY DEF Init
<1>3. /\ configCount = 0 /\ loaded = 0 /\ payloadBytes = 0 /\ rounds = 0 /\ owed = 0
      /\ announced = 0 /\ answered = 0 /\ transfers = 0 /\ frames = 0
  BY DEF Init
<1>4. txData \in [Parts -> 0 .. transfers] /\ lastRead \in [Parts -> 0 .. transfers]
  BY <1>3 DEF Init
<1> QED
  BY <1>1, <1>2, <1>3, <1>4, FeedbackAssumption DEF TypeOK, Bytes

\* Every variable keeps its type: neither tryLock nor the eight bit counters
\* leave their range, whatever the FPGA does.
THEOREM TypeCorrect == Spec => []TypeOK
  BY InitTypeOK, NextTypeOK, PTL DEF Spec

-----------------------------------------------------------------------------
(* The lock and the buffer, without assumptions on the FPGA.               *)

LEMMA NextLock == TypeOK /\ LockIsForOneTransfer /\ [Next]_vars => LockIsForOneTransfer'
<1> SUFFICES ASSUME TypeOK, LockIsForOneTransfer, [Next]_vars PROVE LockIsForOneTransfer'
  OBVIOUS
<1> USE DEF LockIsForOneTransfer, Outstanding, isrVars, workVars
<1>1. ASSUME NEW kind \in {"reply", "sample"}, SpiISR(kind) PROVE LockIsForOneTransfer'
  BY <1>1 DEF SpiISR
<1>2. CASE StartWork
  BY <1>2 DEF StartWork
<1>3. CASE TransferDone \/ TransferFailed
  BY <1>3 DEF TransferDone, TransferFailed
<1>4. CASE clearIsrLock
  BY <1>4 DEF clearIsrLock
<1>5. CASE ConfirmCheck \/ ConfirmCount \/ ConfirmCompare \/ eventWakeUpDevice
  <2>1. UNCHANGED <<tryLock, queued, failed, primVars>>
    BY <1>5 DEF ConfirmCheck, ConfirmCount, ConfirmCompare, eventWakeUpDevice
  <2>2. work \notin {"xfer", "unlock"} /\ work' \notin {"xfer", "unlock"}
    BY <1>5 DEF ConfirmCheck, ConfirmCount, ConfirmCompare, eventWakeUpDevice
  <2> QED
    BY <2>1, <2>2
<1>6. CASE StateMachineThread
  BY <1>6 DEF StateMachineThread, ResetCount, ResetDone, PrepareBegin, PrepareEnd,
     ConfigPrimary, QueueConfig, ConfigNormal, QueueFrame, configSecondary
<1>7. CASE PrimaryWorker \/ WatchdogWakes \/ Reader
  <2> DEFINE Kept == tryLock' = tryLock /\ queued' = queued /\ work' = work /\ failed' = failed
  <2>1. ASSUME PrimaryWorker PROVE Kept
    BY <2>1 DEF PrimaryWorker, StartPrimary, PrimaryDone, PrimaryFailed, PreambleCheck
  <2>2. ASSUME WatchdogWakes PROVE Kept
    BY <2>2 DEF WatchdogWakes
  <2>3. ASSUME ReadEnter \/ ReadWoken \/ ReadLowerFlag PROVE Kept
    BY <2>3 DEF ReadEnter, ReadWoken, ReadLowerFlag
  <2>4. ASSUME NEW part \in Parts, ReadCopy(part) \/ ReadZero(part) PROVE Kept
    BY <2>4 DEF ReadCopy, ReadZero
  <2>5. Kept
    BY <1>7, <2>1, <2>2, <2>3, <2>4 DEF Reader, Reading
  <2> QED
    BY <2>5
<1>8. CASE UNCHANGED vars
  BY <1>8 DEF vars
<1> QED
  BY <1>1, <1>2, <1>3, <1>4, <1>5, <1>6, <1>7, <1>8 DEF Next, Interrupt, Worker

\* The lock taken in the interrupt and given back by the work is a lock for
\* one transfer; only a failed transfer leaves it held.
THEOREM LockExcludes == Spec => []LockIsForOneTransfer
<1>1. Init => LockIsForOneTransfer
  BY DEF Init, LockIsForOneTransfer, Outstanding
<1> QED
  BY <1>1, TypeCorrect, NextLock, PTL DEF Spec

\* What one part of the buffer must satisfy.
Unread(part) ==
    txData[part] # 0 =>
        /\ txData[part] >= lastRead[part]
        /\ txData[part] > lastRead[part] \/ Returned(part)

LEMMA NextBuffer == TypeOK /\ BufferHoldsOnlyUnread /\ [Next]_vars => BufferHoldsOnlyUnread'
<1> SUFFICES ASSUME TypeOK, BufferHoldsOnlyUnread, [Next]_vars, NEW part \in Parts
             PROVE  Unread(part)'
  BY DEF BufferHoldsOnlyUnread, Unread
<1>0. /\ transfers \in Nat /\ txData[part] \in 0 .. transfers /\ lastRead[part] \in 0 .. transfers
      /\ DOMAIN txData = Parts /\ DOMAIN lastRead = Parts /\ Unread(part)
      /\ part \in {"head", "tail"}
  BY DEF TypeOK, BufferHoldsOnlyUnread, Unread, Parts
<1> USE DEF readVars
<1>1. ASSUME UNCHANGED <<txData, lastRead>>, Returned(part) => Returned(part)'
      PROVE  Unread(part)'
  BY <1>0, <1>1 DEF Unread
<1>2. ASSUME NEW kind \in {"reply", "sample"}, SpiISR(kind) PROVE Unread(part)'
  BY <1>1, <1>2 DEF SpiISR, Returned
<1>3. CASE TransferDone
  <2>1. CASE target = "commander"
    <3>1. txData' = [p \in Parts |-> transfers + 1] /\ lastRead' = lastRead
      BY <1>3, <2>1 DEF TransferDone
    <3>2. txData'[part] = transfers + 1 /\ lastRead'[part] = lastRead[part]
      BY <3>1
    <3> QED
      BY <1>0, <3>2 DEF Unread
  <2>2. CASE target # "commander"
    BY <1>1, <1>3, <2>2 DEF TransferDone, Returned
  <2> QED
    BY <2>1, <2>2
<1>4. CASE PrimaryDone
  <2>1. CASE primaryTarget = "commander" /\ part = "head"
    <3>1. txData' = [txData EXCEPT !["head"] = transfers + 1] /\ lastRead' = lastRead
      BY <1>4, <2>1 DEF PrimaryDone
    <3>2. txData'[part] = transfers + 1 /\ lastRead'[part] = lastRead[part]
      BY <1>0, <2>1, <3>1
    <3> QED
      BY <1>0, <3>2 DEF Unread
  <2>2. CASE ~(primaryTarget = "commander" /\ part = "head")
    <3>1. txData'[part] = txData[part] /\ lastRead' = lastRead /\ reader' = reader
      BY <1>0, <1>4, <2>2 DEF PrimaryDone
    <3> QED
      BY <1>0, <3>1 DEF Unread, Returned
  <2> QED
    BY <2>1, <2>2
<1>5. CASE StartWork \/ TransferFailed \/ clearIsrLock \/ ConfirmCheck \/ ConfirmCount
           \/ ConfirmCompare \/ eventWakeUpDevice
  BY <1>1, <1>5 DEF StartWork, TransferFailed, clearIsrLock, ConfirmCheck, ConfirmCount,
     ConfirmCompare, eventWakeUpDevice, Returned
<1>6. CASE StateMachineThread \/ WatchdogWakes
  BY <1>1, <1>6 DEF StateMachineThread, ResetCount, ResetDone, PrepareBegin, PrepareEnd,
     ConfigPrimary, QueueConfig, ConfigNormal, QueueFrame, configSecondary, WatchdogWakes, Returned
<1>7. CASE StartPrimary \/ PrimaryFailed \/ PreambleCheck
  BY <1>1, <1>7 DEF StartPrimary, PrimaryFailed, PreambleCheck, Returned
<1>8. CASE ReadEnter \/ ReadWoken \/ ReadLowerFlag
  <2>1. ~Returned(part)
    BY <1>8 DEF ReadEnter, ReadWoken, ReadLowerFlag, Returned
  <2>2. UNCHANGED <<txData, lastRead>>
    BY <1>8 DEF ReadEnter, ReadWoken, ReadLowerFlag
  <2> QED
    BY <1>1, <2>1, <2>2
<1>9. ASSUME NEW q \in Parts, ReadCopy(q) PROVE Unread(part)'
  <2>1. /\ reader = CopyStep(q) /\ txData' = txData
        /\ lastRead' = [lastRead EXCEPT ![q] = IF txData[q] = 0 THEN @ ELSE txData[q]]
        /\ reader' = IF q = "head" THEN CopyStep("tail") ELSE ZeroStep("head")
    BY <1>9 DEF ReadCopy
  <2>2. CASE part = q
    <3>1. lastRead'[part] = IF txData[part] = 0 THEN lastRead[part] ELSE txData[part]
      BY <1>0, <2>1, <2>2
    <3>2. Returned(part)'
      BY <1>0, <2>1, <2>2 DEF Returned, CopyStep, ZeroStep
    <3> QED
      BY <1>0, <2>1, <3>1, <3>2 DEF Unread
  <2>3. CASE part # q
    <3>1. lastRead'[part] = lastRead[part] /\ txData'[part] = txData[part]
      BY <1>0, <2>1, <2>3
    <3>2. Returned(part) => Returned(part)'
      BY <1>0, <2>1, <2>3 DEF Returned, CopyStep, ZeroStep, Parts
    <3> QED
      BY <1>0, <3>1, <3>2 DEF Unread
  <2> QED
    BY <2>2, <2>3
<1>10. ASSUME NEW q \in Parts, ReadZero(q) PROVE Unread(part)'
  <2>1. /\ reader = ZeroStep(q) /\ lastRead' = lastRead /\ txData' = [txData EXCEPT ![q] = 0]
        /\ reader' = IF q = "head" THEN ZeroStep("tail") ELSE "out"
    BY <1>10 DEF ReadZero
  <2>2. CASE part = q
    <3>1. txData'[part] = 0
      BY <1>0, <2>1, <2>2
    <3> QED
      BY <3>1 DEF Unread
  <2>3. CASE part # q
    <3>1. lastRead'[part] = lastRead[part] /\ txData'[part] = txData[part]
      BY <1>0, <2>1, <2>3
    <3>2. Returned(part) => Returned(part)'
      BY <1>0, <2>1, <2>3 DEF Returned, ZeroStep, Parts
    <3> QED
      BY <1>0, <3>1, <3>2 DEF Unread
  <2> QED
    BY <2>2, <2>3
<1>11. CASE UNCHANGED vars
  BY <1>1, <1>11 DEF vars, Returned
<1> QED
  BY <1>2, <1>3, <1>4, <1>5, <1>6, <1>7, <1>8, <1>9, <1>10, <1>11
     DEF Next, Interrupt, Worker, PrimaryWorker, Reader, Reading

\* Nothing is returned to the application twice, neither a sample nor what came
\* back with a frame, whatever transfer or wake up falls between the steps of
\* commanderRead.
THEOREM NothingReadTwice == Spec => []BufferHoldsOnlyUnread
<1>1. Init => BufferHoldsOnlyUnread
  BY DEF Init, BufferHoldsOnlyUnread
<1> QED
  BY <1>1, TypeCorrect, NextBuffer, PTL DEF Spec

LEMMA NextSignalled == TypeOK /\ SampleIsSignalled /\ [Next]_vars => SampleIsSignalled'
<1> SUFFICES ASSUME TypeOK, SampleIsSignalled, [Next]_vars PROVE SampleIsSignalled'
  OBVIOUS
<1> DEFINE Due == work \in {"unlock", "confirm", "count", "compare", "wake"}
           Busy == reader \notin {"out", "wait"}
<1>0. /\ wakeUpDevice \in BOOLEAN /\ DOMAIN txData = Parts /\ "tail" \in Parts /\ "head" \in Parts
      /\ "tail" # "head" /\ (txData["tail"] # 0 => wakeUpDevice \/ Due \/ Busy)
  BY DEF TypeOK, SampleIsSignalled, Parts
<1>1. ASSUME txData'["tail"] # 0 => txData["tail"] # 0,
             wakeUpDevice => wakeUpDevice' \/ Due' \/ Busy',
             Due => wakeUpDevice' \/ Due' \/ Busy',
             Busy => wakeUpDevice' \/ Due' \/ Busy'
      PROVE  SampleIsSignalled'
  BY <1>0, <1>1 DEF SampleIsSignalled
<1>2. ASSUME NEW kind \in {"reply", "sample"}, SpiISR(kind) PROVE SampleIsSignalled'
  BY <1>1, <1>2 DEF SpiISR, workVars, readVars
<1>3. CASE StartWork \/ TransferFailed
  BY <1>1, <1>3 DEF StartWork, TransferFailed, readVars
<1>4. CASE TransferDone
  BY <1>4 DEF TransferDone, SampleIsSignalled
<1>5. CASE clearIsrLock \/ ConfirmCheck \/ ConfirmCount \/ ConfirmCompare
  BY <1>1, <1>5 DEF clearIsrLock, ConfirmCheck, ConfirmCount, ConfirmCompare, readVars
<1>6. CASE eventWakeUpDevice \/ WatchdogWakes
  BY <1>6 DEF eventWakeUpDevice, WatchdogWakes, SampleIsSignalled
<1>7. CASE StateMachineThread
  BY <1>1, <1>7 DEF StateMachineThread, ResetCount, ResetDone, PrepareBegin, PrepareEnd,
     ConfigPrimary, QueueConfig, ConfigNormal, QueueFrame, configSecondary, workVars, readVars
<1>8. CASE PrimaryDone
  <2>1. txData'["tail"] = txData["tail"] /\ UNCHANGED <<work, reader, wakeUpDevice>>
    BY <1>0, <1>8 DEF PrimaryDone, workVars, readVars
  <2> QED
    BY <1>1, <2>1
<1>9. CASE StartPrimary \/ PrimaryFailed
  BY <1>1, <1>9 DEF StartPrimary, PrimaryFailed, workVars, readVars
<1>10. CASE PreambleCheck
  <2>1. wakeUpDevice => wakeUpDevice'
    BY <1>10 DEF PreambleCheck
  <2> QED
    BY <1>1, <1>10, <2>1 DEF PreambleCheck, workVars, readVars
<1>11. CASE ReadEnter \/ ReadWoken \/ ReadLowerFlag
  BY <1>1, <1>11 DEF ReadEnter, ReadWoken, ReadLowerFlag, CopyStep, workVars
<1>12. ASSUME NEW q \in Parts, ReadCopy(q) PROVE SampleIsSignalled'
  <2>1. Busy' /\ txData' = txData
    BY <1>12 DEF ReadCopy, CopyStep, ZeroStep
  <2> QED
    BY <2>1 DEF SampleIsSignalled
<1>13. ASSUME NEW q \in Parts, ReadZero(q) PROVE SampleIsSignalled'
  <2>1. CASE q = "head"
    <3>1. Busy'
      BY <1>13, <2>1 DEF ReadZero, ZeroStep
    <3> QED
      BY <3>1 DEF SampleIsSignalled
  <2>2. CASE q # "head"
    <3>1. q = "tail" /\ txData' = [txData EXCEPT ![q] = 0]
      BY <1>13, <2>2 DEF ReadZero, Parts
    <3>2. txData'["tail"] = 0
      BY <1>0, <3>1
    <3> QED
      BY <3>2 DEF SampleIsSignalled
  <2> QED
    BY <2>1, <2>2
<1>14. CASE UNCHANGED vars
  BY <1>1, <1>14 DEF vars, workVars, readVars
<1> QED
  BY <1>2, <1>3, <1>4, <1>5, <1>6, <1>7, <1>8, <1>9, <1>10, <1>11, <1>12, <1>13, <1>14
     DEF Next, Interrupt, Worker, PrimaryWorker, Reader, Reading

\* A wake up may be lost between the reader's wait and its lowering of the flag,
\* but then the read that follows returns what the transfer brought.
THEOREM NoSampleUnnoticed == Spec => []SampleIsSignalled
<1>1. Init => SampleIsSignalled
  BY DEF Init, SampleIsSignalled, Parts
<1> QED
  BY <1>1, TypeCorrect, NextSignalled, PTL DEF Spec

-----------------------------------------------------------------------------
(* The counters, on an orderly path.                                       *)

\* The parts of OrderlyInv that an action leaves alone follow from what it
\* does not change.
LEMMA CountersUntouched ==
    ASSUME OrderlyInv, Handing' = Handing,
           UNCHANGED <<isrVars, workVars, countVars, ramVars, threadVars, owed, answered, failed>>
    PROVE  Labelled' /\ ThreadOwnsCounters' /\ NothingOpen' /\ CountFollows'
<1> USE DEF isrVars, workVars, countVars, ramVars, threadVars
<1>1. Labelled' /\ ThreadOwnsCounters' /\ NothingOpen'
  BY DEF OrderlyInv, Labelled, ThreadOwnsCounters, NothingOpen
<1>2. InFlight' = InFlight /\ Uncounted' = Uncounted
  BY DEF InFlight, Uncounted
<1>3. CountFollows'
  BY <1>2 DEF OrderlyInv, CountFollows
<1> QED
  BY <1>1, <1>3

\* ... and so does where the configuration is, when no frame moves.
LEMMA FramesUntouched ==
    ASSUME OrderlyInv, UNCHANGED <<thread, primVars>>
    PROVE  Handing' = Handing /\ OneConfiguration'
  BY DEF OrderlyInv, OneConfiguration, Handing, ConfigOnItsWay, primVars

LEMMA InterruptOrderly ==
    ASSUME OrderlyInv, TypeOK', Orderly, NEW kind \in {"reply", "sample"}, SpiISR(kind)
    PROVE  ~failed' /\ Labelled' /\ OneConfiguration' /\ ThreadOwnsCounters' /\ NothingOpen'
           /\ CountFollows'
<1> USE DEF isrVars, workVars, countVars, ramVars, threadVars, fpgaVars, readVars
<1>1. tryLock = 0 /\ ~queued /\ work \notin {"xfer", "unlock"} /\ ~failed
  BY DEF SpiISR, Orderly, OrderlyInv, LockIsForOneTransfer, Outstanding
<1>2. /\ queued' /\ carries' = kind
      /\ UNCHANGED <<workVars, countVars, ramVars, threadVars, answered, failed, primVars>>
  BY <1>1 DEF SpiISR
<1>3. thread = "idle" /\ ~Handing /\ Handing' = Handing /\ OneConfiguration'
  <2>1. ~Handing
    BY DEF SpiISR, Announces, Orderly, OrderlyInv, ThreadOwnsCounters, TypeOK, Handing
  <2>2. UNCHANGED <<thread, primVars>>
    BY DEF SpiISR
  <2> QED
    BY <2>1, <2>2, FramesUntouched DEF Handing
<1>4. Labelled' /\ ThreadOwnsCounters'
  BY <1>2, <1>3 DEF OrderlyInv, Labelled, ThreadOwnsCounters
<1>5. owed \in Nat /\ owed' \in Nat /\ answered \in Nat /\ Replies \in Nat
  BY <1>2, FeedbackAssumption DEF OrderlyInv, TypeOK
<1>6. CASE kind = "reply"
  <2>1. owed > 0 /\ owed' = owed - 1
    BY <1>6 DEF SpiISR, Announces
  <2>2. payloadReady
    BY <1>3, <1>5, <2>1 DEF OrderlyInv, NothingOpen
  <2>3. InFlight = 0 /\ InFlight' = 1 /\ Uncounted' = Uncounted
    BY <1>1, <1>2, <1>6 DEF InFlight, Uncounted
  <2>4. CountFollows'
    BY <1>2, <1>3, <1>5, <1>6, <2>1, <2>2, <2>3 DEF OrderlyInv, CountFollows
  <2> QED
    BY <1>1, <1>2, <1>3, <1>4, <2>2, <2>4 DEF NothingOpen
<1>7. CASE kind = "sample"
  <2>1. owed = 0 /\ owed' = owed
    BY <1>7 DEF SpiISR, Announces, Orderly
  <2>2. InFlight = 0 /\ InFlight' = 0 /\ Uncounted' = Uncounted
    BY <1>1, <1>2, <1>7 DEF InFlight, Uncounted
  <2>3. CountFollows'
    BY <1>2, <1>3, <1>5, <1>7, <2>1, <2>2 DEF OrderlyInv, CountFollows
  <2>4. NothingOpen'
    BY <1>2, <1>3, <1>7, <2>1 DEF OrderlyInv, NothingOpen
  <2> QED
    BY <1>1, <1>2, <1>3, <1>4, <2>3, <2>4
<1> QED
  BY <1>6, <1>7

LEMMA WorkerOrderly ==
    ASSUME OrderlyInv, TypeOK', Orderly, Worker
    PROVE  ~failed' /\ Labelled' /\ OneConfiguration' /\ ThreadOwnsCounters' /\ NothingOpen'
           /\ CountFollows'
<1> USE DEF isrVars, workVars, countVars, ramVars, threadVars, fpgaVars, readVars
<1>0. /\ thread = "idle" /\ ~failed /\ ~Handing /\ ~Handing' /\ OneConfiguration'
      /\ answered \in Nat /\ owed \in Nat /\ Replies \in Nat /\ 2 * Replies <= 255 /\ Replies > 0
      /\ configCount \in Nat /\ payloadReady \in BOOLEAN
  <2>1. work # "idle" \/ queued
    BY DEF Worker, StartWork, TransferDone, TransferFailed, clearIsrLock, ConfirmCheck,
       ConfirmCount, ConfirmCompare, eventWakeUpDevice
  <2>2. UNCHANGED <<thread, primVars>>
    BY DEF Worker, StartWork, TransferDone, TransferFailed, clearIsrLock, ConfirmCheck,
       ConfirmCount, ConfirmCompare, eventWakeUpDevice
  <2>3. ~Handing
    BY <2>1 DEF OrderlyInv, ThreadOwnsCounters
  <2>4. answered \in Nat /\ owed \in Nat /\ configCount \in Nat /\ payloadReady \in BOOLEAN
    BY DEF OrderlyInv, TypeOK, Bytes
  <2>5. Replies \in Nat /\ 2 * Replies <= 255 /\ Replies > 0
    BY FeedbackAssumption DEF Bytes
  <2>6. thread = "idle" /\ ~failed
    BY <2>3 DEF OrderlyInv, Handing
  <2> QED
    BY <2>2, <2>3, <2>4, <2>5, <2>6, FramesUntouched
<1>1. CASE StartWork
  <2>1. /\ work = "idle" /\ queued /\ ~queued' /\ work' = "xfer" /\ serving' = carries
        /\ UNCHANGED <<countVars, ramVars, threadVars, owed, answered, failed, primVars>>
    BY <1>1 DEF StartWork
  <2>2. InFlight' = InFlight /\ Uncounted' = 0 /\ Uncounted = 0
    BY <2>1 DEF InFlight, Uncounted
  <2>3. Labelled' /\ ThreadOwnsCounters' /\ NothingOpen'
    BY <1>0, <2>1 DEF OrderlyInv, Labelled, ThreadOwnsCounters, NothingOpen
  <2>4. CountFollows'
    BY <1>0, <2>1, <2>2 DEF OrderlyInv, CountFollows
  <2> QED
    BY <1>0, <2>1, <2>3, <2>4
<1>2. CASE TransferDone
  <2>1. /\ work = "xfer" /\ work' = "unlock" /\ ~queued
        /\ UNCHANGED <<isrVars, serving, countVars, ramVars, threadVars, owed, failed, primVars>>
    BY <1>2 DEF TransferDone, OrderlyInv, LockIsForOneTransfer
  <2>2. Labelled' /\ ThreadOwnsCounters' /\ NothingOpen'
    BY <1>0, <2>1 DEF OrderlyInv, Labelled, ThreadOwnsCounters, NothingOpen
  <2>3. CASE serving = "reply"
    <3>1. answered' = answered + 1
      BY <1>2, <2>3 DEF TransferDone
    <3>2. InFlight = 1 /\ InFlight' = 0 /\ Uncounted = 0 /\ Uncounted' = 1
      BY <2>1, <2>3 DEF InFlight, Uncounted
    <3>3. payloadReady /\ ~configDone
      BY <1>0, <2>1, <2>3, <3>2 DEF OrderlyInv, NothingOpen, CountFollows
    <3>4. CountFollows'
      BY <1>0, <2>1, <2>3, <3>1, <3>2, <3>3 DEF OrderlyInv, CountFollows
    <3> QED
      BY <1>0, <2>1, <2>2, <3>4
  <2>4. CASE serving # "reply"
    <3>1. answered' = answered
      BY <1>2, <2>4 DEF TransferDone
    <3>2. InFlight = 0 /\ InFlight' = 0 /\ Uncounted = 0 /\ Uncounted' = 0
      BY <2>1, <2>4 DEF InFlight, Uncounted
    <3>3. CountFollows'
      BY <1>0, <2>1, <2>4, <3>1, <3>2 DEF OrderlyInv, CountFollows
    <3> QED
      BY <1>0, <2>1, <2>2, <3>3
  <2> QED
    BY <2>3, <2>4
<1>3. CASE TransferFailed
  BY <1>3 DEF TransferFailed, Orderly
<1>4. CASE clearIsrLock
  <2>1. /\ work = "unlock" /\ work' = "confirm" /\ ~queued
        /\ UNCHANGED <<queued, carries, serving, countVars, ramVars, threadVars, owed, answered, failed, primVars>>
    BY <1>4 DEF clearIsrLock, OrderlyInv, LockIsForOneTransfer
  <2>2. InFlight' = InFlight /\ Uncounted' = Uncounted
    BY <2>1 DEF InFlight, Uncounted
  <2>3. Labelled' /\ ThreadOwnsCounters' /\ NothingOpen'
    BY <1>0, <2>1 DEF OrderlyInv, Labelled, ThreadOwnsCounters, NothingOpen
  <2>4. CountFollows'
    BY <1>0, <2>1, <2>2 DEF OrderlyInv, CountFollows
  <2> QED
    BY <1>0, <2>1, <2>3, <2>4
<1>5. CASE ConfirmCheck
  <2>1. /\ work = "confirm"
        /\ UNCHANGED <<isrVars, serving, configCount, configDone, ramVars, threadVars, owed, answered, failed, primVars>>
    BY <1>5 DEF ConfirmCheck
  <2>2. CASE ~configDone /\ payloadReady
    <3>1. work' = "count" /\ loaded' = configCount
      BY <1>5, <2>2 DEF ConfirmCheck
    <3>2. serving = "reply"
      BY <1>0, <2>1, <2>2 DEF OrderlyInv, Labelled, CountFollows, TypeOK
    <3>3. InFlight' = InFlight /\ Uncounted' = Uncounted
      BY <2>1, <3>1 DEF InFlight, Uncounted
    <3>4. Labelled' /\ ThreadOwnsCounters' /\ NothingOpen'
      BY <1>0, <2>1, <2>2, <3>1 DEF OrderlyInv, Labelled, ThreadOwnsCounters, NothingOpen
    <3>5. CountFollows'
      BY <1>0, <2>1, <2>2, <3>1, <3>2, <3>3 DEF OrderlyInv, CountFollows
    <3> QED
      BY <1>0, <2>1, <3>4, <3>5
  <2>3. CASE configDone \/ ~payloadReady
    <3>1. work' = "wake"
      BY <1>5, <2>3 DEF ConfirmCheck
    <3>2. InFlight' = InFlight /\ Uncounted' = 0
      BY <2>1, <3>1 DEF InFlight, Uncounted
    <3>3. Labelled' /\ ThreadOwnsCounters' /\ NothingOpen'
      BY <1>0, <2>1, <3>1 DEF OrderlyInv, Labelled, ThreadOwnsCounters, NothingOpen
    <3>4. CountFollows'
      BY <1>0, <2>1, <2>3, <3>1, <3>2 DEF OrderlyInv, CountFollows
    <3> QED
      BY <1>0, <2>1, <3>3, <3>4
  <2> QED
    BY <2>2, <2>3
<1>6. CASE ConfirmCount
  <2>1. /\ work = "count" /\ work' = "compare" /\ configCount' = (loaded + 2) % 256
        /\ UNCHANGED <<isrVars, serving, configDone, loaded, ramVars, threadVars, owed, answered, failed, primVars>>
    BY <1>6 DEF ConfirmCount
  <2>2. payloadReady /\ ~configDone /\ serving = "reply" /\ loaded = configCount
    BY <1>0, <2>1 DEF OrderlyInv, NothingOpen, CountFollows
  <2>3. Uncounted = 1 /\ Uncounted' = 0 /\ InFlight' = InFlight /\ InFlight \in {0, 1}
    BY <2>1, <2>2 DEF Uncounted, InFlight
  <2>4. answered <= Replies /\ answered >= 1 /\ configCount = 2 * (answered - 1)
    BY <1>0, <2>2, <2>3 DEF OrderlyInv, CountFollows
  <2>5. configCount' = configCount + 2
    BY <1>0, <2>1, <2>2, <2>4
  <2>6. Labelled' /\ ThreadOwnsCounters' /\ NothingOpen'
    BY <1>0, <2>1, <2>2 DEF OrderlyInv, Labelled, ThreadOwnsCounters, NothingOpen
  <2>7. CountFollows'
    BY <1>0, <2>1, <2>2, <2>3, <2>4, <2>5 DEF OrderlyInv, CountFollows
  <2> QED
    BY <1>0, <2>1, <2>6, <2>7
<1>7. CASE ConfirmCompare
  <2>1. /\ work = "compare" /\ work' = "wake"
        /\ UNCHANGED <<isrVars, serving, configCount, loaded, ramVars, threadVars, owed, answered, failed, primVars>>
    BY <1>7 DEF ConfirmCompare
  <2>2. /\ payloadReady /\ ~configDone /\ loaded + 2 = configCount /\ payloadBytes = 2 * Replies
    BY <1>0, <2>1 DEF OrderlyInv, NothingOpen, CountFollows
  <2>3. Uncounted = 0 /\ Uncounted' = 0 /\ InFlight' = InFlight
    BY <2>1 DEF Uncounted, InFlight
  <2>4. configCount = 2 * answered /\ configCount \in 0 .. 255
    BY <1>0, <2>2, <2>3 DEF OrderlyInv, CountFollows, TypeOK, Bytes
  <2>5. PICK c \in {(loaded + 2) % 256, configCount} :
           configDone' = IF c = payloadBytes THEN TRUE ELSE configDone
    BY <1>7 DEF ConfirmCompare
  <2>6. c = configCount
    BY <2>2, <2>4, <2>5
  <2>7. configDone' <=> answered = Replies
    BY <1>0, <2>2, <2>4, <2>5, <2>6
  <2>8. Labelled' /\ ThreadOwnsCounters' /\ NothingOpen'
    BY <1>0, <2>1, <2>2 DEF OrderlyInv, Labelled, ThreadOwnsCounters, NothingOpen
  <2>9. CountFollows'
    BY <1>0, <2>1, <2>2, <2>3, <2>4, <2>7 DEF OrderlyInv, CountFollows
  <2> QED
    BY <1>0, <2>1, <2>8, <2>9
<1>8. CASE eventWakeUpDevice
  <2>1. /\ work = "wake" /\ work' = "idle"
        /\ UNCHANGED <<isrVars, serving, countVars, ramVars, threadVars, owed, answered, failed, primVars>>
    BY <1>8 DEF eventWakeUpDevice
  <2>2. InFlight' = InFlight /\ Uncounted' = Uncounted
    BY <2>1 DEF InFlight, Uncounted
  <2>3. Labelled' /\ ThreadOwnsCounters' /\ NothingOpen'
    BY <1>0, <2>1 DEF OrderlyInv, Labelled, ThreadOwnsCounters, NothingOpen
  <2>4. CountFollows'
    BY <1>0, <2>1, <2>2 DEF OrderlyInv, CountFollows
  <2> QED
    BY <1>0, <2>1, <2>3, <2>4
<1> QED
  BY <1>1, <1>2, <1>3, <1>4, <1>5, <1>6, <1>7, <1>8 DEF Worker

LEMMA ThreadOrderly ==
    ASSUME OrderlyInv, TypeOK', Orderly, StateMachineThread
    PROVE  ~failed' /\ Labelled' /\ OneConfiguration' /\ ThreadOwnsCounters' /\ NothingOpen'
           /\ CountFollows'
<1> USE DEF isrVars, workVars, countVars, ramVars, threadVars, fpgaVars, readVars
<1>0. /\ ~failed /\ Replies \in Nat /\ Replies > 0
      /\ payloadReady \in BOOLEAN /\ configDone \in BOOLEAN
  BY FeedbackAssumption DEF OrderlyInv, TypeOK
<1>1. CASE ResetCount
  <2>1. tryLock = 0 /\ work = "idle" /\ owed = 0 /\ ~primaryQueued /\ primary = "idle"
    BY <1>1 DEF ResetCount, Orderly, Quiet
  <2>2. ~queued
    BY <2>1 DEF OrderlyInv, LockIsForOneTransfer, Outstanding
  <2>3. /\ configCount' = 0 /\ thread' = "reset"
        /\ UNCHANGED <<isrVars, workVars, owed, failed, primVars>>
    BY <1>1 DEF ResetCount
  <2>4. OneConfiguration' /\ Handing'
    BY <2>1, <2>3 DEF OneConfiguration, Handing, primVars
  <2> QED
    BY <1>0, <2>1, <2>2, <2>3, <2>4 DEF Labelled, ThreadOwnsCounters, NothingOpen, CountFollows
<1>2. CASE ResetDone
  <2>1. /\ thread = "reset" /\ thread' = "cleared" /\ ~configDone'
        /\ UNCHANGED <<isrVars, workVars, configCount, owed, failed, primVars>>
    BY <1>2 DEF ResetDone
  <2>2. Handing /\ Handing' /\ OneConfiguration'
    BY <2>1 DEF OrderlyInv, OneConfiguration, Handing, primVars
  <2> QED
    BY <1>0, <2>1, <2>2 DEF OrderlyInv, Labelled, ThreadOwnsCounters, NothingOpen, CountFollows
<1>3. CASE PrepareBegin
  <2>1. /\ thread = "cleared" /\ thread' = "begun" /\ ~payloadReady' /\ answered' = 0
        /\ UNCHANGED <<isrVars, workVars, countVars, owed, failed, primVars>>
    BY <1>3 DEF PrepareBegin
  <2>2. Handing /\ Handing' /\ OneConfiguration'
    BY <2>1 DEF OrderlyInv, OneConfiguration, Handing, primVars
  <2> QED
    BY <1>0, <2>1, <2>2 DEF OrderlyInv, Labelled, ThreadOwnsCounters, NothingOpen, CountFollows
<1>4. CASE PrepareEnd
  <2>1. /\ thread = "begun" /\ thread' = "prepared" /\ payloadReady' /\ payloadBytes' = 2 * Replies
        /\ UNCHANGED <<isrVars, workVars, countVars, owed, answered, failed, primVars>>
    BY <1>4 DEF PrepareEnd
  <2>2. Handing /\ Handing' /\ OneConfiguration'
    BY <2>1 DEF OrderlyInv, OneConfiguration, Handing, primVars
  <2> QED
    BY <1>0, <2>1, <2>2 DEF OrderlyInv, Labelled, ThreadOwnsCounters, NothingOpen, CountFollows
<1>5. CASE ConfigPrimary
  <2>1. /\ thread = "prepared" /\ thread' = "mapped" /\ primaryMode' = "ramdisk"
        /\ UNCHANGED <<isrVars, workVars, countVars, ramVars, owed, answered, failed,
                       primaryQueued, primary, primaryTarget>>
    BY <1>5 DEF ConfigPrimary
  <2>2. Handing /\ Handing' /\ OneConfiguration'
    BY <2>1 DEF OrderlyInv, OneConfiguration, Handing
  <2> QED
    BY <1>0, <2>1, <2>2 DEF OrderlyInv, Labelled, ThreadOwnsCounters, NothingOpen, CountFollows
<1>6. CASE QueueConfig
  <2>1. /\ thread = "mapped" /\ thread' = "idle" /\ primaryQueued'
        /\ UNCHANGED <<isrVars, workVars, countVars, ramVars, owed, answered, failed,
                       primaryMode, primary, primaryTarget>>
    BY <1>6 DEF QueueConfig
  <2>2. Handing /\ Handing' /\ OneConfiguration'
    BY <2>1 DEF OrderlyInv, OneConfiguration, Handing, ConfigOnItsWay
  <2> QED
    BY <1>0, <2>1, <2>2 DEF OrderlyInv, Labelled, ThreadOwnsCounters, NothingOpen, CountFollows
<1>7. CASE ConfigNormal \/ QueueFrame
  <2>1. UNCHANGED <<isrVars, workVars, countVars, ramVars, threadVars, owed, answered, failed,
                    primary, primaryTarget>>
    BY <1>7 DEF ConfigNormal, QueueFrame
  <2>2. Handing' = Handing /\ OneConfiguration'
    <3>1. CASE ConfigNormal
      <4>1. thread = "idle" /\ ~ConfigOnItsWay /\ primaryMode' = "commander"
            /\ primaryQueued' = primaryQueued
        BY <1>7, <3>1 DEF ConfigNormal, Orderly
      <4> QED
        BY <2>1, <4>1 DEF OrderlyInv, OneConfiguration, Handing, ConfigOnItsWay
    <3>2. CASE QueueFrame
      <4>1. thread = "idle" /\ primaryMode = "commander" /\ primaryMode' = "commander"
        BY <3>2 DEF QueueFrame
      <4> QED
        BY <2>1, <4>1 DEF OrderlyInv, OneConfiguration, Handing, ConfigOnItsWay
    <3> QED
      BY <1>7, <3>1, <3>2
  <2> QED
    BY <1>0, <2>1, <2>2, CountersUntouched
<1>8. ASSUME NEW buffer \in {"commander", "ramdisk"}, configSecondary(buffer)
      PROVE  ~failed' /\ Labelled' /\ OneConfiguration' /\ ThreadOwnsCounters' /\ NothingOpen'
             /\ CountFollows'
  <2>1. /\ UNCHANGED <<isrVars, workVars, countVars, ramVars, thread, owed, answered, failed>>
        /\ UNCHANGED <<thread, primVars>>
    BY <1>8 DEF configSecondary
  <2>2. Handing' = Handing /\ OneConfiguration'
    BY <2>1, FramesUntouched
  <2>3. InFlight' = InFlight /\ Uncounted' = Uncounted
    BY <2>1 DEF InFlight, Uncounted
  <2>4. CountFollows'
    BY <2>1, <2>2, <2>3 DEF OrderlyInv, CountFollows
  <2> QED
    BY <1>0, <2>1, <2>2, <2>4 DEF OrderlyInv, Labelled, ThreadOwnsCounters, NothingOpen
<1> QED
  BY <1>1, <1>2, <1>3, <1>4, <1>5, <1>6, <1>7, <1>8 DEF StateMachineThread

LEMMA PrimaryOrderly ==
    ASSUME OrderlyInv, TypeOK', Orderly, PrimaryWorker
    PROVE  ~failed' /\ Labelled' /\ OneConfiguration' /\ ThreadOwnsCounters' /\ NothingOpen'
           /\ CountFollows'
<1> USE DEF isrVars, workVars, countVars, ramVars, threadVars, fpgaVars, readVars
<1>0. ~failed
  BY DEF OrderlyInv
<1>1. CASE StartPrimary \/ PreambleCheck
  <2>1. UNCHANGED <<isrVars, workVars, countVars, ramVars, threadVars, owed, answered, failed>>
    BY <1>1 DEF StartPrimary, PreambleCheck
  <2>2. Handing' = Handing /\ OneConfiguration'
    <3>1. CASE StartPrimary
      <4>1. /\ primary = "idle" /\ primaryQueued /\ ~primaryQueued' /\ primary' = "xfer"
            /\ primaryTarget' = primaryMode /\ primaryMode' = primaryMode
        BY <3>1 DEF StartPrimary
      <4> QED
        BY <2>1, <4>1 DEF OrderlyInv, OneConfiguration, Handing, ConfigOnItsWay
    <3>2. CASE PreambleCheck
      <4>1. /\ primary = "check" /\ primary' = "idle" /\ primaryQueued' = primaryQueued
            /\ primaryMode' = primaryMode
        BY <3>2 DEF PreambleCheck
      <4> QED
        BY <2>1, <4>1 DEF OrderlyInv, OneConfiguration, Handing, ConfigOnItsWay
    <3> QED
      BY <1>1, <3>1, <3>2
  <2> QED
    BY <1>0, <2>1, <2>2, CountersUntouched
<1>2. CASE PrimaryDone
  <2>1. /\ primary = "xfer" /\ primary' = "check"
        /\ UNCHANGED <<isrVars, workVars, countVars, ramVars, threadVars, answered, failed,
                       primaryMode, primaryQueued, primaryTarget>>
    BY <1>2 DEF PrimaryDone
  <2>2. thread = "idle" /\ OneConfiguration'
    BY <2>1 DEF OrderlyInv, OneConfiguration
  <2>3. CASE primaryTarget = "commander"
    <3>1. owed' = owed
      BY <1>2, <2>3 DEF PrimaryDone
    <3>2. Handing' = Handing
      BY <2>1, <2>3 DEF Handing, ConfigOnItsWay
    <3> QED
      BY <1>0, <2>1, <2>2, <3>1, <3>2, CountersUntouched
  <2>4. CASE primaryTarget # "commander"
    <3>1. owed' = Replies /\ primaryTarget = "ramdisk"
      BY <1>2, <2>4 DEF PrimaryDone, OrderlyInv, TypeOK
    <3>2. Handing /\ ~primaryQueued
      BY <2>1, <3>1 DEF Handing, ConfigOnItsWay, OrderlyInv, OneConfiguration
    <3>3. ~Handing'
      BY <2>1, <2>2, <3>2 DEF Handing, ConfigOnItsWay
    <3>4. /\ ~queued /\ work = "idle" /\ configCount = 0 /\ ~configDone /\ answered = 0
          /\ payloadReady /\ payloadBytes = 2 * Replies
      BY <2>2, <3>2 DEF OrderlyInv, ThreadOwnsCounters
    <3>5. InFlight' = 0 /\ Uncounted' = 0
      BY <2>1, <3>4 DEF InFlight, Uncounted
    <3>6. Replies \in Nat /\ Replies > 0
      BY FeedbackAssumption
    <3>7. CountFollows'
      BY <2>1, <3>1, <3>4, <3>5, <3>6 DEF CountFollows
    <3> QED
      BY <1>0, <2>1, <2>2, <3>3, <3>4, <3>7 DEF Labelled, ThreadOwnsCounters, NothingOpen
  <2> QED
    BY <2>3, <2>4
<1>3. CASE PrimaryFailed
  BY <1>3 DEF PrimaryFailed, Orderly
<1> QED
  BY <1>1, <1>2, <1>3 DEF PrimaryWorker

LEMMA NextOrderly == Orderly /\ OrderlyInv /\ [Next]_vars => OrderlyInv'
<1> SUFFICES ASSUME Orderly, OrderlyInv, [Next]_vars PROVE OrderlyInv'
  OBVIOUS
<1>0. TypeOK' /\ LockIsForOneTransfer'
  BY NextTypeOK, NextLock DEF OrderlyInv
<1>1. ASSUME NEW kind \in {"reply", "sample"}, SpiISR(kind) PROVE OrderlyInv'
  BY <1>0, <1>1, InterruptOrderly DEF OrderlyInv
<1>2. CASE Worker
  BY <1>0, <1>2, WorkerOrderly DEF OrderlyInv
<1>3. CASE StateMachineThread
  BY <1>0, <1>3, ThreadOrderly DEF OrderlyInv
<1>4. CASE PrimaryWorker
  BY <1>0, <1>4, PrimaryOrderly DEF OrderlyInv
<1>5. CASE WatchdogWakes \/ Reader \/ UNCHANGED vars
  <2>1. /\ UNCHANGED <<isrVars, workVars, countVars, ramVars, threadVars, owed, answered, failed>>
        /\ UNCHANGED <<thread, primVars>>
    BY <1>5 DEF WatchdogWakes, Reader, Reading, ReadEnter, ReadWoken, ReadLowerFlag, ReadCopy,
       ReadZero, vars, fpgaVars, threadVars
  <2>2. Handing' = Handing /\ OneConfiguration'
    BY <2>1, FramesUntouched
  <2>3. Labelled' /\ ThreadOwnsCounters' /\ NothingOpen' /\ CountFollows'
    BY <2>1, <2>2, CountersUntouched
  <2> QED
    BY <1>0, <2>1, <2>2, <2>3 DEF OrderlyInv
<1> QED
  BY <1>1, <1>2, <1>3, <1>4, <1>5 DEF Next, Interrupt

LEMMA OrderlyInvariance == ASSUME Orderly PROVE Spec => []OrderlyInv
<1>1. Init => OrderlyInv
  <2> SUFFICES ASSUME Init PROVE OrderlyInv
    OBVIOUS
  <2>1. TypeOK
    BY InitTypeOK
  <2>2. /\ tryLock = 0 /\ ~queued /\ work = "idle" /\ owed = 0 /\ configCount = 0
        /\ ~configDone /\ ~payloadReady /\ thread = "idle" /\ ~failed
        /\ ~primaryQueued /\ primary = "idle"
    BY DEF Init
  <2> QED
    BY <2>1, <2>2 DEF OrderlyInv, LockIsForOneTransfer, Outstanding, Labelled, OneConfiguration,
       ThreadOwnsCounters, NothingOpen, CountFollows, Handing, ConfigOnItsWay
<1>2. OrderlyInv /\ [Next]_vars => OrderlyInv'
  BY NextOrderly
<1> QED
  BY <1>1, <1>2, PTL DEF Spec

\* On an orderly path isConfDone tells the truth: configDone stands only when
\* every register of the configuration was answered.
THEOREM DoneIsTrue == ASSUME Orderly PROVE Spec => []ConfigDoneMeansAnswered
<1>1. OrderlyInv => ConfigDoneMeansAnswered
  <2> SUFFICES ASSUME OrderlyInv, configDone, thread = "idle" PROVE answered >= Replies
    BY DEF ConfigDoneMeansAnswered
  <2>1. ~Handing
    BY DEF OrderlyInv, ThreadOwnsCounters
  <2>2. payloadReady
    BY <2>1 DEF OrderlyInv, NothingOpen
  <2> QED
    BY <2>1, <2>2, FeedbackAssumption DEF OrderlyInv, CountFollows
<1> QED
  BY <1>1, OrderlyInvariance, PTL

\* ... and the whole truth: no answer that was transferred is left uncounted,
\* although the counter is updated without a lock.
THEOREM DoneIsReported == ASSUME Orderly PROVE Spec => []AnsweredMeansConfigDone
<1>1. OrderlyInv => AnsweredMeansConfigDone
  <2> SUFFICES ASSUME OrderlyInv, Quiet, thread = "idle", payloadReady, answered = Replies,
                      ~configDone
               PROVE  FALSE
    BY DEF AnsweredMeansConfigDone
  <2>1. work = "idle" /\ Uncounted = 0 /\ ~Handing
    BY DEF Quiet, Uncounted, Handing, ConfigOnItsWay
  <2> QED
    BY <2>1, FeedbackAssumption DEF OrderlyInv, CountFollows
<1> QED
  BY <1>1, OrderlyInvariance, PTL
=============================================================================
