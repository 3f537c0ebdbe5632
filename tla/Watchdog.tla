------------------------------ MODULE Watchdog ------------------------------
(***************************************************************************)
(* The watchdog: the FPGA's tick interrupt (irqCtrl.c:104-120), the kernel *)
(* thread that compares the tick counter once per second (watchdog.c), the *)
(* device /dev/KernelWatchdog and the application's thread that reads it   *)
(* (CharDevice/Watchdog.cpp).                                              *)
(*                                                                         *)
(* The interrupt and the kernel thread share watchdogSpinlock; watchdog-   *)
(* Read copies the two bytes without it.                                   *)
(***************************************************************************)
EXTENDS Integers

CONSTANTS
    MaxTicks    \* bound: ticks of the FPGA between two rounds of the thread

ASSUME WatchdogAssumption == MaxTicks \in 0 .. 200

VARIABLES
    indicatorCurrent, indicatorPrevious,    \* two chars, unsigned on ARM
    indicatorFPGA,      \* the kernel believes that the FPGA ticks
    round,              \* where the kernel thread is; it holds the lock but in "sleep"
    txData,             \* the two bytes of DEVICE_WATCHDOG
    wakeUpDevice,
    commanderWoken,     \* the thread found the FPGA dead and woke the reader of
                        \* /dev/KernelCommander (FeedbackPath's WakeWithoutData)
    reader,             \* where the application's thread is in watchdogRead
    sameBytes,          \* the two bytes of m_Rx_Watchdog are equal
    m_watchdogDead, m_fpgaConfigReady, m_threadKill,
    ticks,              \* history: ticks since the last round
    torn                \* history: a copy fell between the stores of the two bytes

kernelVars == <<indicatorCurrent, indicatorPrevious, indicatorFPGA, round, txData, commanderWoken>>
appVars    == <<reader, sameBytes, m_watchdogDead, m_fpgaConfigReady, m_threadKill>>
histVars   == <<ticks, torn>>
watchdogVars == <<kernelVars, wakeUpDevice, appVars, histVars>>

Char == 0 .. 255

\* m_fpgaConfigReady is left uninitialised by its class; module DroneControl
\* is about that.  Here it starts down.
WatchdogInit ==
    /\ indicatorCurrent = 0 /\ indicatorPrevious = 0 /\ indicatorFPGA = FALSE
    /\ round = "sleep" /\ txData = <<0, 0>> /\ wakeUpDevice = FALSE /\ commanderWoken = FALSE
    /\ reader = "closed" /\ sameBytes = FALSE
    /\ m_watchdogDead = FALSE /\ m_fpgaConfigReady = FALSE /\ m_threadKill = FALSE
    /\ ticks = 0 /\ torn = FALSE

-----------------------------------------------------------------------------
(* The kernel.                                                             *)

\* InterruptFromFPGA_WatchdogISR counts from 0 to 0xFA.
WatchdogISR ==
    /\ round = "sleep"
    /\ ticks < MaxTicks
    /\ indicatorCurrent' = IF indicatorCurrent = 250 THEN 0
                           ELSE (indicatorCurrent + 1) % 256
    /\ ticks' = ticks + 1
    /\ UNCHANGED <<commanderWoken, indicatorPrevious, indicatorFPGA, round, txData,
                   wakeUpDevice, appVars, torn>>

\* Mutant: without the "Hack :: If Fpga is not flashed".
RoundWithoutHack ==
    /\ round = "sleep"
    /\ txData' = [txData EXCEPT ![1] = indicatorPrevious]
    /\ round' = "second"
    /\ UNCHANGED <<commanderWoken, indicatorCurrent, indicatorPrevious, indicatorFPGA, wakeUpDevice,
                   appVars, histVars>>

\* A round begins: lock, count once ("Hack :: If Fpga is not flashed"),
\* store the first byte.
RoundBegins ==
    /\ round = "sleep"
    /\ indicatorCurrent' = (indicatorCurrent + 1) % 256
    /\ txData' = [txData EXCEPT ![1] = indicatorPrevious]
    /\ round' = "second"
    /\ UNCHANGED <<commanderWoken, indicatorPrevious, indicatorFPGA, wakeUpDevice, appVars,
                   histVars>>

SecondByte ==
    /\ round = "second"
    /\ txData' = [txData EXCEPT ![2] = indicatorCurrent]
    /\ round' = "wake"
    /\ UNCHANGED <<commanderWoken, indicatorCurrent, indicatorPrevious, indicatorFPGA, wakeUpDevice,
                   appVars, histVars>>

\* Mutant: a tick is noticed at a distance of one.
IndicatorOffByOne ==
    IF indicatorPrevious # indicatorCurrent
    THEN indicatorFPGA \/ indicatorCurrent - indicatorPrevious > 2
    ELSE FALSE

\* The comparison of a round; its difference is one of ints.
Indicator ==
    IF indicatorPrevious # indicatorCurrent
    THEN indicatorFPGA \/ indicatorCurrent - indicatorPrevious # 1
    ELSE FALSE

\* Mutant: the reader is not woken.
RoundEndsSilently ==
    /\ round = "wake"
    /\ indicatorFPGA' = Indicator
    /\ commanderWoken' = (commanderWoken \/ indicatorPrevious = indicatorCurrent)
    /\ indicatorPrevious' = indicatorCurrent
    /\ ticks' = 0
    /\ round' = "sleep"
    /\ UNCHANGED <<indicatorCurrent, txData, wakeUpDevice, appVars, torn>>

\* eventWakeUpDevice, the comparison and the unlock.
RoundEnds ==
    /\ round = "wake"
    /\ wakeUpDevice' = TRUE
    /\ indicatorFPGA' = Indicator
    /\ commanderWoken' = (commanderWoken \/ indicatorPrevious = indicatorCurrent)
    /\ indicatorPrevious' = indicatorCurrent
    /\ ticks' = 0
    /\ round' = "sleep"
    /\ UNCHANGED <<indicatorCurrent, txData, appVars, torn>>

watchdogThread == RoundBegins \/ SecondByte \/ RoundEnds

-----------------------------------------------------------------------------
(* The application.                                                        *)

\* openDEV and initThread, at any time after the driver was loaded.
Open ==
    /\ reader = "closed"
    /\ ~m_threadKill
    /\ reader' = "check"
    /\ UNCHANGED <<kernelVars, wakeUpDevice, sameBytes, m_watchdogDead, m_fpgaConfigReady,
                   m_threadKill, histVars>>

CheckKill ==
    /\ reader = "check"
    /\ reader' = IF m_threadKill THEN "exit" ELSE "wait"
    /\ UNCHANGED <<kernelVars, wakeUpDevice, sameBytes, m_watchdogDead, m_fpgaConfigReady,
                   m_threadKill, histVars>>

\* watchdogRead: wait_event_interruptible returns ...
ReadWoken ==
    /\ reader = "wait"
    /\ wakeUpDevice
    /\ reader' = "lower"
    /\ UNCHANGED <<kernelVars, wakeUpDevice, sameBytes, m_watchdogDead, m_fpgaConfigReady,
                   m_threadKill, histVars>>

ReadLowerFlag ==
    /\ reader = "lower"
    /\ wakeUpDevice' = FALSE
    /\ reader' = "copy"
    /\ UNCHANGED <<kernelVars, sameBytes, m_watchdogDead, m_fpgaConfigReady, m_threadKill,
                   histVars>>

ReadCopy ==
    /\ reader = "copy"
    /\ sameBytes' = (txData[1] = txData[2])
    /\ torn' = (torn \/ round = "second")
    /\ reader' = "judge"
    /\ UNCHANGED <<kernelVars, wakeUpDevice, m_watchdogDead, m_fpgaConfigReady,
                   m_threadKill, ticks>>

\* dataRX turns equal bytes into an error; threadWatchdog never takes back
\* either flag.
Judge ==
    /\ reader = "judge"
    /\ IF sameBytes
       THEN m_watchdogDead' = TRUE /\ UNCHANGED m_fpgaConfigReady
       ELSE m_fpgaConfigReady' = TRUE /\ UNCHANGED m_watchdogDead
    /\ sameBytes' = FALSE   \* not looked at again
    /\ reader' = "check"
    /\ UNCHANGED <<kernelVars, wakeUpDevice, m_threadKill, histVars>>

shutdownThread ==
    /\ ~m_threadKill
    /\ reader # "closed"
    /\ m_threadKill' = TRUE
    /\ UNCHANGED <<kernelVars, wakeUpDevice, reader, sameBytes, m_watchdogDead,
                   m_fpgaConfigReady, histVars>>

threadWatchdog == CheckKill \/ ReadWoken \/ ReadLowerFlag \/ ReadCopy \/ Judge

-----------------------------------------------------------------------------
WatchdogNext == WatchdogISR \/ watchdogThread \/ Open \/ threadWatchdog \/ shutdownThread

\* The kernel thread runs once per second, its reader is scheduled.
WatchdogSpec ==
    /\ WatchdogInit /\ [][WatchdogNext]_watchdogVars
    /\ WF_watchdogVars(watchdogThread) /\ WF_watchdogVars(threadWatchdog)

-----------------------------------------------------------------------------
(* Properties.                                                             *)

\* Every variable keeps its type.
WatchdogTypeOK ==
    /\ indicatorCurrent \in Char /\ indicatorPrevious \in Char
    /\ indicatorFPGA \in BOOLEAN
    /\ round \in {"sleep", "second", "wake"}
    /\ txData \in Char \X Char /\ sameBytes \in BOOLEAN
    /\ wakeUpDevice \in BOOLEAN /\ commanderWoken \in BOOLEAN
    /\ reader \in {"closed", "check", "wait", "lower", "copy", "judge", "exit"}
    /\ m_watchdogDead \in BOOLEAN /\ m_fpgaConfigReady \in BOOLEAN /\ m_threadKill \in BOOLEAN
    /\ ticks \in 0 .. MaxTicks /\ torn \in BOOLEAN

\* Over every wrap of the counter, a running or unflashed FPGA is not taken for
\* dead: not by the kernel thread, which would release the Commander's reader,
\* and not by the application ("No FPGA Watchdog Signal", Watchdog.cpp:164) but
\* for a torn copy; the two bytes of a whole one differ while FPGA or hack count.
NotTakenForDead == ~commanderWoken /\ (m_watchdogDead => torn)

\* A round that follows a tick finds the FPGA live.
TickIsNoticed == [][round = "wake" /\ round' = "sleep" /\ ticks > 0 => indicatorFPGA']_watchdogVars

\* The application's thread can be joined.
ThreadStops == m_threadKill ~> reader = "exit"
=============================================================================
