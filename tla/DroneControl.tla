---------------------------- MODULE DroneControl ----------------------------
(***************************************************************************)
(* The life of a DroneCtrl object of the application: the GUI's NEW and    *)
(* DELETE buttons (gui.cpp:1636-1738), the DroneCtrl thread that opens the *)
(* driver's devices, configures the FPGA and falls idle (DroneCtrl.cpp),   *)
(* and the two threads an opened device starts (Commander.cpp, Watchdog.   *)
(* cpp).  What those two threads do meanwhile is the subject of modules    *)
(* CommanderThread and Watchdog.                                           *)
(*                                                                         *)
(* DELETE runs the destructors of DroneCtrl and of its bases, so that each *)
(* device's shutdownThread is called twice, the first time while the       *)
(* DroneCtrl thread may still be opening devices.                          *)
(***************************************************************************)
EXTENDS Naturals, Sequences, SequencesExt

CONSTANTS
    MaxObjects,     \* bound: how often NEW creates an object
    OpenMayFail,    \* TRUE: open() may find the device in use
    Memory          \* what a bool that no constructor sets may hold

ASSUME DroneAssumption ==
    /\ MaxObjects \in Nat
    /\ OpenMayFail \in BOOLEAN
    /\ Memory \subseteq BOOLEAN /\ Memory # {}

Devices == {"commander", "watchdog"}

VARIABLES
    gui,                \* where the GUI thread is
    objects,            \* history: objects created
    pc,                 \* where the DroneCtrl thread is
    m_ctrlState, m_stateChanged, m_threadKill, m_isKernelConnected,
    comm,               \* the base class of each device: [open, kill, thread]
    m_fpgaConfigReady,
    m_stopFlag,         \* of the watchdog's thread: it has set m_fpgaConfigReady
    refused,            \* history: an open() of this object failed
    commands            \* history: commands this object wrote, oldest first

droneVars == <<m_ctrlState, m_stateChanged, m_threadKill, m_isKernelConnected>>
objectVars == <<objects, m_stopFlag, refused>>
vars == <<gui, pc, droneVars, comm, m_fpgaConfigReady, objectVars, commands>>

\* No device opened; thread is "none", "running" or "exited", and it is
\* joinable until it is joined and "none" again.
Closed == [open |-> FALSE, kill |-> FALSE, thread |-> "none"]

Init ==
    /\ gui = <<"none">> /\ pc = "none"
    /\ m_ctrlState = "DRONE_CTRL_IDLE" /\ m_stateChanged = FALSE
    /\ m_threadKill = TRUE /\ m_isKernelConnected = FALSE
    /\ comm = [d \in Devices |-> Closed]
    /\ m_fpgaConfigReady = FALSE
    /\ objects = 0 /\ m_stopFlag = FALSE /\ refused = FALSE /\ commands = <<>>

-----------------------------------------------------------------------------
(* The GUI thread.                                                         *)

\* The constructors; initThread starts the DroneCtrl thread.  No constructor
\* sets m_fpgaConfigReady or DroneCtrl's m_stateChanged.
New ==
    /\ gui = <<"none">>
    /\ objects < MaxObjects
    /\ objects' = objects + 1
    /\ m_ctrlState' = "DRONE_CTRL_IDLE" /\ m_threadKill' = FALSE
    /\ m_isKernelConnected' = FALSE
    /\ m_fpgaConfigReady' \in Memory /\ m_stateChanged' \in Memory
    /\ comm' = [d \in Devices |-> Closed]
    /\ pc' = "check"
    /\ m_stopFlag' = FALSE /\ refused' = FALSE /\ commands' = <<>>
    /\ gui' = <<"created">>

\* setDroneCtrlState: the state, then the event.
setDroneCtrlState(state) ==
    /\ gui = <<"created">>
    /\ m_ctrlState' = state
    /\ gui' = <<"stored">>
    /\ UNCHANGED <<pc, m_stateChanged, m_threadKill, m_isKernelConnected, comm,
                   m_fpgaConfigReady, objectVars, commands>>

\* Mutant: the condition variable is notified and its flag left as it is.
triggerWithoutFlag(from, to) ==
    /\ gui = from
    /\ gui' = to
    /\ UNCHANGED m_stateChanged

triggerDroneControlEvent(from, to) ==
    /\ gui = from
    /\ m_stateChanged' = TRUE
    /\ gui' = to

StateEvent ==
    /\ triggerDroneControlEvent(<<"stored">>, <<"up">>)
    /\ UNCHANGED <<pc, m_ctrlState, m_threadKill, m_isKernelConnected, comm,
                   m_fpgaConfigReady, objectVars, commands>>

\* deleteDroneControl, before it resets the pointer; the two interrupt
\* vectors it hands to the Commander thread are frames of CommanderThread.
Delete ==
    /\ gui = <<"up">>
    /\ commands' = IF m_isKernelConnected THEN Append(commands, "CMD_DEBUG_DISABLE")
                                          ELSE commands
    /\ gui' = <<"send", "commander", 1>>
    /\ UNCHANGED <<pc, droneVars, comm, m_fpgaConfigReady, objectVars>>

\* The destructors: ~DroneCtrl shuts both devices down and then its own
\* thread, ~Commander and ~Watchdog shut theirs down again and close it.
After(d, round) ==
    CASE d = "commander"            -> <<"mark", "watchdog", round>>
      [] d = "watchdog" /\ round = 1 -> <<"kill">>
      [] OTHER                      -> <<"none">>

\* Commander::shutdownThread, the two commands.
ShutdownSend(round) ==
    /\ gui = <<"send", "commander", round>>
    /\ commands' = IF comm["commander"].open
                   THEN commands \o <<"CMD_DMA_SINGLE", "CMD_FPGA_RESET">>
                   ELSE commands
    /\ gui' = <<"mark", "commander", round>>
    /\ UNCHANGED <<pc, droneVars, comm, m_fpgaConfigReady, objectVars>>

\* closeDEV ends the second round.
Leave(d, round, c) ==
    /\ comm' = [comm EXCEPT ![d] = [c EXCEPT !.open = @ /\ round = 1]]
    /\ gui' = After(d, round)

\* shutdownThread, under m_threadMutex: an earlier mark ends it; without a
\* thread there is nothing to join.
ShutdownMark(d, round) ==
    /\ gui = <<"mark", d, round>>
    /\ IF comm[d].kill \/ comm[d].thread = "none"
       THEN Leave(d, round, [comm[d] EXCEPT !.kill = TRUE])
       ELSE /\ comm' = [comm EXCEPT ![d].kill = TRUE]
            /\ gui' = <<"join", d, round>>
    /\ UNCHANGED <<pc, droneVars, m_fpgaConfigReady, objectVars, commands>>

ShutdownJoin(d, round) ==
    /\ gui = <<"join", d, round>>
    /\ comm[d].thread = "exited"
    /\ Leave(d, round, [comm[d] EXCEPT !.thread = "none"])
    /\ UNCHANGED <<pc, droneVars, m_fpgaConfigReady, objectVars, commands>>

\* DroneCtrl::shutdownThread.
KillDroneCtrl ==
    /\ gui = <<"kill">>
    /\ m_threadKill' = TRUE
    /\ gui' = <<"wake">>
    /\ UNCHANGED <<pc, m_ctrlState, m_stateChanged, m_isKernelConnected, comm,
                   m_fpgaConfigReady, objectVars, commands>>

KillEvent ==
    /\ triggerDroneControlEvent(<<"wake">>, <<"joining">>)
    /\ UNCHANGED <<pc, m_ctrlState, m_threadKill, m_isKernelConnected, comm,
                   m_fpgaConfigReady, objectVars, commands>>

\* Mutant: the bases do not shut down again.
JoinAndClose ==
    /\ gui = <<"joining">>
    /\ pc = "exit"
    /\ gui' = <<"none">>
    /\ pc' = "none"
    /\ UNCHANGED <<droneVars, comm, m_fpgaConfigReady, objectVars, commands>>

JoinDroneCtrl ==
    /\ gui = <<"joining">>
    /\ pc = "exit"
    /\ gui' = <<"send", "commander", 2>>
    /\ pc' = "none"
    /\ UNCHANGED <<droneVars, comm, m_fpgaConfigReady, objectVars, commands>>

GuiGoesOn ==
    \/ \E state \in {"DRONE_CTRL_INIT", "DRONE_CTRL_SKIP"} : setDroneCtrlState(state)
    \/ StateEvent \/ KillDroneCtrl \/ KillEvent \/ JoinDroneCtrl
    \/ \E round \in 1 .. 2 :
           \/ ShutdownSend(round)
           \/ \E d \in Devices : ShutdownMark(d, round) \/ ShutdownJoin(d, round)

-----------------------------------------------------------------------------
(* DroneCtrlThread.                                                        *)

CheckKill ==
    /\ pc = "check"
    /\ pc' = IF m_threadKill THEN "exit" ELSE "switch"
    /\ UNCHANGED <<gui, droneVars, comm, m_fpgaConfigReady, objectVars, commands>>

Idle ==
    /\ pc = "switch"
    /\ m_ctrlState = "DRONE_CTRL_IDLE"
    /\ pc' = "wait"
    /\ UNCHANGED <<gui, droneVars, comm, m_fpgaConfigReady, objectVars, commands>>

waitDroneControlEvent ==
    /\ pc = "wait"
    /\ m_stateChanged
    /\ m_stateChanged' = FALSE
    /\ pc' = "check"
    /\ UNCHANGED <<gui, m_ctrlState, m_threadKill, m_isKernelConnected, comm,
                   m_fpgaConfigReady, objectVars, commands>>

\* setKernelComms, with the state that follows a success.
Connect ==
    /\ pc = "switch"
    /\ m_ctrlState \in {"DRONE_CTRL_INIT", "DRONE_CTRL_SKIP"}
    /\ pc' = "open commander"
    /\ UNCHANGED <<gui, droneVars, comm, m_fpgaConfigReady, objectVars, commands>>

Opening(d) == IF d = "commander" THEN "open commander" ELSE "open watchdog"
Starting(d) == IF d = "commander" THEN "start commander" ELSE "start watchdog"

openDEV(d) ==
    /\ pc = Opening(d)
    /\ comm' = [comm EXCEPT ![d].open = TRUE]
    /\ pc' = Starting(d)
    /\ UNCHANGED <<gui, droneVars, m_fpgaConfigReady, objectVars, commands>>

\* The device is in use: its class is marked for shutdown, and an opened
\* Commander stays as it is.
OpenFails(d) ==
    /\ OpenMayFail
    /\ pc = Opening(d)
    /\ comm' = [comm EXCEPT ![d].kill = TRUE]
    /\ refused' = TRUE
    /\ m_isKernelConnected' = FALSE
    /\ m_ctrlState' = "DRONE_CTRL_IDLE"
    /\ pc' = "check"
    /\ UNCHANGED <<gui, m_stateChanged, m_threadKill, m_fpgaConfigReady, objects,
                   m_stopFlag, commands>>

\* Mutant: the mark of an earlier shutdown is kept.
initThreadKeepsMark(d) ==
    /\ pc = Starting(d)
    /\ gui \notin {<<"join", d, round>> : round \in 1 .. 2}
    /\ comm' = [comm EXCEPT ![d].thread = "running"]
    /\ pc' = IF d = "commander" THEN "open watchdog" ELSE "connected"
    /\ UNCHANGED <<gui, droneVars, m_fpgaConfigReady, objectVars, commands>>

\* initThread, under m_threadMutex.
initThread(d) ==
    /\ pc = Starting(d)
    /\ gui \notin {<<"join", d, round>> : round \in 1 .. 2}
    /\ comm' = [comm EXCEPT ![d].kill = FALSE, ![d].thread = "running"]
    /\ pc' = IF d = "commander" THEN "open watchdog" ELSE "connected"
    /\ UNCHANGED <<gui, droneVars, m_fpgaConfigReady, objectVars, commands>>

Connected ==
    /\ pc = "connected"
    /\ m_isKernelConnected' = TRUE
    /\ m_ctrlState' = IF m_ctrlState = "DRONE_CTRL_SKIP" THEN "DRONE_CTRL_DMA_SINGLE"
                                                        ELSE "DRONE_CTRL_CONFIG"
    /\ pc' = "check"
    /\ UNCHANGED <<gui, m_stateChanged, m_threadKill, comm, m_fpgaConfigReady,
                   objectVars, commands>>

\* DRONE_CTRL_CONFIG polls getFpgaConfigReady.
MayConfigure == m_fpgaConfigReady

Configuring == {"DRONE_CTRL_CONFIG", "DRONE_CTRL_RAMDISK_PERIPHERALS",
                "DRONE_CTRL_RAMDISK_ACTIVATE_DMA", "DRONE_CTRL_DMA_SINGLE"}

\* The states that send a command and move on; sendFpgaConfigToRamDisk, in
\* between, writes the RAM disk and no command.
Sends(state) ==
    CASE state = "DRONE_CTRL_CONFIG"               -> <<"CMD_RAMDISK_CLEAR">>
      [] state = "DRONE_CTRL_RAMDISK_PERIPHERALS"  -> <<>>
      [] state = "DRONE_CTRL_RAMDISK_ACTIVATE_DMA" -> <<"CMD_RAMDISK_CONFIG">>
      [] state = "DRONE_CTRL_DMA_SINGLE"           -> <<"CMD_DMA_NORMAL">>

Follows(state) ==
    CASE state = "DRONE_CTRL_CONFIG"               -> "DRONE_CTRL_RAMDISK_PERIPHERALS"
      [] state = "DRONE_CTRL_RAMDISK_PERIPHERALS"  -> "DRONE_CTRL_RAMDISK_ACTIVATE_DMA"
      [] state = "DRONE_CTRL_RAMDISK_ACTIVATE_DMA" -> "DRONE_CTRL_DMA_SINGLE"
      [] state = "DRONE_CTRL_DMA_SINGLE"           -> "DRONE_CTRL_IDLE"

Configure(state) ==
    /\ pc = "switch"
    /\ m_ctrlState = state
    /\ IF state = "DRONE_CTRL_CONFIG" => MayConfigure
       THEN commands' = commands \o Sends(state) /\ m_ctrlState' = Follows(state)
       ELSE UNCHANGED <<commands, m_ctrlState>>
    /\ pc' = "check"
    /\ UNCHANGED <<gui, m_stateChanged, m_threadKill, m_isKernelConnected, comm,
                   m_fpgaConfigReady, objectVars>>

DroneCtrlThread ==
    \/ CheckKill \/ Idle \/ waitDroneControlEvent \/ Connect \/ Connected
    \/ \E d \in Devices : openDEV(d) \/ OpenFails(d) \/ initThread(d)
    \/ \E state \in Configuring : Configure(state)

-----------------------------------------------------------------------------
(* The threads of the devices.                                             *)

\* Watchdog: the first good read (see module Watchdog).  No other thread reads
\* m_stopFlag, which is set after m_fpgaConfigReady.
WatchdogSignal ==
    /\ comm["watchdog"].thread = "running"
    /\ ~m_stopFlag
    /\ m_fpgaConfigReady' = TRUE
    /\ m_stopFlag' = TRUE
    /\ UNCHANGED <<gui, pc, droneVars, comm, objects, refused, commands>>

\* A thread that is marked leaves its loop (see ShutdownEnds of module
\* CommanderThread, for a kernel that answers, and ThreadStops of Watchdog).
ThreadExit(d) ==
    /\ comm[d].thread = "running"
    /\ comm[d].kill
    /\ comm' = [comm EXCEPT ![d].thread = "exited"]
    /\ UNCHANGED <<gui, pc, droneVars, m_fpgaConfigReady, objectVars, commands>>

Next ==
    \/ New \/ Delete \/ GuiGoesOn \/ DroneCtrlThread
    \/ WatchdogSignal \/ \E d \in Devices : ThreadExit(d)

\* Every thread is scheduled; the user presses NEW and DELETE or does not.
Fairness ==
    /\ WF_vars(GuiGoesOn)
    /\ WF_vars(DroneCtrlThread)
    /\ WF_vars(WatchdogSignal)
    /\ \A d \in Devices : WF_vars(ThreadExit(d))

Spec == Init /\ [][Next]_vars /\ Fairness

-----------------------------------------------------------------------------
(* Properties.                                                             *)

Commands == {"CMD_DEBUG_DISABLE", "CMD_DMA_SINGLE", "CMD_FPGA_RESET", "CMD_RAMDISK_CLEAR",
             "CMD_RAMDISK_CONFIG", "CMD_DMA_NORMAL"}
GuiStates ==
    {<<"none">>, <<"created">>, <<"stored">>, <<"up">>, <<"kill">>, <<"wake">>, <<"joining">>}
    \cup {"send", "mark", "join"} \X Devices \X (1 .. 2)
Classes == [open : BOOLEAN, kill : BOOLEAN, thread : {"none", "running", "exited"}]
ThreadStates ==
    {"none", "check", "switch", "wait", "exit", "open commander", "start commander",
     "open watchdog", "start watchdog", "connected"}
CtrlStates == {"DRONE_CTRL_IDLE", "DRONE_CTRL_INIT", "DRONE_CTRL_SKIP"} \cup Configuring

\* Every variable keeps its type.
TypeOK ==
    /\ gui \in GuiStates /\ pc \in ThreadStates /\ m_ctrlState \in CtrlStates
    /\ objects \in 0 .. MaxObjects
    /\ comm \in [Devices -> Classes]
    /\ m_stateChanged \in BOOLEAN /\ m_threadKill \in BOOLEAN /\ m_isKernelConnected \in BOOLEAN
    /\ m_fpgaConfigReady \in BOOLEAN /\ m_stopFlag \in BOOLEAN /\ refused \in BOOLEAN
    /\ commands \in Seq(Commands)

\* When the destructors have run, no thread of the object is left running or
\* unjoined (destroying a joinable std::thread terminates the application),
\* and both devices are closed, however early DELETE came.
NothingOutlivesTheObject ==
    gui = <<"none">> =>
        /\ pc = "none"
        /\ \A d \in Devices : comm[d].thread = "none" /\ ~comm[d].open

\* An object that had the Commander open leaves the driver in single mode and
\* the FPGA reset ("Switch to single DMA", "Reset FPGA", Commander.cpp:210-213),
\* whatever commands the DroneCtrl thread sent meanwhile.
LeavesFpgaReset ==
    gui = <<"none">> /\ commands # <<>> =>
        IsSuffix(<<"CMD_DMA_SINGLE", "CMD_FPGA_RESET">>, commands)

\* An object that was told to connect ends up in normal mode, unless a device
\* is in use or it is deleted first.
ReachesNormalMode ==
    gui = <<"up">> ~> (Contains(commands, "CMD_DMA_NORMAL") \/ refused \/ gui # <<"up">>)

\* DELETE comes to its end.
DeleteEnds == gui = <<"send", "commander", 1>> ~> gui = <<"none">>
=============================================================================
