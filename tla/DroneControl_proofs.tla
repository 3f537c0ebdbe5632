------------------------ MODULE DroneControl_proofs --------------------------
(***************************************************************************)
(* For any number of objects, deleted at any moment, devices in use or     *)
(* not: no thread of an object outlives it, and the FPGA is left reset.    *)
(***************************************************************************)
EXTENDS DroneControl, TLAPS, SequenceTheorems

\* The second round of the destructors, after the DroneCtrl thread was joined.
Second == gui[1] \in {"send", "mark", "join"} /\ gui[3] = 2

Joining(d) == gui[1] = "join" /\ gui[2] = d

NoThreads == \A d \in Devices : comm[d].thread = "none"

\* The DroneCtrl thread is there until it is joined.
PcOK == pc = "none" <=> gui[1] = "none" \/ Second

\* A thread that is marked is being joined.
MarkOK ==
    \A d \in Devices :
        /\ comm[d].kill /\ comm[d].thread # "none" => Joining(d)
        /\ Joining(d) => comm[d].kill /\ comm[d].thread # "none"

\* Devices are opened once in the life of an object.
OpensOnce ==
    /\ gui[1] = "created" =>
         /\ m_ctrlState = "DRONE_CTRL_IDLE" /\ pc \in {"check", "switch", "wait"}
         /\ NoThreads /\ ~m_threadKill
    /\ m_ctrlState \in {"DRONE_CTRL_INIT", "DRONE_CTRL_SKIP"} /\ pc \in {"check", "switch", "wait"}
         => NoThreads
    /\ pc \in {"open commander", "start commander"} => NoThreads
    /\ pc \in {"open watchdog", "start watchdog"} => comm["watchdog"].thread = "none"

\* What is left of the devices while they are closed.
Closing ==
    /\ Second /\ gui[2] = "watchdog" =>
         comm["commander"].thread = "none" /\ ~comm["commander"].open
    /\ NothingOutlivesTheObject

\* Commands went through an open device, and those of the second round are the last.
CommandsOK ==
    /\ pc \in {"start commander", "open watchdog", "start watchdog", "connected"}
         => comm["commander"].open
    /\ pc # "none" /\ (m_ctrlState \in Configuring \/ m_isKernelConnected)
         => comm["commander"].open
    /\ IF pc = "none" /\ gui[1] # "send"
       THEN commands # <<>> => IsSuffix(<<"CMD_DMA_SINGLE", "CMD_FPGA_RESET">>, commands)
       ELSE commands # <<>> => comm["commander"].open

IInv == TypeOK /\ PcOK /\ MarkOK /\ OpensOnce /\ Closing /\ CommandsOK

-----------------------------------------------------------------------------
(* Types.                                                                  *)

\* A state of the GUI with a device is a triple.
LEMMA GuiTriple ==
    ASSUME gui \in GuiStates
    PROVE  /\ gui[1] \in {"send", "mark", "join"} =>
                /\ gui[2] \in Devices /\ gui[3] \in 1 .. 2
                /\ gui = <<gui[1], gui[2], gui[3]>>
           /\ gui[1] = "none" => gui = <<"none">>
  BY DEF GuiStates

\* The first of a tuple of one.
LEMMA OneIsFirst == \A g : g = <<"none">> => g[1] = "none"
  OBVIOUS

\* After a device comes the other one, the thread, or the end.
LEMMA GuiStatesFacts ==
    ASSUME NEW d \in Devices, NEW round \in 1 .. 2
    PROVE  /\ After(d, round) \in GuiStates
           /\ \A w \in {"send", "mark", "join"} : <<w, d, round>> \in GuiStates
  BY DEF GuiStates, After, Devices

\* Commands are appended to commands.
LEMMA CommandsType ==
    ASSUME NEW s \in Seq(Commands), NEW t \in Seq(Commands)
    PROVE  s \o t \in Seq(Commands)
  BY ConcatProperties

\* What the thread sends are commands.
LEMMA SendsCommands ==
    ASSUME NEW state \in Configuring
    PROVE  Sends(state) \in Seq(Commands)
<1>1. /\ <<"CMD_RAMDISK_CLEAR">> \in Seq(Commands) /\ <<"CMD_RAMDISK_CONFIG">> \in Seq(Commands)
      /\ <<"CMD_DMA_NORMAL">> \in Seq(Commands) /\ <<>> \in Seq(Commands)
  BY DEF Commands
<1>2. Sends(state) \in {<<"CMD_RAMDISK_CLEAR">>, <<"CMD_RAMDISK_CONFIG">>,
                        <<"CMD_DMA_NORMAL">>, <<>>}
  BY DEF Sends, Configuring
<1>. QED
  BY <1>1, <1>2

\* The GUI thread keeps the types.
LEMMA GuiType == TypeOK /\ GuiGoesOn => TypeOK'
<1>. SUFFICES ASSUME TypeOK, GuiGoesOn PROVE TypeOK'
  OBVIOUS
<1>1. ASSUME NEW state \in {"DRONE_CTRL_INIT", "DRONE_CTRL_SKIP"}, setDroneCtrlState(state)
      PROVE TypeOK'
  <2>1. m_ctrlState' \in CtrlStates /\ gui' \in GuiStates
    BY <1>1 DEF setDroneCtrlState, CtrlStates, GuiStates
  <2>. QED
    BY <1>1, <2>1 DEF setDroneCtrlState, TypeOK, objectVars
<1>2. ASSUME NEW from, NEW to \in {<<"up">>, <<"joining">>}, triggerDroneControlEvent(from, to)
      PROVE  gui' \in GuiStates /\ m_stateChanged' \in BOOLEAN
  BY <1>2 DEF triggerDroneControlEvent, GuiStates
<1>3. CASE StateEvent \/ KillEvent
  BY <1>2, <1>3 DEF StateEvent, KillEvent, TypeOK, objectVars
<1>4. CASE KillDroneCtrl
  <2>1. gui' \in GuiStates
    BY <1>4 DEF KillDroneCtrl, GuiStates
  <2>. QED
    BY <1>4, <2>1 DEF KillDroneCtrl, TypeOK, objectVars
<1>5. CASE JoinDroneCtrl
  <2>1. gui' \in GuiStates /\ pc' \in ThreadStates
    BY <1>5 DEF JoinDroneCtrl, GuiStates, ThreadStates, Devices
  <2>. QED
    BY <1>5, <2>1 DEF JoinDroneCtrl, TypeOK, objectVars, droneVars
<1>6. ASSUME NEW round \in 1 .. 2, ShutdownSend(round) PROVE TypeOK'
  <2>1. commands' \in Seq(Commands)
    <3>1. <<"CMD_DMA_SINGLE", "CMD_FPGA_RESET">> \in Seq(Commands)
      BY DEF Commands
    <3>. QED
      BY <1>6, <3>1, CommandsType DEF ShutdownSend, TypeOK
  <2>2. gui' \in GuiStates
    BY <1>6, GuiStatesFacts DEF ShutdownSend, Devices
  <2>. QED
    BY <1>6, <2>1, <2>2 DEF ShutdownSend, TypeOK, objectVars, droneVars
<1>7. ASSUME NEW round \in 1 .. 2, NEW d \in Devices, NEW c \in Classes, Leave(d, round, c)
      PROVE comm' \in [Devices -> Classes] /\ gui' \in GuiStates
  <2>1. [c EXCEPT !.open = @ /\ round = 1] \in Classes
    <3>1. (c.open /\ round = 1) \in BOOLEAN
      OBVIOUS
    <3>. QED
      BY <3>1 DEF Classes
  <2>. QED
    BY <1>7, <2>1, GuiStatesFacts DEF Leave, TypeOK
<1>8. ASSUME NEW round \in 1 .. 2, NEW d \in Devices, ShutdownMark(d, round) PROVE TypeOK'
  <2>1. [comm[d] EXCEPT !.kill = TRUE] \in Classes
    BY DEF TypeOK, Classes
  <2>2. comm' \in [Devices -> Classes] /\ gui' \in GuiStates
    BY <1>7, <1>8, <2>1, GuiStatesFacts DEF ShutdownMark, TypeOK
  <2>. QED
    BY <1>8, <2>2 DEF ShutdownMark, TypeOK, objectVars, droneVars
<1>9. ASSUME NEW round \in 1 .. 2, NEW d \in Devices, ShutdownJoin(d, round) PROVE TypeOK'
  <2>1. [comm[d] EXCEPT !.thread = "none"] \in Classes
    BY DEF TypeOK, Classes
  <2>. QED
    BY <1>7, <1>9, <2>1 DEF ShutdownJoin, TypeOK, objectVars, droneVars
<1>. QED
  BY <1>1, <1>3, <1>4, <1>5, <1>6, <1>8, <1>9 DEF GuiGoesOn

\* The DroneCtrl thread keeps the types.
LEMMA ThreadType == TypeOK /\ DroneCtrlThread => TypeOK'
<1>. SUFFICES ASSUME TypeOK, DroneCtrlThread PROVE TypeOK'
  OBVIOUS
<1>1. CASE CheckKill \/ Idle \/ waitDroneControlEvent \/ Connect
  <2>1. pc' \in ThreadStates /\ m_stateChanged' \in BOOLEAN
    BY <1>1 DEF CheckKill, Idle, waitDroneControlEvent, Connect, ThreadStates, TypeOK, droneVars
  <2>. QED
    BY <1>1, <2>1 DEF CheckKill, Idle, waitDroneControlEvent, Connect, TypeOK, objectVars, droneVars
<1>2. CASE Connected
  <2>1. pc' \in ThreadStates /\ m_ctrlState' \in CtrlStates
    BY <1>2 DEF Connected, ThreadStates, CtrlStates, Configuring
  <2>. QED
    BY <1>2, <2>1 DEF Connected, TypeOK, objectVars
<1>3. ASSUME NEW d \in Devices, openDEV(d) PROVE TypeOK'
  <2>1. pc' \in ThreadStates /\ comm' \in [Devices -> Classes]
    BY <1>3 DEF openDEV, Starting, ThreadStates, Classes, TypeOK
  <2>. QED
    BY <1>3, <2>1 DEF openDEV, TypeOK, objectVars, droneVars
<1>4. ASSUME NEW d \in Devices, OpenFails(d) PROVE TypeOK'
  <2>1. pc' \in ThreadStates /\ m_ctrlState' \in CtrlStates /\ comm' \in [Devices -> Classes]
    BY <1>4 DEF OpenFails, ThreadStates, CtrlStates, Classes, TypeOK
  <2>. QED
    BY <1>4, <2>1 DEF OpenFails, TypeOK
<1>5. ASSUME NEW d \in Devices, initThread(d) PROVE TypeOK'
  <2>1. pc' \in ThreadStates /\ comm' \in [Devices -> Classes]
    BY <1>5 DEF initThread, ThreadStates, Classes, TypeOK
  <2>. QED
    BY <1>5, <2>1 DEF initThread, TypeOK, objectVars, droneVars
<1>6. ASSUME NEW state \in Configuring, Configure(state) PROVE TypeOK'
  <2>1. Sends(state) \in Seq(Commands)
    BY SendsCommands
  <2>2. Follows(state) \in CtrlStates
    BY DEF Follows, Configuring, CtrlStates
  <2>3. commands' \in Seq(Commands) /\ m_ctrlState' \in CtrlStates /\ pc' \in ThreadStates
    BY <1>6, <2>1, <2>2, CommandsType DEF Configure, TypeOK, ThreadStates
  <2>. QED
    BY <1>6, <2>3 DEF Configure, TypeOK, objectVars
<1>. QED
  BY <1>1, <1>2, <1>3, <1>4, <1>5, <1>6 DEF DroneCtrlThread

\* The types at the start.
LEMMA InitType == Init => TypeOK
<1>. SUFFICES ASSUME Init PROVE TypeOK
  OBVIOUS
<1>1. /\ gui \in GuiStates /\ pc \in ThreadStates /\ m_ctrlState \in CtrlStates
      /\ objects \in 0 .. MaxObjects
  BY DroneAssumption DEF Init, GuiStates, ThreadStates, CtrlStates
<1>2. comm \in [Devices -> Classes] /\ commands \in Seq(Commands)
  BY DEF Init, Closed, Classes
<1>. QED
  BY <1>1, <1>2 DEF Init, TypeOK

\* Every step keeps the types.
LEMMA NextType == TypeOK /\ [Next]_vars => TypeOK'
<1>. SUFFICES ASSUME TypeOK, [Next]_vars PROVE TypeOK'
  OBVIOUS
<1>1. CASE New
  <2>1. m_fpgaConfigReady' \in BOOLEAN
    BY <1>1, DroneAssumption DEF New
  <2>2. m_stateChanged' \in BOOLEAN
    BY <1>1, DroneAssumption DEF New
  <2>3. gui' \in GuiStates /\ pc' \in ThreadStates /\ m_ctrlState' \in CtrlStates
    BY <1>1 DEF New, GuiStates, ThreadStates, CtrlStates
  <2>5. objects' \in 0 .. MaxObjects
    BY <1>1, DroneAssumption DEF New, TypeOK
  <2>4. comm' \in [Devices -> Classes] /\ commands' \in Seq(Commands)
    BY <1>1 DEF New, Closed, Classes
  <2>. QED
    BY <1>1, <2>1, <2>2, <2>3, <2>4, <2>5 DEF New, TypeOK
<1>2. CASE Delete
  <2>1. commands' \in Seq(Commands)
    BY <1>2 DEF Delete, TypeOK, Commands
  <2>2. gui' \in GuiStates
    BY <1>2, GuiStatesFacts DEF Delete, Devices
  <2>. QED
    BY <1>2, <2>1, <2>2 DEF Delete, TypeOK, objectVars, droneVars
<1>3. CASE GuiGoesOn
  BY <1>3, GuiType
<1>4. CASE DroneCtrlThread
  BY <1>4, ThreadType
<1>5. CASE WatchdogSignal
  BY <1>5 DEF WatchdogSignal, TypeOK, droneVars
<1>6. ASSUME NEW d \in Devices, ThreadExit(d) PROVE TypeOK'
  <2>1. comm' \in [Devices -> Classes]
    BY <1>6 DEF ThreadExit, TypeOK, Classes
  <2>. QED
    BY <1>6, <2>1 DEF ThreadExit, TypeOK, droneVars, objectVars
<1>7. CASE UNCHANGED vars
  BY <1>7 DEF vars, TypeOK, droneVars, objectVars
<1>. QED
  BY <1>1, <1>2, <1>3, <1>4, <1>5, <1>6, <1>7 DEF Next

\* The thread and the commands, before anything was created and after.
LEMMA NewIInv ==
    ASSUME gui'[1] \in {"none", "created"}, pc' = IF gui'[1] = "none" THEN "none" ELSE "check",
           m_ctrlState' = "DRONE_CTRL_IDLE", m_isKernelConnected' = FALSE, commands' = <<>>,
           comm' = [d \in Devices |-> Closed], gui'[1] = "created" => ~m_threadKill', TypeOK'
    PROVE  IInv'
<1>1. ~Second' /\ \A d \in Devices : comm'[d] = Closed
  BY DEF Second
<1>. QED
  BY <1>1 DEF IInv, PcOK, MarkOK, Joining, OpensOnce, Closing, NothingOutlivesTheObject,
     CommandsOK, Closed, NoThreads, Configuring

-----------------------------------------------------------------------------
(* The devices.                                                            *)

\* Before the first object.
LEMMA InitIInv == Init => IInv
<1>. SUFFICES ASSUME Init PROVE IInv
  OBVIOUS
<1>1. TypeOK
  BY InitType
<1>2. gui[1] = "none" /\ ~Second /\ \A d \in Devices : comm[d] = Closed
  BY DEF Init, Second
<1>. QED
  BY <1>1, <1>2 DEF Init, IInv, PcOK, MarkOK, Joining, OpensOnce, Closing,
     NothingOutlivesTheObject, CommandsOK, Closed, NoThreads, Configuring

\* The GUI thread, where it touches no device.
LEMMA GuiAlone ==
    ASSUME IInv, TypeOK',
           \/ New \/ Delete \/ StateEvent \/ KillDroneCtrl \/ KillEvent \/ JoinDroneCtrl
           \/ \E state \in {"DRONE_CTRL_INIT", "DRONE_CTRL_SKIP"} : setDroneCtrlState(state)
    PROVE  IInv'
<1>. USE DEF IInv, PcOK, MarkOK, Joining, OpensOnce, NoThreads, Closing, CommandsOK, Second
<1>1. gui'[1] # "none" => NothingOutlivesTheObject'
  BY OneIsFirst DEF NothingOutlivesTheObject
<1>2. CASE New
  BY <1>2, NewIInv DEF New
<1>3. CASE Delete
  <2>1. gui[1] = "up" /\ gui'[1] = "send" /\ gui'[2] = "commander" /\ gui'[3] = 1
    BY <1>3 DEF Delete
  <2>. QED
    BY <1>1, <1>3, <2>1 DEF Delete, droneVars, objectVars
<1>4. CASE StateEvent
  <2>1. gui[1] = "stored" /\ gui'[1] = "up"
    BY <1>4 DEF StateEvent, triggerDroneControlEvent
  <2>. QED
    BY <1>1, <1>4, <2>1 DEF StateEvent, objectVars
<1>5. CASE KillDroneCtrl
  <2>1. gui[1] = "kill" /\ gui'[1] = "wake"
    BY <1>5 DEF KillDroneCtrl
  <2>. QED
    BY <1>1, <1>5, <2>1 DEF KillDroneCtrl, objectVars
<1>6. CASE KillEvent
  <2>1. gui[1] = "wake" /\ gui'[1] = "joining"
    BY <1>6 DEF KillEvent, triggerDroneControlEvent
  <2>. QED
    BY <1>1, <1>6, <2>1 DEF KillEvent, objectVars
<1>7. CASE JoinDroneCtrl
  <2>1. gui[1] = "joining" /\ gui'[1] = "send" /\ gui'[2] = "commander" /\ gui'[3] = 2
    BY <1>7 DEF JoinDroneCtrl
  <2>. QED
    BY <1>1, <1>7, <2>1 DEF JoinDroneCtrl, droneVars, objectVars
<1>8. ASSUME NEW state \in {"DRONE_CTRL_INIT", "DRONE_CTRL_SKIP"}, setDroneCtrlState(state)
      PROVE  IInv'
  <2>1. gui[1] = "created" /\ gui'[1] = "stored"
    BY <1>8 DEF setDroneCtrlState
  <2>. QED
    BY <1>1, <1>8, <2>1 DEF setDroneCtrlState, objectVars, Configuring
<1>. QED
  BY <1>2, <1>3, <1>4, <1>5, <1>6, <1>7, <1>8

\* What is appended is a suffix.
LEMMA AppendedIsSuffix ==
    ASSUME NEW s \in Seq(Commands), NEW t \in Seq(Commands)
    PROVE  IsSuffix(t, s \o t)
<1>. DEFINE u == s \o t
<1>1. /\ u \in Seq(Commands) /\ Len(u) = Len(s) + Len(t) /\ Len(s) \in Nat /\ Len(t) \in Nat
      /\ \A i \in 1 .. Len(t) : u[Len(s) + i] = t[i]
  BY ConcatProperties
<1>. HIDE DEF u
<1>2. /\ Reverse(t) \in Seq(Commands) /\ Len(Reverse(t)) = Len(t)
      /\ \A i \in 1 .. Len(t) : Reverse(t)[i] = t[Len(t) - i + 1]
  BY <1>1 DEF Reverse
<1>3. /\ Reverse(u) \in Seq(Commands) /\ Len(Reverse(u)) = Len(u)
      /\ \A i \in 1 .. Len(u) : Reverse(u)[i] = u[Len(u) - i + 1]
  BY <1>1 DEF Reverse
<1>4. ASSUME NEW i \in 1 .. Len(t) PROVE Reverse(t)[i] = Reverse(u)[i]
  <2>1. Len(t) - i + 1 \in 1 .. Len(t) /\ Len(u) - i + 1 = Len(s) + (Len(t) - i + 1)
    BY <1>1
  <2>2. i \in 1 .. Len(u)
    BY <1>1
  <2>3. Reverse(u)[i] = u[Len(s) + (Len(t) - i + 1)]
    BY <1>3, <2>1, <2>2
  <2>. QED
    BY <1>1, <1>2, <2>1, <2>3
<1>5. SubSeq(Reverse(t), 1, Len(t)) = SubSeq(Reverse(u), 1, Len(t))
  BY <1>1, <1>2, <1>3, <1>4, SubSeqProperties
<1>. QED
  BY <1>1, <1>2, <1>3, <1>5 DEF IsSuffix, IsPrefix, u

\* The two that shut the device down.
LEMMA LastCommands == <<"CMD_DMA_SINGLE", "CMD_FPGA_RESET">> \in Seq(Commands)
  BY DEF Commands

\* What follows the shutdown of a device.
LEMMA AfterFacts ==
    /\ \A round \in 1 .. 2 : After("commander", round) = <<"mark", "watchdog", round>>
    /\ After("watchdog", 1) = <<"kill">> /\ After("watchdog", 2) = <<"none">>
  BY DEF After

\* A device is left without its thread, in the second round closed.
Left(d, round) ==
    /\ comm[d].kill = FALSE \/ comm[d].thread = "none" \/ gui[1] = "join"
    /\ comm'[d].thread = "none" /\ comm'[d].open = (comm[d].open /\ round = 1)
    /\ \A e \in Devices \ {d} : comm'[e] = comm[e]
    /\ \/ /\ d = "commander" /\ gui'[1] = "mark" /\ gui'[2] = "watchdog" /\ gui'[3] = round
       \/ d = "watchdog" /\ round = 1 /\ gui'[1] = "kill"
       \/ d = "watchdog" /\ round = 2 /\ gui'[1] = "none"

\* What leaving a device changes.
LEMMA LeaveFacts ==
    ASSUME comm \in [Devices -> Classes], NEW d \in Devices, NEW round \in 1 .. 2,
           NEW c \in Classes, c.thread = "none", c.open = comm[d].open, Leave(d, round, c),
           comm[d].kill = FALSE \/ comm[d].thread = "none" \/ gui[1] = "join"
    PROVE  Left(d, round)
<1>1. (c.open /\ round = 1) \in BOOLEAN
  OBVIOUS
<1>. DEFINE m == [c EXCEPT !.open = c.open /\ round = 1]
<1>2. m \in Classes /\ m.open = (c.open /\ round = 1) /\ m.thread = "none"
  BY <1>1 DEF Classes
<1>3. comm' = [comm EXCEPT ![d] = m] /\ gui' = After(d, round)
  BY DEF Leave
<1>. HIDE DEF m
<1>4. comm'[d].thread = "none" /\ comm'[d].open = (comm[d].open /\ round = 1)
  BY <1>2, <1>3
<1>5. \A e \in Devices \ {d} : comm'[e] = comm[e]
  BY <1>3
<1>6. \/ /\ d = "commander" /\ gui'[1] = "mark" /\ gui'[2] = "watchdog" /\ gui'[3] = round
      \/ d = "watchdog" /\ round = 1 /\ gui'[1] = "kill"
      \/ d = "watchdog" /\ round = 2 /\ gui'[1] = "none"
  <2>1. CASE d = "commander"
    BY <1>3, <2>1, AfterFacts
  <2>2. CASE d = "watchdog" /\ round = 1
    BY <1>3, <2>2, AfterFacts
  <2>3. CASE d = "watchdog" /\ round = 2
    BY <1>3, <2>3, AfterFacts
  <2>. QED
    BY <2>1, <2>2, <2>3 DEF Devices
<1>. QED
  BY <1>4, <1>5, <1>6 DEF Left

\* An earlier mark or the lack of a thread ends the shutdown; else the thread is joined.
LEMMA MarkFacts ==
    ASSUME comm \in [Devices -> Classes], NEW d \in Devices, NEW round \in 1 .. 2, MarkOK,
           ShutdownMark(d, round)
    PROVE  /\ gui[1] = "mark" /\ gui[2] = d /\ gui[3] = round
           /\ UNCHANGED <<pc, m_ctrlState, m_isKernelConnected, commands>>
           /\ \/ Left(d, round)
              \/ /\ gui'[1] = "join" /\ gui'[2] = d /\ gui'[3] = round
                 /\ comm'[d].kill /\ comm'[d].thread = comm[d].thread
                 /\ comm'[d].open = comm[d].open /\ comm[d].thread # "none"
                 /\ \A e \in Devices \ {d} : comm'[e] = comm[e]
<1>. DEFINE m == [comm[d] EXCEPT !.kill = TRUE]
<1>1. m \in Classes /\ m.kill /\ m.thread = comm[d].thread /\ m.open = comm[d].open
  <2>1. comm[d] \in Classes
    OBVIOUS
  <2>. QED
    BY <2>1 DEF Classes
<1>2. gui[1] = "mark" /\ gui[2] = d /\ gui[3] = round
  BY DEF ShutdownMark
<1>3. UNCHANGED <<pc, m_ctrlState, m_isKernelConnected, commands>>
  BY DEF ShutdownMark, droneVars
<1>4. IF comm[d].kill \/ comm[d].thread = "none" THEN Leave(d, round, m)
      ELSE comm' = [comm EXCEPT ![d] = m] /\ gui' = <<"join", d, round>>
  BY DEF ShutdownMark
<1>. HIDE DEF m
<1>5. CASE comm[d].kill \/ comm[d].thread = "none"
  <2>1. comm[d].thread = "none"
    BY <1>2, <1>5 DEF MarkOK, Joining
  <2>. QED
    BY <1>1, <1>2, <1>3, <1>4, <1>5, <2>1, LeaveFacts
<1>6. CASE ~(comm[d].kill \/ comm[d].thread = "none")
  <2>1. gui'[1] = "join" /\ gui'[2] = d /\ gui'[3] = round
    BY <1>4, <1>6
  <2>2. comm' = [comm EXCEPT ![d] = m]
    BY <1>4, <1>6
  <2>. QED
    BY <1>1, <1>2, <1>3, <1>6, <2>1, <2>2
<1>. QED
  BY <1>5, <1>6

\* A thread that was joined is none.
LEMMA JoinFacts ==
    ASSUME comm \in [Devices -> Classes], NEW d \in Devices, NEW round \in 1 .. 2,
           ShutdownJoin(d, round)
    PROVE  /\ gui[1] = "join" /\ gui[2] = d /\ gui[3] = round
           /\ UNCHANGED <<pc, m_ctrlState, m_isKernelConnected, commands>>
           /\ Left(d, round)
<1>. DEFINE m == [comm[d] EXCEPT !.thread = "none"]
<1>1. m \in Classes /\ m.thread = "none" /\ m.open = comm[d].open
  <2>1. comm[d] \in Classes
    OBVIOUS
  <2>. QED
    BY <2>1 DEF Classes
<1>2. gui[1] = "join" /\ gui[2] = d /\ gui[3] = round
  BY DEF ShutdownJoin
<1>3. UNCHANGED <<pc, m_ctrlState, m_isKernelConnected, commands>>
  BY DEF ShutdownJoin, droneVars
<1>4. Leave(d, round, m)
  BY DEF ShutdownJoin
<1>. QED
  BY <1>1, <1>2, <1>3, <1>4, LeaveFacts

\* The GUI thread shuts the devices down and closes them.
LEMMA GuiShutsDown ==
    ASSUME IInv, TypeOK', NEW round \in 1 .. 2, NEW d \in Devices,
           ShutdownSend(round) \/ ShutdownMark(d, round) \/ ShutdownJoin(d, round)
    PROVE  IInv'
<1>. USE DEF PcOK, MarkOK, Joining, OpensOnce, NoThreads, Closing, CommandsOK, Second
<1>0. gui'[1] # "none" => NothingOutlivesTheObject'
  BY OneIsFirst DEF NothingOutlivesTheObject
<1>5. comm \in [Devices -> Classes] /\ MarkOK /\ IInv
  BY DEF TypeOK, IInv
<1>1. CASE ShutdownSend(round)
  <2>1. /\ gui[1] = "send" /\ gui[2] = "commander" /\ gui[3] = round
        /\ gui'[1] = "mark" /\ gui'[2] = "commander" /\ gui'[3] = round
        /\ UNCHANGED <<comm, pc, m_ctrlState, m_isKernelConnected>>
    BY <1>1 DEF ShutdownSend, droneVars
  <2>. DEFINE last == <<"CMD_DMA_SINGLE", "CMD_FPGA_RESET">>
  <2>2. IF comm["commander"].open THEN commands' = commands \o last ELSE commands' = commands
    BY <1>1 DEF ShutdownSend
  <2>3. IsSuffix(last, commands \o last)
    <3>1. commands \in Seq(Commands)
      BY DEF IInv, TypeOK
    <3>. QED
      BY <3>1, LastCommands, AppendedIsSuffix
  <2>4. CommandsOK'
    <3>1. CommandsOK /\ pc' = pc /\ (pc = "none" <=> gui[1] = "none" \/ Second)
      BY <2>1 DEF IInv
    <3>. QED
      BY <2>1, <2>2, <2>3, <3>1
  <2>5. PcOK' /\ MarkOK' /\ OpensOnce'
    BY <2>1 DEF IInv
  <2>6. Closing'
    BY <1>0, <2>1 DEF IInv
  <2>. QED
    BY <2>4, <2>5, <2>6 DEF IInv
<1>2. ASSUME gui[1] \in {"mark", "join"}, gui[2] = d, gui[3] = round, Left(d, round),
             UNCHANGED <<pc, m_ctrlState, m_isKernelConnected, commands>>
      PROVE  IInv'
  <2>. USE DEF Left, Devices
  <2>1. PcOK'
    BY <1>2 DEF IInv
  <2>2. CommandsOK'
    <3>1. pc # "none" => round = 1
      <4>1. PcOK /\ gui[1] \in {"mark", "join"} /\ gui[3] = round
        BY <1>2 DEF IInv
      <4>. QED
        BY <4>1 DEF PcOK, Second
    <3>2. gui'[1] # "send" /\ gui[1] # "send"
      BY <1>2
    <3>3. pc # "none" => comm'["commander"].open = comm["commander"].open
      <4>1. CASE d = "commander"
        <5>1. comm[d].open \in BOOLEAN
          BY <1>5 DEF Classes
        <5>2. comm'[d].open = (comm[d].open /\ round = 1)
          BY <1>2
        <5>3. round = 1 => comm'[d].open = comm[d].open
          BY <5>1, <5>2
        <5>. QED
          BY <3>1, <4>1, <5>3
      <4>2. CASE d = "watchdog"
        BY <1>2, <4>2
      <4>. QED
        BY <4>1, <4>2
    <3>. QED
      BY <1>2, <3>2, <3>3 DEF IInv
  <2>3. MarkOK'
    BY <1>2 DEF IInv
  <2>4. OpensOnce'
    BY <1>2 DEF IInv
  <2>5. Closing'
    BY <1>0, <1>2 DEF IInv, NothingOutlivesTheObject
  <2>. QED
    BY <2>1, <2>2, <2>3, <2>4, <2>5 DEF IInv
<1>3. CASE ShutdownMark(d, round) /\ ~Left(d, round)
  <2>1. /\ gui[1] = "mark" /\ gui[2] = d /\ gui[3] = round
        /\ UNCHANGED <<pc, m_ctrlState, m_isKernelConnected, commands>>
        /\ gui'[1] = "join" /\ gui'[2] = d /\ gui'[3] = round
        /\ comm'[d].kill /\ comm'[d].thread = comm[d].thread
        /\ comm'[d].open = comm[d].open /\ comm[d].thread # "none"
        /\ \A e \in Devices \ {d} : comm'[e] = comm[e]
    BY <1>3, <1>5, MarkFacts
  <2>2. PcOK' /\ CommandsOK'
    BY <2>1 DEF IInv, Devices
  <2>3. MarkOK'
    BY <2>1 DEF IInv
  <2>4. OpensOnce'
    BY <2>1 DEF IInv, Devices
  <2>5. Closing'
    BY <1>0, <2>1 DEF IInv, Devices
  <2>. QED
    BY <2>2, <2>3, <2>4, <2>5 DEF IInv
<1>4. ShutdownMark(d, round) /\ Left(d, round) => IInv'
  BY <1>2, <1>5, MarkFacts
<1>6. ShutdownJoin(d, round) => IInv'
  BY <1>2, <1>5, JoinFacts
<1>. QED
  BY <1>1, <1>3, <1>4, <1>6

-----------------------------------------------------------------------------
(* The other threads.                                                      *)

\* What opening, failing and starting make of a device's class.
LEMMA OpenFacts ==
    ASSUME comm \in [Devices -> Classes], NEW d \in Devices, NEW k \in BOOLEAN
    PROVE  /\ LET c == [comm EXCEPT ![d].open = TRUE] IN
                /\ c[d].open /\ c[d].kill = comm[d].kill /\ c[d].thread = comm[d].thread
                /\ \A e \in Devices \ {d} : c[e] = comm[e]
           /\ LET c == [comm EXCEPT ![d].kill = TRUE] IN
                /\ c[d].kill /\ c[d].open = comm[d].open /\ c[d].thread = comm[d].thread
                /\ \A e \in Devices \ {d} : c[e] = comm[e]
           /\ LET c == [comm EXCEPT ![d].kill = FALSE, ![d].thread = "running"] IN
                /\ ~c[d].kill /\ c[d].open = comm[d].open /\ c[d].thread = "running"
                /\ \A e \in Devices \ {d} : c[e] = comm[e]
           /\ LET c == [comm EXCEPT ![d].thread = "exited"] IN
                /\ c[d].kill = comm[d].kill /\ c[d].open = comm[d].open /\ c[d].thread = "exited"
                /\ \A e \in Devices \ {d} : c[e] = comm[e]
  BY DEF Classes

\* The DroneCtrl thread, where it touches no device.
LEMMA ThreadAlone ==
    ASSUME IInv, TypeOK',
           \/ CheckKill \/ Idle \/ waitDroneControlEvent \/ Connect \/ Connected
           \/ \E state \in Configuring : Configure(state)
    PROVE  IInv'
<1>. USE DEF PcOK, MarkOK, Joining, OpensOnce, NoThreads, CommandsOK, Second, Closing,
             NothingOutlivesTheObject, Configuring
<1>1. CASE CheckKill
  BY <1>1 DEF CheckKill, IInv, droneVars, objectVars
<1>2. CASE Idle
  BY <1>2 DEF Idle, IInv, droneVars, objectVars
<1>3. CASE waitDroneControlEvent
  BY <1>3 DEF waitDroneControlEvent, IInv, objectVars
<1>4. CASE Connect
  BY <1>4 DEF Connect, IInv, droneVars, objectVars
<1>5. CASE Connected
  BY <1>5 DEF Connected, IInv, objectVars
<1>6. ASSUME NEW state \in Configuring, Configure(state) PROVE IInv'
  <2>1. /\ pc = "switch" /\ pc' = "check" /\ m_ctrlState = state
        /\ m_ctrlState' \in {"DRONE_CTRL_IDLE"} \cup Configuring
        /\ UNCHANGED <<gui, comm, m_isKernelConnected, m_threadKill>>
    BY <1>6 DEF Configure, Follows
  <2>. QED
    BY <2>1 DEF IInv
<1>. QED
  BY <1>1, <1>2, <1>3, <1>4, <1>5, <1>6

\* The DroneCtrl thread opens the devices and starts their threads.
LEMMA ThreadOpens ==
    ASSUME IInv, TypeOK', NEW d \in Devices, openDEV(d) \/ OpenFails(d) \/ initThread(d)
    PROVE  IInv'
<1>. USE DEF PcOK, MarkOK, Joining, OpensOnce, NoThreads, CommandsOK, Second, Closing,
             NothingOutlivesTheObject, Devices
<1>1. comm \in [Devices -> Classes] /\ gui \in GuiStates /\ comm[d].thread = "none"
  BY DEF IInv, TypeOK, openDEV, OpenFails, initThread, Opening, Starting
<1>2. CASE openDEV(d)
  <2>1. /\ comm'[d].open /\ comm'[d].kill = comm[d].kill /\ comm'[d].thread = comm[d].thread
        /\ \A e \in Devices \ {d} : comm'[e] = comm[e]
        /\ UNCHANGED <<gui, m_ctrlState, m_isKernelConnected, m_threadKill, commands>>
    BY <1>1, <1>2, OpenFacts DEF openDEV, droneVars
  <2>2. \/ d = "commander" /\ pc = "open commander" /\ pc' = "start commander"
        \/ d = "watchdog" /\ pc = "open watchdog" /\ pc' = "start watchdog"
    BY <1>2 DEF openDEV, Opening, Starting
  <2>. QED
    BY <2>1, <2>2 DEF IInv
<1>3. CASE OpenFails(d)
  <2>1. /\ comm'[d].kill /\ comm'[d].open = comm[d].open /\ comm'[d].thread = comm[d].thread
        /\ \A e \in Devices \ {d} : comm'[e] = comm[e]
        /\ UNCHANGED <<gui, m_threadKill, commands>>
        /\ m_ctrlState' = "DRONE_CTRL_IDLE" /\ m_isKernelConnected' = FALSE /\ pc' = "check"
    BY <1>1, <1>3, OpenFacts DEF OpenFails
  <2>2. \/ d = "commander" /\ pc = "open commander"
        \/ d = "watchdog" /\ pc = "open watchdog"
    BY <1>3 DEF OpenFails, Opening
  <2>. QED
    BY <1>1, <2>1, <2>2 DEF IInv, Configuring
<1>4. CASE initThread(d)
  <2>1. ~Joining(d)
    <3>1. Joining(d) => gui = <<"join", d, gui[3]>> /\ gui[3] \in 1 .. 2
      BY <1>1, GuiTriple
    <3>. QED
      BY <1>4, <3>1 DEF initThread
  <2>2. /\ ~comm'[d].kill /\ comm'[d].open = comm[d].open /\ comm'[d].thread = "running"
        /\ \A e \in Devices \ {d} : comm'[e] = comm[e]
        /\ UNCHANGED <<gui, m_ctrlState, m_isKernelConnected, m_threadKill, commands>>
    BY <1>1, <1>4, OpenFacts DEF initThread, droneVars
  <2>3. \/ d = "commander" /\ pc = "start commander" /\ pc' = "open watchdog"
        \/ d = "watchdog" /\ pc = "start watchdog" /\ pc' = "connected"
    BY <1>4 DEF initThread, Starting
  <2>. QED
    BY <2>1, <2>2, <2>3 DEF IInv
<1>. QED
  BY <1>2, <1>3, <1>4

\* A thread that is marked leaves.
LEMMA ExitIInv ==
    ASSUME IInv, TypeOK', NEW d \in Devices, ThreadExit(d)
    PROVE  IInv'
<1>1. comm \in [Devices -> Classes]
  BY DEF IInv, TypeOK
<1>2. /\ comm[d].kill /\ comm[d].thread = "running" /\ comm'[d].thread = "exited"
      /\ comm'[d].kill = comm[d].kill /\ comm'[d].open = comm[d].open
      /\ \A e \in Devices \ {d} : comm'[e] = comm[e]
      /\ UNCHANGED <<gui, pc, m_ctrlState, m_isKernelConnected, m_threadKill, commands>>
  BY <1>1, OpenFacts DEF ThreadExit, droneVars
<1>. QED
  BY <1>2 DEF IInv, PcOK, MarkOK, Joining, OpensOnce, NoThreads, CommandsOK, Second, Closing,
     NothingOutlivesTheObject, Devices

\* Every step keeps the invariant.
LEMMA NextIInv == IInv /\ [Next]_vars => IInv'
<1>. SUFFICES ASSUME IInv, [Next]_vars PROVE IInv'
  OBVIOUS
<1>1. TypeOK'
  BY NextType DEF IInv
<1>2. CASE New \/ Delete
  BY <1>1, <1>2, GuiAlone
<1>3. CASE GuiGoesOn
  BY <1>1, <1>3, GuiAlone, GuiShutsDown DEF GuiGoesOn, Devices
<1>4. CASE DroneCtrlThread
  BY <1>1, <1>4, ThreadAlone, ThreadOpens DEF DroneCtrlThread
<1>5. ASSUME NEW d \in Devices, ThreadExit(d) PROVE IInv'
  BY <1>1, <1>5, ExitIInv
<1>6. CASE WatchdogSignal \/ UNCHANGED vars
  <2>1. UNCHANGED <<gui, pc, comm, m_ctrlState, m_isKernelConnected, m_threadKill, commands>>
    BY <1>6 DEF WatchdogSignal, vars, droneVars
  <2>. QED
    BY <1>1, <2>1 DEF IInv, PcOK, MarkOK, Joining, OpensOnce, NoThreads, CommandsOK, Second,
       Closing, NothingOutlivesTheObject
<1>. QED
  BY <1>2, <1>3, <1>4, <1>5, <1>6 DEF Next

\* It holds in every state.
LEMMA AlwaysIInv == Spec => []IInv
  BY InitIInv, NextIInv, PTL DEF Spec

-----------------------------------------------------------------------------
\* Every variable keeps its type, and the threads are where they can be.
THEOREM TypeCorrect == Spec => []TypeOK
<1>1. IInv => TypeOK
  BY DEF IInv
<1>. QED  BY <1>1, AlwaysIInv, PTL

\* No thread of an object is left running or unjoined and no device open, for any
\* number of objects, however early DELETE comes and whichever open fails.
THEOREM NothingIsLeft == Spec => []NothingOutlivesTheObject
<1>1. IInv => NothingOutlivesTheObject
  BY DEF IInv, Closing
<1>. QED  BY <1>1, AlwaysIInv, PTL

\* Single mode and the reset are the last commands of an object that sent any.
THEOREM FpgaIsReset == Spec => []LeavesFpgaReset
<1>1. IInv => LeavesFpgaReset
  <2>1. gui = <<"none">> => gui[1] = "none"
    BY OneIsFirst
  <2>. QED
    BY <2>1 DEF IInv, PcOK, CommandsOK, LeavesFpgaReset
<1>. QED  BY <1>1, AlwaysIInv, PTL

=============================================================================
