-------------------------- MODULE CommanderThread --------------------------
(***************************************************************************)
(* The Commander thread of the application (firmware/arm/app/system/src/   *)
(* KernelComms/CharDevice/Commander.cpp) and the GUI thread that drives    *)
(* it.  The GUI fills the shared frame m_Tx_CommanderVector, stores a      *)
(* state and raises an event; the thread acts on the state and stores its  *)
(* own next state into the same variable.  Neither the frame nor the state *)
(* is protected by a lock both sides take.                                 *)
(*                                                                         *)
(* IO_COM_WRITE and IO_COM_READ have no setter in the repository.          *)
(***************************************************************************)
EXTENDS Naturals, Sequences

CONSTANTS
    Requests,       \* the states the GUI's buttons ask for, besides frames
    MaxRequests,    \* bound: requests and frames of the GUI
    WriteMayFail,   \* TRUE: write() may return -1
    KernelAnswers   \* TRUE: every read() returns in the end

GuiStates == {"IO_COM_IDLE", "IO_COM_READ_ONLY", "IO_COM_GET_CALIBRATION",
              "IO_COM_SET_CALIBRATION"}

ASSUME CommanderAssumption ==
    /\ Requests \subseteq GuiStates
    /\ MaxRequests \in Nat
    /\ WriteMayFail \in BOOLEAN /\ KernelAnswers \in BOOLEAN

VARIABLES
    m_ioState,          \* what the thread is to do next
    m_stateChanged,     \* the event's flag
    m_threadKill,
    m_calibrationCount, \* axes already put into a frame, 0 when none is under way
    tx,                 \* m_Tx_CommanderVector
    pc,                 \* where the Commander thread is
    gui,                \* where the GUI thread is
    wanted,             \* the state the GUI is about to store
    asked,              \* history: requests begun
    disturbed,          \* history: one was begun while the thread was at work, or
                        \* a write failed
    posted,             \* history: frames the GUI completed
    executed,           \* history: the GUI's frames written to the driver, oldest first
    axes                \* history: the offsets written to the driver, oldest first

threadVars == <<m_calibrationCount, executed, axes>>
askVars    == <<wanted, asked, disturbed, posted>>
guiVars    == <<gui, askVars>>
vars == <<m_ioState, m_stateChanged, m_threadKill, tx, pc, threadVars, guiVars>>

\* Frames: of the GUI, numbered; an offset of the thread; zeros; and the
\* placeholders the GUI puts in before it has checked the user's input.
GuiFrame(i)  == [from |-> "gui", n |-> i]
Offset(axis) == [from |-> "calibration", n |-> axis]
Zeros        == [from |-> "nobody", n |-> 0]
Placeholder  == [from |-> "placeholder", n |-> 0]

Init ==
    /\ m_ioState = "IO_COM_IDLE" /\ m_stateChanged = FALSE /\ m_threadKill = FALSE
    /\ m_calibrationCount = 0 /\ tx = Zeros
    /\ pc = "check" /\ gui = "idle" /\ wanted = "IO_COM_IDLE"
    /\ asked = 0 /\ disturbed = FALSE /\ posted = 0 /\ executed = <<>> /\ axes = <<>>

\* The thread sleeps in waitCommanderEvent and no event is pending.
Asleep == pc = "wait" /\ ~m_stateChanged

-----------------------------------------------------------------------------
(* The GUI thread.                                                         *)

Ask ==
    /\ gui = "idle"
    /\ asked < MaxRequests
    /\ asked' = asked + 1
    /\ disturbed' = (disturbed \/ ~Asleep)

\* i2c_execute and its kin write placeholders before they read the fields.
GuiPlaceholder ==
    /\ Ask
    /\ tx' = Placeholder
    /\ gui' = "fill"
    /\ UNCHANGED <<m_ioState, m_stateChanged, m_threadKill, pc, threadVars, wanted, posted>>

\* The user's input is out of range: the placeholder stays.
GuiReject ==
    /\ gui = "fill"
    /\ gui' = "idle"
    /\ UNCHANGED <<m_ioState, m_stateChanged, m_threadKill, tx, pc, threadVars, askVars>>

Fill ==
    /\ posted' = posted + 1
    /\ tx' = GuiFrame(posted + 1)
    /\ wanted' = "IO_COM_WRITE_ONLY"
    /\ gui' = "store"

GuiFill ==
    /\ gui = "fill"
    /\ Fill
    /\ UNCHANGED <<m_ioState, m_stateChanged, m_threadKill, pc, threadVars, asked, disturbed>>

\* interruptVector_execute fills the frame without a placeholder.
GuiVector ==
    /\ Ask
    /\ Fill
    /\ UNCHANGED <<m_ioState, m_stateChanged, m_threadKill, pc, threadVars>>

\* A button that asks for a state.
GuiRequest(state) ==
    /\ Ask
    /\ wanted' = state
    /\ gui' = "store"
    /\ UNCHANGED <<m_ioState, m_stateChanged, m_threadKill, tx, pc, threadVars, posted>>

\* setCommanderState, first the state ...
setCommanderState ==
    /\ gui = "store"
    /\ m_ioState' = wanted
    /\ gui' = "trigger"
    /\ UNCHANGED <<m_stateChanged, m_threadKill, tx, pc, threadVars, askVars>>

\* Mutant: the event of a shutdown is forgotten.
triggerUnlessKilled ==
    /\ gui \in {"trigger", "killed"}
    /\ m_stateChanged' = (gui = "trigger" \/ m_stateChanged)
    /\ gui' = IF gui = "trigger" THEN "idle" ELSE "join"
    /\ UNCHANGED <<m_ioState, m_threadKill, tx, pc, threadVars, askVars>>

\* Mutant: the condition variable is notified and its flag left down.
triggerWithoutFlag ==
    /\ gui \in {"trigger", "killed"}
    /\ gui' = IF gui = "trigger" THEN "idle" ELSE "join"
    /\ UNCHANGED <<m_ioState, m_stateChanged, m_threadKill, tx, pc, threadVars, askVars>>

\* ... then, under the event's mutex, the flag.
triggerCommanderEvent ==
    /\ gui \in {"trigger", "killed"}
    /\ m_stateChanged' = TRUE
    /\ gui' = IF gui = "trigger" THEN "idle" ELSE "join"
    /\ UNCHANGED <<m_ioState, m_threadKill, tx, pc, threadVars, askVars>>

\* shutdownThread, which the GUI thread runs when it deletes its DroneCtrl.
shutdownThread ==
    /\ gui = "idle"
    /\ m_threadKill' = TRUE
    /\ gui' = "killed"
    /\ UNCHANGED <<m_ioState, m_stateChanged, tx, pc, threadVars, askVars>>

Join ==
    /\ gui = "join"
    /\ pc = "exit"
    /\ gui' = "joined"
    /\ UNCHANGED <<m_ioState, m_stateChanged, m_threadKill, tx, pc, threadVars, askVars>>

GuiGoesOn == GuiReject \/ GuiFill \/ setCommanderState \/ triggerCommanderEvent \/ Join

-----------------------------------------------------------------------------
(* CommanderThread.                                                        *)

CheckKill ==
    /\ pc = "check"
    /\ pc' = IF m_threadKill THEN "exit" ELSE "switch"
    /\ UNCHANGED <<m_ioState, m_stateChanged, m_threadKill, tx, threadVars, guiVars>>

Case(state) ==
    CASE state = "IO_COM_IDLE"            -> "wait"
      [] state = "IO_COM_WRITE_ONLY"      -> "write"
      [] state = "IO_COM_SET_CALIBRATION" -> "offset"
      [] OTHER                            -> "read"

Switch ==
    /\ pc = "switch"
    /\ pc' = Case(m_ioState)
    /\ UNCHANGED <<m_ioState, m_stateChanged, m_threadKill, tx, threadVars, guiVars>>

waitCommanderEvent ==
    /\ pc = "wait"
    /\ m_stateChanged
    /\ m_stateChanged' = FALSE
    /\ pc' = "check"
    /\ UNCHANGED <<m_ioState, m_threadKill, tx, threadVars, guiVars>>

\* Mutant: the frame is zeroed before it is written.
WriteZeroed ==
    /\ pc = "write"
    /\ tx' = Zeros
    /\ pc' = "after"
    /\ UNCHANGED <<m_ioState, m_stateChanged, m_threadKill, threadVars, guiVars>>

\* write() takes the frame as it is by now.
Write ==
    /\ pc = "write"
    /\ executed' = IF tx.from = "gui" THEN Append(executed, tx.n) ELSE executed
    /\ axes' = IF tx.from = "calibration" THEN Append(axes, tx.n) ELSE axes
    /\ pc' = "clear"
    /\ UNCHANGED <<m_ioState, m_stateChanged, m_threadKill, m_calibrationCount, tx, guiVars>>

WriteFails ==
    /\ pc = "write"
    /\ WriteMayFail
    /\ disturbed' = TRUE
    /\ pc' = "after"
    /\ UNCHANGED <<m_ioState, m_stateChanged, m_threadKill, tx, threadVars, gui, wanted, asked, posted>>

\* Mutant: the frame stays after it was written.
ClearForgotten ==
    /\ pc = "clear"
    /\ pc' = "after"
    /\ UNCHANGED <<m_ioState, m_stateChanged, m_threadKill, tx, threadVars, guiVars>>

\* The frame is zeroed, whatever the GUI has put into it meanwhile.
Clear ==
    /\ pc = "clear"
    /\ tx' = Zeros
    /\ pc' = "after"
    /\ UNCHANGED <<m_ioState, m_stateChanged, m_threadKill, threadVars, guiVars>>

\* Mutant: a calibration under way is not continued.
AfterWriteStops ==
    /\ pc = "after"
    /\ m_ioState' = "IO_COM_IDLE"
    /\ pc' = "check"
    /\ UNCHANGED <<m_stateChanged, m_threadKill, tx, threadVars, guiVars>>

\* The thread's own next state overwrites what the GUI may have stored.
AfterWrite ==
    /\ pc = "after"
    /\ m_ioState' = IF 0 < m_calibrationCount THEN "IO_COM_SET_CALIBRATION"
                                              ELSE "IO_COM_IDLE"
    /\ pc' = "check"
    /\ UNCHANGED <<m_stateChanged, m_threadKill, tx, threadVars, guiVars>>

\* The blocking read() of IO_COM_READ_ONLY and IO_COM_GET_CALIBRATION.
ReadReturns ==
    /\ pc = "read"
    /\ m_ioState' = "IO_COM_IDLE"
    /\ pc' = "check"
    /\ UNCHANGED <<m_stateChanged, m_threadKill, tx, threadVars, guiVars>>

\* IO_COM_SET_CALIBRATION puts the next axis into the frame; the thread's
\* three stores race only with a GUI that writes the frame or the state.
SetOffset ==
    /\ pc = "offset"
    /\ tx' = Offset(m_calibrationCount)
    /\ m_calibrationCount' = (m_calibrationCount + 1) % 3
    /\ pc' = "offer"
    /\ UNCHANGED <<m_ioState, m_stateChanged, m_threadKill, executed, axes, guiVars>>

OfferOffset ==
    /\ pc = "offer"
    /\ m_ioState' = "IO_COM_WRITE_ONLY"
    /\ pc' = "check"
    /\ UNCHANGED <<m_stateChanged, m_threadKill, tx, threadVars, guiVars>>

Thread ==
    \/ CheckKill \/ Switch \/ waitCommanderEvent \/ Write \/ WriteFails \/ Clear
    \/ AfterWrite \/ SetOffset \/ OfferOffset

-----------------------------------------------------------------------------
Next ==
    \/ Thread \/ ReadReturns \/ GuiGoesOn
    \/ GuiPlaceholder \/ GuiVector \/ shutdownThread
    \/ \E state \in Requests : GuiRequest(state)

\* Both threads are scheduled and a call of the GUI runs to its end.  A
\* read() returns only when something wakes the driver's reader.
Fairness ==
    /\ WF_vars(Thread)
    /\ WF_vars(GuiGoesOn)
    /\ WF_vars(KernelAnswers /\ ReadReturns)

Spec == Init /\ [][Next]_vars /\ Fairness

-----------------------------------------------------------------------------
(* Properties.                                                             *)

Frames ==
    {GuiFrame(i) : i \in 1 .. posted} \cup {Offset(a) : a \in 0 .. 2} \cup {Zeros, Placeholder}

\* Every variable keeps its type; m_calibrationCount stays below three, so
\* the branch "Something wrong with calibration offset" is never taken.
TypeOK ==
    /\ m_ioState \in GuiStates \cup {"IO_COM_WRITE_ONLY"}
    /\ wanted \in GuiStates \cup {"IO_COM_WRITE_ONLY"}
    /\ m_stateChanged \in BOOLEAN /\ m_threadKill \in BOOLEAN
    /\ m_calibrationCount \in 0 .. 2
    /\ asked \in Nat /\ disturbed \in BOOLEAN /\ posted \in Nat
    /\ tx \in Frames
    /\ pc \in {"check", "switch", "wait", "write", "clear", "after", "read",
               "offset", "offer", "exit"}
    /\ gui \in {"idle", "fill", "store", "trigger", "killed", "join", "joined"}
    /\ executed \in Seq(Nat) /\ axes \in Seq(0 .. 2)

\* No request is slept over: when the thread sleeps with no event pending and
\* the GUI is not about to raise one, nothing is left to be done.
SleepsOnlyWhenIdle ==
    Asleep /\ gui # "trigger" => m_ioState = "IO_COM_IDLE"

\* Whatever is overwritten, zeroed or retried, a frame of the GUI reaches the
\* driver at most once and never after a later one.
CS == INSTANCE CommandService
ImplementsCommandService == CS!Spec

\* While the GUI asks only of a thread at rest and no write fails, the offsets
\* of a calibration are written x, y, z, each once, and when the thread is at
\* rest a calibration is complete.
CalibrationIsWhole ==
    ~disturbed =>
        /\ \A k \in DOMAIN axes : axes[k] = (k - 1) % 3
        /\ Asleep /\ m_ioState = "IO_COM_IDLE" => Len(axes) % 3 = 0

\* ... and a frame the GUI completed ("Set Interrupt Vector", gui.cpp:1096, and
\* its kin) reaches the driver unless the thread is shut down.
EveryFrameIsWritten ==
    \A i \in 1 .. MaxRequests :
        posted >= i ~> \/ disturbed \/ m_threadKill
                       \/ \E k \in DOMAIN executed : executed[k] = i

\* Deleting the Commander ends: the event gets the thread out of its wait
\* ("so we must trigger event to escape from IDLE state", Commander.cpp:231-233)
\* and it is joined.
ShutdownEnds == m_threadKill ~> gui = "joined"
=============================================================================
