---------------------------- MODULE StateMachine ----------------------------
(***************************************************************************)
(* The state machine thread of the FPGA driver (firmware/arm/src/          *)
(* stateMachine.c) and its one-slot mailbox.                               *)
(*                                                                         *)
(* commanderWrite posts a command by overwriting Process.currentState and  *)
(* raising Process.stateChanged; the thread sleeps on that flag, lowers    *)
(* it, copies the slot to itself with                                      *)
(*     Process.currentState = getStateMachine();                           *)
(* whose read is under the spinlock and whose write is not, runs the case  *)
(* the slot names and posts the follow-up state into the same slot.  Every *)
(* step at which a writer may slip in between is a step here.              *)
(***************************************************************************)
EXTENDS Naturals, Sequences

CONSTANTS
    Commands,   \* the states commanderWrite posts (charDevice.c:292-361)
    MaxPosts,   \* bound: how many commands are written
    Paced       \* TRUE: a command is written only once the machine settled

\* The states commanderWrite can put into the slot.
UserStates ==
    {"SM_DMA_NORMAL", "SM_DMA_SENSOR", "SM_DMA_SINGLE", "SM_DMA_CUSTOM",
     "SM_RAMDISK_CONFIG", "SM_RAMDISK_CLEAR", "SM_PRIMARY_SPI",
     "SM_FPGA_RESET", "SM_FPGA_F1", "SM_FPGA_F2"}

SmStates == UserStates \cup {"SM_IDLE", "SM_DONE"}

ASSUME SmAssumption ==
    /\ Commands \subseteq UserStates
    /\ MaxPosts \in Nat
    /\ Paced \in BOOLEAN

VARIABLES
    currentState,   \* Process.currentState: the slot
    origin,         \* history: number of the command in the slot, 0 if the thread put it there
    stateChanged,   \* Process.stateChanged
    shouldStop,     \* kthread_should_stop()
    pc,             \* where the thread is
    got,            \* what getStateMachine returned: [state, origin]
    handling,       \* the state whose case the thread runs
    posted,         \* history: number of commands written
    executed        \* history: numbers of the commands whose case ran, oldest first

vars == <<currentState, origin, stateChanged, shouldStop, pc, got, handling,
          posted, executed>>

slot == [state |-> currentState, origin |-> origin]

\* The thread sleeps, and nothing will wake it.
Settled == pc = "wait" /\ ~stateChanged

\* Mutant: the flag is forgotten.
setStateMachineUnsignalled(newState, from) ==
    /\ currentState' = newState
    /\ origin' = from
    /\ stateChanged' = stateChanged

(***************************************************************************)
(* setStateMachine: slot and flag change together under the spinlock.      *)
(***************************************************************************)
setStateMachine(newState, from) ==
    /\ currentState' = newState
    /\ origin' = from
    /\ stateChanged' = TRUE

\* stateMachineInit posts SM_IDLE before the thread runs for the first time.
Init ==
    /\ currentState = "SM_IDLE"
    /\ origin = 0
    /\ stateChanged = TRUE
    /\ shouldStop = FALSE
    /\ pc = "wait"
    /\ got = [state |-> "SM_IDLE", origin |-> 0]
    /\ handling = "SM_IDLE"
    /\ posted = 0
    /\ executed = <<>>

\* commanderWrite recognises a command and posts it.
Post(c) ==
    /\ posted < MaxPosts
    /\ ~shouldStop
    /\ Paced => Settled
    /\ posted' = posted + 1
    /\ setStateMachine(c, posted + 1)
    /\ UNCHANGED <<shouldStop, pc, got, handling, executed>>

\* stateMachineDestroy: kthread_stop asks the thread to leave and wakes it.
stateMachineDestroy ==
    /\ ~shouldStop
    /\ shouldStop' = TRUE
    /\ UNCHANGED <<currentState, origin, stateChanged, pc, got, handling,
                   posted, executed>>

-----------------------------------------------------------------------------
(* stateMachineThread, one action per step another process can see.        *)

\* wait_event_interruptible returns and no stop was asked for.
Wake ==
    /\ pc = "wait"
    /\ stateChanged
    /\ ~shouldStop
    /\ pc' = "clear"
    /\ UNCHANGED <<currentState, origin, stateChanged, shouldStop, got,
                   handling, posted, executed>>

\* Mutant: the wait ends on stateChanged alone.
ExitWhenSignalled ==
    /\ pc = "wait"
    /\ shouldStop
    /\ stateChanged
    /\ pc' = "exit"
    /\ UNCHANGED <<currentState, origin, stateChanged, shouldStop, got,
                   handling, posted, executed>>

\* kthread_should_stop() holds, in the loop condition or after the wait.
Exit ==
    /\ pc = "wait"
    /\ shouldStop
    /\ pc' = "exit"
    /\ UNCHANGED <<currentState, origin, stateChanged, shouldStop, got,
                   handling, posted, executed>>

ClearFlag ==
    /\ pc = "clear"
    /\ stateChanged' = FALSE
    /\ pc' = "get"
    /\ UNCHANGED <<currentState, origin, shouldStop, got, handling, posted,
                   executed>>

getStateMachine ==
    /\ pc = "get"
    /\ got' = slot
    /\ pc' = "store"
    /\ UNCHANGED <<currentState, origin, stateChanged, shouldStop, handling,
                   posted, executed>>

\* The unlocked write back: it undoes a command posted since the read.
StoreBack ==
    /\ pc = "store"
    /\ currentState' = got.state
    /\ origin' = got.origin
    /\ pc' = "switch"
    /\ UNCHANGED <<stateChanged, shouldStop, got, handling, posted, executed>>

\* Mutant: SM_RAMDISK_CLEAR has lost its case.
RunCaseWithoutClear(s) ==
    /\ handling' = s.state
    /\ executed' = IF s.origin = 0 \/ s.state = "SM_RAMDISK_CLEAR"
                   THEN executed ELSE Append(executed, s.origin)
    /\ pc' = IF s.state = "SM_IDLE" THEN "wait" ELSE "set"

\* The case of state s runs; SM_IDLE's is empty and posts nothing.
RunCase(s) ==
    /\ handling' = s.state
    /\ executed' = IF s.origin = 0 THEN executed
                                   ELSE Append(executed, s.origin)
    /\ pc' = IF s.state = "SM_IDLE" THEN "wait" ELSE "set"

\* switch(Process.currentState) is an unlocked read: the compiler may use
\* the value just stored or load the slot again.
Switch ==
    /\ pc = "switch"
    /\ \E s \in {got, slot} : RunCase(s)
    /\ UNCHANGED <<currentState, origin, stateChanged, shouldStop, got, posted>>

\* Mutant: SM_DONE posts itself.
FollowUpForever(s) == IF s = "SM_RAMDISK_CONFIG" THEN "SM_PRIMARY_SPI" ELSE "SM_DONE"

\* The state a case posts when it has done its work.
FollowUp(s) ==
    CASE s = "SM_DONE"           -> "SM_IDLE"
      [] s = "SM_RAMDISK_CONFIG" -> "SM_PRIMARY_SPI"
      [] OTHER                   -> "SM_DONE"

\* Mutant: a follow-up that spares the slot when a command has been posted.
SetFollowUpUnlessSignalled ==
    /\ pc = "set"
    /\ IF stateChanged THEN UNCHANGED <<currentState, origin, stateChanged>>
                       ELSE setStateMachine(FollowUp(handling), 0)
    /\ pc' = "wait"
    /\ UNCHANGED <<shouldStop, got, handling, posted, executed>>

SetFollowUp ==
    /\ pc = "set"
    /\ setStateMachine(FollowUp(handling), 0)
    /\ pc' = "wait"
    /\ UNCHANGED <<shouldStop, got, handling, posted, executed>>

Thread == Wake \/ Exit \/ ClearFlag \/ getStateMachine \/ StoreBack \/ Switch \/ SetFollowUp

Next == Thread \/ stateMachineDestroy \/ \E c \in Commands : Post(c)

\* The kernel schedules the thread; nobody is obliged to write or to unload.
Spec == Init /\ [][Next]_vars /\ WF_vars(Thread)

-----------------------------------------------------------------------------
(* Properties.                                                             *)

SlotTypes == [state : SmStates, origin : Nat]

\* Every variable keeps its type; in particular the slot only ever holds a
\* state that the switch has a case for, so its default branch (which would
\* end the thread with -EINVAL) is not taken.
TypeOK ==
    /\ currentState \in SmStates
    /\ origin \in 0 .. posted
    /\ stateChanged \in BOOLEAN
    /\ shouldStop \in BOOLEAN
    /\ pc \in {"wait", "clear", "get", "store", "switch", "set", "exit"}
    /\ got \in [state : SmStates, origin : 0 .. posted]
    /\ handling \in SmStates
    /\ posted \in Nat
    /\ executed \in Seq(Nat)

\* A thread that nothing will wake left nothing behind: whatever writes, flag
\* updates and write backs were interleaved, when it sleeps with the flag
\* down the slot holds SM_IDLE (no state is stranded in the mailbox).
SleepsOnlyWhenIdle == Settled => currentState = "SM_IDLE"

\* Commands are executed at most once and in the order of their writes, even
\* though the slot is written by both sides and re-written by StoreBack.
CS == INSTANCE CommandService
ImplementsCommandService == CS!Spec

\* While writers wait for the machine to settle, no command is lost: at most
\* one is outstanding, and it is still in the slot or in the thread's hands.
NothingLostWhenPaced ==
    Paced =>
        \/ posted = Len(executed)
        \/ /\ posted = Len(executed) + 1
           /\ origin = posted

\* Once writers stop, the thread winds down to SM_IDLE and sleeps, or exits:
\* the follow-up states cannot keep it running.
WindsDown == <>[](Settled \/ pc = "exit")

\* kthread_stop returns: a thread asked to stop leaves its loop.
StopsWhenAsked == shouldStop ~> pc = "exit"

\* A write of a command has the effect the handler's comments give it ("Re-
\* configure DMA Engine", charDevice.c:294, 300, 306): its case runs, unless the
\* module is unloaded first.
EveryCommandRuns ==
    \A i \in 1 .. MaxPosts :
        posted >= i ~> (shouldStop \/ \E k \in DOMAIN executed : executed[k] = i)
=============================================================================
