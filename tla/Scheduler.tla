------------------------------ MODULE Scheduler ------------------------------
(***************************************************************************)
(* The scheduler of firmware/arm/src/scheduler.c: an interrupt every 20 ms *)
(* reads its state, may set it, and queues a work item; the worker reads   *)
(* the state, and sets the next one at the end of its case.  The counter   *)
(* that paces the printing of the allocations is left out.                 *)
(***************************************************************************)
VARIABLES
    schState,           \* Process.currentState
    configDone,
    timerIsr,           \* where InterruptFromFPGA_TimerISR is
    timerQueued,        \* the timer's work item is pending
    timerWorker         \* state the worker has read, or "idle"

schVars == <<schState, configDone, timerIsr, timerQueued, timerWorker>>

SchStates == {"SCH_IDLE", "SCH_INIT", "SCH_CONFIG", "SCH_MAIN_20MS"}

SchInit ==
    /\ schState = "SCH_IDLE"
    /\ configDone = FALSE
    /\ timerIsr = "out"
    /\ timerQueued = FALSE
    /\ timerWorker = "idle"

schedulerInit ==
    /\ schState' = "SCH_INIT"
    /\ UNCHANGED <<configDone, timerIsr, timerQueued, timerWorker>>

\* Mutant: a scheduler that is not configured is ready when it is idle.
ReadyUnconfigured == schState = "SCH_IDLE"

isShedulerReady == configDone /\ schState = "SCH_IDLE"

TimerTick ==
    /\ timerIsr = "out"
    /\ timerIsr' = IF isShedulerReady THEN "set" ELSE "queue"
    /\ UNCHANGED <<schState, configDone, timerQueued, timerWorker>>

TimerSet ==
    /\ timerIsr = "set"
    /\ schState' = "SCH_MAIN_20MS"
    /\ timerIsr' = "queue"
    /\ UNCHANGED <<configDone, timerQueued, timerWorker>>

\* A work item that is pending already is left alone.
TimerQueue ==
    /\ timerIsr = "queue"
    /\ timerQueued' = TRUE
    /\ timerIsr' = "out"
    /\ UNCHANGED <<schState, configDone, timerWorker>>

RunBegins ==
    /\ timerQueued /\ timerWorker = "idle"
    /\ timerQueued' = FALSE
    /\ timerWorker' = schState
    /\ UNCHANGED <<schState, configDone, timerIsr>>

NextState(state) ==
    CASE state = "SCH_INIT"      -> "SCH_CONFIG"
      [] state = "SCH_CONFIG"    -> "SCH_MAIN_20MS"
      [] state = "SCH_MAIN_20MS" -> "SCH_IDLE"
      [] OTHER                   -> schState

\* CONFIG sets configDone before it sets the next state.
RunConfigDone ==
    /\ timerWorker = "SCH_CONFIG" /\ ~configDone
    /\ configDone' = TRUE
    /\ UNCHANGED <<schState, timerIsr, timerQueued, timerWorker>>

\* Mutant: SCH_INIT waits for the configuration.
RunEndsConfigured ==
    /\ timerWorker # "idle"
    /\ timerWorker \in {"SCH_INIT", "SCH_CONFIG"} => configDone
    /\ schState' = NextState(timerWorker)
    /\ timerWorker' = "idle"
    /\ UNCHANGED <<configDone, timerIsr, timerQueued>>

RunEnds ==
    /\ timerWorker # "idle"
    /\ timerWorker = "SCH_CONFIG" => configDone
    /\ schState' = NextState(timerWorker)
    /\ timerWorker' = "idle"
    /\ UNCHANGED <<configDone, timerIsr, timerQueued>>

-----------------------------------------------------------------------------
SchTypeOK ==
    /\ schState \in SchStates /\ configDone \in BOOLEAN /\ timerQueued \in BOOLEAN
    /\ timerIsr \in {"out", "set", "queue"}
    /\ timerWorker \in SchStates \cup {"idle"}

\* The interrupt and the worker set the state without excluding each other, yet
\* the scheduler is configured once, after it was initialised, and from then on
\* only goes back and forth between its round and idle; no set is lost.
ConfiguredThenRounds ==
    [][schState' # schState =>
        <<schState, schState'>> \in
            {<<"SCH_IDLE", "SCH_INIT">>, <<"SCH_INIT", "SCH_CONFIG">>,
             <<"SCH_CONFIG", "SCH_MAIN_20MS">>, <<"SCH_MAIN_20MS", "SCH_IDLE">>}
            \cup (IF configDone THEN {<<"SCH_IDLE", "SCH_MAIN_20MS">>} ELSE {})]_schVars
=============================================================================
