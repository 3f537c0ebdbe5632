----------------------------- MODULE CharDevice ------------------------------
(***************************************************************************)
(* Who may use a character device (firmware/arm/src/charDevice.c): open    *)
(* tries the device's mutex, stores the result in the device, and reads it *)
(* there; close gives the mutex back.  A user is one thread that opens and *)
(* closes one of the devices.                                              *)
(***************************************************************************)
EXTENDS Naturals, FiniteSets

CONSTANTS Users, Devices

VARIABLES
    deviceMutex,    \* TRUE: the device's mutex is held
    tryLock,        \* result of the last mutex_trylock, shared by all opens
    file,           \* what each user does with which device
    raced           \* history: devices on which two opens overlapped

charVars == <<deviceMutex, tryLock, file, raced>>

Out == [at |-> "out", dev |-> "none"]

CharInit ==
    /\ deviceMutex = [d \in Devices |-> FALSE]
    /\ tryLock = [d \in Devices |-> FALSE]
    /\ file = [u \in Users |-> Out]
    /\ raced = {}

At(where, d) == {u \in Users : file[u].at = where /\ file[u].dev = d}

\* MUTEX_CTRL_TRYLOCK; a mutex is taken with it, whoever reads the result.
TryLock(u, d) ==
    /\ file[u] = Out
    /\ tryLock' = [tryLock EXCEPT ![d] = ~deviceMutex[d]]
    /\ deviceMutex' = [deviceMutex EXCEPT ![d] = TRUE]
    /\ file' = [file EXCEPT ![u] = [at |-> "tried", dev |-> d]]
    /\ raced' = IF At("tried", d) # {} THEN raced \cup {d} ELSE raced

\* Mutant: the result is not looked at.
OpenUnchecked(u) ==
    /\ file[u].at = "tried"
    /\ file' = [file EXCEPT ![u].at = "in"]
    /\ UNCHANGED <<deviceMutex, tryLock, raced>>

\* "Device in use by another process", or openCount++.
OpenResult(u) ==
    /\ file[u].at = "tried"
    /\ file' = [file EXCEPT ![u] = IF tryLock[file[u].dev] THEN [@ EXCEPT !.at = "in"] ELSE Out]
    /\ UNCHANGED <<deviceMutex, tryLock, raced>>

\* MUTEX_CTRL_UNLOCK asks nobody whose mutex it is.
Close(u) ==
    /\ file[u].at = "in"
    /\ deviceMutex' = [deviceMutex EXCEPT ![file[u].dev] = FALSE]
    /\ file' = [file EXCEPT ![u] = Out]
    /\ raced' = IF At("tried", file[u].dev) # {} THEN raced \cup {file[u].dev} ELSE raced
    /\ UNCHANGED tryLock

\* MUTEX_CTRL_INIT
MutexInit(d) ==
    /\ deviceMutex' = [deviceMutex EXCEPT ![d] = FALSE]
    /\ UNCHANGED <<tryLock, file, raced>>

\* MUTEX_CTRL_DESTROY: unlocks a mutex that somebody holds and keeps one that
\* nobody held.
MutexDestroy(d) ==
    /\ tryLock' = [tryLock EXCEPT ![d] = ~deviceMutex[d]]
    /\ deviceMutex' = [deviceMutex EXCEPT ![d] = ~deviceMutex[d]]
    /\ UNCHANGED <<file, raced>>

-----------------------------------------------------------------------------
\* Opens that do not overlap with another open or a close: the device has one user
\* at a time, and its mutex is held while it has one.
OneUser(d) ==
    d \notin raced => /\ Cardinality(At("in", d)) <= 1
                      /\ At("in", d) # {} => deviceMutex[d]
=============================================================================
