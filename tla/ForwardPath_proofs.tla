------------------------- MODULE ForwardPath_proofs --------------------------
(***************************************************************************)
(* What the forward path promises writers that wait, for any number of     *)
(* writers and of writes, whether transfers fail or not: nothing is lost   *)
(* but what a failed transfer carried, nothing is torn, and no transfer    *)
(* starts before the DMA message was configured.                           *)
(*                                                                         *)
(* The argument: at any time either one writer is writing, or the slot     *)
(* holds the one command the thread is to run, or the thread runs its      *)
(* case, or its transfer is under way, while the thread at most winds      *)
(* down.  So every buffer and the message change under one hand at a time, *)
(* and the last item sent is what the message points at.                   *)
(***************************************************************************)
EXTENDS ForwardPath, TLAPS

(* What holds with any writers.                                            *)

\* What a buffer, a transfer and the FPGA can hold.
Cargo == (Kinds \cup {"SM_RAMDISK_CONFIG", "zeros", "torn", "lost"}) \X (0 .. MaxPosts)

WriterTypes ==
    \A w \in Writers :
        writer[w].at # "out" => writer[w].kind \in Kinds /\ writer[w].n \in 1 .. MaxPosts

Types ==
    /\ TypeOK
    /\ WriterTypes
    /\ rxData \in {Nothing} \cup (Kinds \X (1 .. MaxPosts))
    /\ started \in Cargo
    /\ received \in Seq(Cargo)

-----------------------------------------------------------------------------
(* What holds while writers wait.                                          *)

Quiet == \A w \in Writers : writer[w].at = "out"

\* The case of the state in the slot is still to run.
Pending == pc \in {"clear", "get", "store", "switch"} \/ (pc = "wait" /\ stateChanged)

Transfer == queued \/ work = "xfer"

ToRun(state) == Pending /\ currentState = state
Runs(state)  == pc = "set" /\ handling = state
Writes(kind) == \E w \in Writers : writer[w].at # "out" /\ writer[w].kind = kind

\* The calls that may be left of a case.
Rests(state) ==
    CASE state = "SM_DMA_NORMAL"     -> {Calls(state), <<"spiDmaInitNormal">>, <<>>}
      [] state = "SM_RAMDISK_CONFIG" -> {Calls(state), <<"spiDmaDestroy", "spiDmaInitRamdisk">>,
                                         <<"spiDmaInitRamdisk">>, <<>>}
      [] state = "SM_PRIMARY_SPI"    -> {Calls(state), <<>>}
      [] OTHER                       -> {<<>>}

\* One hand at a time: a writer, the slot, the thread's case, the transfer.
OneWriter == \A v, w \in Writers : writer[v].at # "out" /\ writer[w].at # "out" => v = w
Busy      == Pending \/ pc = "set" \/ Transfer \/ shouldStop
Unloading == /\ pc = "exit" => shouldStop
             /\ shouldStop => pc \in {"wait", "exit"} /\ ~stateChanged /\ ~Transfer
SlotIsRun == /\ pc \in {"store", "switch"} => got = SM!slot
             /\ pc \in {"get", "store", "switch", "set"} => ~stateChanged
             /\ SM!Settled => currentState = "SM_IDLE"
CaseCalls == IF pc = "set" THEN todo \in Rests(handling) ELSE todo = <<>>
WindingDown ==
    Transfer =>
        /\ Pending => currentState \in {"SM_DONE", "SM_IDLE"}
        /\ pc = "set" => handling = "SM_DONE" \/ Runs("SM_PRIMARY_SPI")
        /\ todo = <<>>
        /\ ~(queued /\ work = "xfer")

OneAtATime ==
    /\ OneWriter /\ (Busy => Quiet) /\ Unloading
    /\ SlotIsRun /\ CaseCalls /\ WindingDown

\* A frame or a prepared configuration is about to be transferred.
Loaded ==
    ToRun("SM_PRIMARY_SPI") \/ (Runs("SM_PRIMARY_SPI") /\ todo # <<>>) \/ Transfer

\* A configuration is about to be prepared, or being prepared.
Preparing == ToRun("SM_RAMDISK_CONFIG") \/ Runs("SM_RAMDISK_CONFIG")

\* A written item whose state is still to be posted.
Copied == \E w \in Writers : writer[w].at = "decode" /\ IsPayload(writer[w].kind)

Item == sent[Len(sent)]

\* What a writer has in the device's buffer, and what it relies on.
WriterOK ==
    \A w \in Writers : writer[w].at # "out" =>
        /\ writer[w].at = "decode" =>
             /\ rxData = <<writer[w].kind, writer[w].n>>
             /\ IsPayload(writer[w].kind) => Item = rxData
        /\ writer[w].kind = "SM_PRIMARY_SPI" => message = "commander"
        /\ writer[w].kind = "SM_RAMDISK_CONFIG" => disk = writer[w].n

\* An item was sent and has not arrived yet, or all have arrived.
Counts == Len(sent) = Len(received) + (IF Copied \/ Preparing \/ Loaded THEN 1 ELSE 0)

ItemOK ==
    /\ Loaded => message \in {"commander", "ramdisk"} /\ Buffer = Item
    /\ work = "xfer" => started = Item

\* The configuration on its way to the message.
ConfigOK ==
    /\ Preparing => Item = <<"SM_RAMDISK_CONFIG", disk>>
    /\ Runs("SM_RAMDISK_CONFIG") => /\ todo # Calls("SM_RAMDISK_CONFIG") => image = disk
                                    /\ todo = <<>> => message = "ramdisk"

\* The mode the application asked for is that of the message, or will be.
AskedOK ==
    /\ asked = "SM_DMA_NORMAL" =>
         \/ message = "commander"
         \/ Writes("SM_DMA_NORMAL") \/ ToRun("SM_DMA_NORMAL")
         \/ Runs("SM_DMA_NORMAL") /\ todo # <<>>
    /\ Writes("SM_RAMDISK_CONFIG") \/ Preparing => asked = "SM_RAMDISK_CONFIG"

PathInv == OneAtATime /\ WriterOK /\ Counts /\ ItemOK /\ ConfigOK /\ AskedOK

-----------------------------------------------------------------------------
(* The types.                                                              *)

LEMMA AppendProperties ==
    ASSUME NEW S, NEW s \in Seq(S), NEW e \in S
    PROVE  /\ Append(s, e) \in Seq(S)
           /\ Len(Append(s, e)) = Len(s) + 1
           /\ Append(s, e)[Len(s) + 1] = e
  OBVIOUS

LEMMA FollowUpType ==
    ASSUME NEW s \in SM!SmStates
    PROVE  SM!FollowUp(s) \in SM!SmStates
  BY DEF SM!FollowUp, SM!SmStates, SM!UserStates

\* Posting a command keeps the state machine's types.
LEMMA PostTypes ==
    ASSUME SM!TypeOK, NEW c \in SM!UserStates, SM!Post(c)
    PROVE  SM!TypeOK'
<1>1. c \in SM!SmStates
  BY DEF SM!SmStates
<1>2. posted' = posted + 1 /\ posted' \in Nat /\ origin' \in 0 .. posted'
  BY DEF SM!Post, SM!setStateMachine, SM!TypeOK
<1>3. got' \in [state : SM!SmStates, origin : 0 .. posted']
  BY <1>2 DEF SM!Post, SM!TypeOK
<1> QED
  BY <1>1, <1>2, <1>3 DEF SM!Post, SM!setStateMachine, SM!TypeOK

\* So does every step of the thread.
LEMMA ThreadTypes ==
    ASSUME SM!TypeOK, SM!Thread
    PROVE  SM!TypeOK'
<1>1. CASE SM!Wake \/ SM!Exit \/ SM!ClearFlag
  BY <1>1 DEF SM!Wake, SM!Exit, SM!ClearFlag, SM!TypeOK
<1>2. CASE SM!getStateMachine \/ SM!StoreBack
  BY <1>2 DEF SM!getStateMachine, SM!StoreBack, SM!slot, SM!TypeOK
<1>3. CASE SM!Switch
  <2> PICK s \in {got, SM!slot} : SM!RunCase(s)
    BY <1>3 DEF SM!Switch
  <2>1. s.state \in SM!SmStates /\ s.origin \in 0 .. posted
    BY DEF SM!slot, SM!TypeOK
  <2>2. executed' \in Seq(Nat)
    BY <2>1, AppendProperties DEF SM!RunCase, SM!TypeOK
  <2> QED
    BY <1>3, <2>1, <2>2 DEF SM!Switch, SM!RunCase, SM!TypeOK
<1>4. CASE SM!SetFollowUp
  BY <1>4, FollowUpType DEF SM!SetFollowUp, SM!setStateMachine, SM!TypeOK
<1> QED
  BY <1>1, <1>2, <1>3, <1>4 DEF SM!Thread

LEMMA SameTypes ==
    ASSUME SM!TypeOK, UNCHANGED smVars
    PROVE  SM!TypeOK'
  BY DEF smVars, SM!TypeOK

LEMMA InitTypes == Init => Types
<1> SUFFICES ASSUME Init PROVE Types
  OBVIOUS
<1>1. SM!TypeOK
  <2>1. "SM_IDLE" \in SM!SmStates
    BY DEF SM!SmStates
  <2>2. got \in [state : SM!SmStates, origin : 0 .. posted]
    BY <2>1 DEF Init, SM!Init
  <2>3. executed \in Seq(Nat)
    BY DEF Init, SM!Init
  <2> QED
    BY <2>1, <2>2, <2>3 DEF Init, SM!Init, SM!TypeOK
<1>2. TypeOK
  <2>1. sent \in Seq(Items)
    BY DEF Init
  <2>2. writer \in [Writers -> [at : {"out", "copy", "decode"},
                               kind : Kinds \cup {"SM_IDLE"}, n : 0 .. MaxPosts]]
    BY ForwardAssumption DEF Init
  <2>3. /\ writes \in 0 .. MaxPosts /\ disk \in 0 .. MaxPosts /\ image \in 0 .. MaxPosts
    BY ForwardAssumption DEF Init
  <2>4. /\ message \in {"none", "unmapped", "commander", "ramdisk"}
        /\ queued \in BOOLEAN /\ work \in {"idle", "xfer"}
    BY Zenon DEF Init
  <2> QED
    BY <1>1, <2>1, <2>2, <2>3, <2>4 DEF TypeOK
<1>3. Nothing \in Cargo
  BY ForwardAssumption DEF Nothing, Cargo
<1> QED
  BY <1>2, <1>3 DEF Init, Types, WriterTypes

\* Every step keeps the types, with any writers.
LEMMA NextTypes == Types /\ [Next]_vars => Types'
<1> SUFFICES ASSUME Types, [Next]_vars PROVE Types'
  OBVIOUS
<1>0. TypeOK /\ SM!TypeOK /\ WriterTypes /\ MaxPosts \in Nat
  BY ForwardAssumption DEF Types, TypeOK
<1>1. ASSUME NEW w \in Writers, NEW kind \in Kinds, WriteClear(w, kind) PROVE Types'
  <2>1. writes' = writes + 1 /\ writes' \in 1 .. MaxPosts
    BY <1>0, <1>1 DEF WriteClear, TypeOK
  <2>2. writer' = [writer EXCEPT ![w] = [at |-> "copy", kind |-> kind, n |-> writes']]
    BY <1>1, <2>1 DEF WriteClear
  <2>3. /\ writer' \in [Writers -> [at : {"out", "copy", "decode"},
                                    kind : Kinds \cup {"SM_IDLE"}, n : 0 .. MaxPosts]]
        /\ WriterTypes'
    BY <1>0, <2>1, <2>2 DEF TypeOK, WriterTypes
  <2>4. disk' \in 0 .. MaxPosts
    BY <1>0, <1>1, <2>1 DEF WriteClear, TypeOK
  <2>5. SM!TypeOK'
    BY <1>0, <1>1, SameTypes DEF WriteClear
  <2> QED
    BY <1>1, <2>1, <2>3, <2>4, <2>5 DEF WriteClear, dmaVars, workVars, Types, TypeOK
<1>2. ASSUME NEW w \in Writers, WriteCopy(w) PROVE Types'
  <2>1. writer[w].kind \in Kinds /\ writer[w].n \in 1 .. MaxPosts
    BY <1>0, <1>2 DEF WriteCopy, WriterTypes
  <2>2. rxData' \in Kinds \X (1 .. MaxPosts)
    BY <1>2, <2>1 DEF WriteCopy
  <2>3. sent' \in Seq(Items)
    <3>1. CASE IsPayload(writer[w].kind)
      <4>1. <<writer[w].kind, writer[w].n>> \in Items
        BY <2>1, <3>1 DEF IsPayload, Items
      <4>2. sent' = Append(sent, <<writer[w].kind, writer[w].n>>)
        BY <1>2, <3>1 DEF WriteCopy
      <4> QED
        BY <1>0, <4>1, <4>2, AppendProperties DEF TypeOK
    <3>2. CASE ~IsPayload(writer[w].kind)
      BY <1>0, <1>2, <3>2 DEF WriteCopy, TypeOK
    <3> QED
      BY <3>1, <3>2
  <2>4. /\ writer' \in [Writers -> [at : {"out", "copy", "decode"},
                                    kind : Kinds \cup {"SM_IDLE"}, n : 0 .. MaxPosts]]
        /\ WriterTypes'
    BY <1>0, <1>2, <2>1 DEF WriteCopy, TypeOK, WriterTypes
  <2>5. SM!TypeOK'
    BY <1>0, <1>2, SameTypes DEF WriteCopy
  <2> QED
    BY <1>2, <2>2, <2>3, <2>4, <2>5 DEF WriteCopy, dmaVars, workVars, Types, TypeOK
<1>3. ASSUME NEW w \in Writers, WriteDecode(w) PROVE Types'
  <2>1. Decoded \in SM!UserStates
    <3>1. CASE rxData = Nothing
      BY <3>1 DEF Decoded, SM!UserStates
    <3>2. CASE rxData # Nothing
      BY <3>2, ForwardAssumption DEF Decoded, Types
    <3> QED
      BY <3>1, <3>2
  <2>2. SM!TypeOK'
    BY <1>0, <1>3, <2>1, PostTypes DEF WriteDecode
  <2>3. /\ writer' \in [Writers -> [at : {"out", "copy", "decode"},
                                    kind : Kinds \cup {"SM_IDLE"}, n : 0 .. MaxPosts]]
        /\ WriterTypes'
    BY <1>0, <1>3 DEF WriteDecode, TypeOK, WriterTypes
  <2> QED
    BY <1>3, <2>2, <2>3 DEF WriteDecode, dmaVars, workVars, Types, TypeOK
<1>4. CASE Unload
  <2>1. SM!TypeOK'
    BY <1>0, <1>4 DEF Unload, SM!stateMachineDestroy, SM!TypeOK
  <2> QED
    BY <1>4, <2>1 DEF Unload, appVars, dmaVars, workVars, Types, TypeOK, WriterTypes
<1>5. CASE ThreadSteps \/ Switch \/ SetFollowUp
  <2>1. SM!TypeOK'
    BY <1>0, <1>5, ThreadTypes DEF ThreadSteps, Switch, SetFollowUp, SM!Thread
  <2> QED
    BY <1>5, <2>1 DEF ThreadSteps, Switch, SetFollowUp, appVars, dmaVars, workVars,
       Types, TypeOK, WriterTypes
<1>6. CASE Call
  <2>1. SM!TypeOK'
    BY <1>0, <1>6, SameTypes DEF Call
  <2>2. /\ message' \in {"none", "unmapped", "commander", "ramdisk"}
        /\ image' \in 0 .. MaxPosts /\ queued' \in BOOLEAN
    <3>1. message' \in {"none", "unmapped", "commander", "ramdisk"}
      BY <1>0, <1>6 DEF Call, TypeOK
    <3>2. image' \in 0 .. MaxPosts
      BY <1>0, <1>6 DEF Call, TypeOK
    <3>3. queued' \in BOOLEAN
      BY <1>6, Zenon DEF Call
    <3> QED
      BY <3>1, <3>2, <3>3
  <2> QED
    BY <1>6, <2>1, <2>2 DEF Call, appVars, workVars, Types, TypeOK, WriterTypes
<1>7. CASE Worker
  <2>1. SM!TypeOK'
    BY <1>0, <1>7, SameTypes DEF Worker, StartWork, TransferDone, TransferFailed
  <2>2. Buffer \in Cargo
    <3>1. <<"SM_RAMDISK_CONFIG", image>> \in Cargo
      BY <1>0 DEF TypeOK, Cargo
    <3>2. rxData \in Cargo /\ Torn \in Cargo
      BY <1>0 DEF Types, Nothing, Torn, Cargo
    <3> QED
      BY <3>1, <3>2 DEF Buffer
  <2>3. started' \in Cargo
    BY <1>7, <2>2 DEF Worker, StartWork, TransferDone, TransferFailed, Types
  <2>4. received' \in Seq(Cargo)
    <3>1. Torn \in Cargo /\ Lost \in Cargo /\ started \in Cargo
      BY <1>0 DEF Torn, Lost, Cargo, Types
    <3>2. CASE StartWork
      BY <3>2 DEF StartWork, Types
    <3>3. CASE TransferDone
      BY <3>1, <3>3, AppendProperties DEF TransferDone, Types
    <3>4. CASE TransferFailed
      BY <3>1, <3>4, AppendProperties DEF TransferFailed, Types
    <3> QED
      BY <1>7, <3>2, <3>3, <3>4 DEF Worker
  <2>5. queued' \in BOOLEAN /\ work' \in {"idle", "xfer"}
    BY <1>7 DEF Worker, StartWork, TransferDone, TransferFailed, Types, TypeOK
  <2> QED
    BY <1>7, <2>1, <2>3, <2>4, <2>5 DEF Worker, StartWork, TransferDone, TransferFailed,
       appVars, dmaVars, Types, TypeOK, WriterTypes
<1>8. CASE UNCHANGED vars
  <2>1. SM!TypeOK'
    BY <1>0, <1>8, SameTypes DEF vars
  <2> QED
    BY <1>8, <2>1 DEF vars, appVars, dmaVars, workVars, Types, TypeOK, WriterTypes
<1> QED
  BY <1>1, <1>2, <1>3, <1>4, <1>5, <1>6, <1>7, <1>8 DEF Next, Thread, Finish

LEMMA TypesHold == Spec => []Types
  BY InitTypes, NextTypes, PTL DEF Spec

\* Every variable of the path keeps its type, whoever writes what and when: the
\* thread never switches on a state without a case.
THEOREM TypeCorrect == Spec => []TypeOK
<1>1. Types => TypeOK
  BY DEF Types
<1> QED
  BY <1>1, TypesHold, PTL

-----------------------------------------------------------------------------
(* The invariant of writers that wait.                                     *)

\* The calls a case makes, one after the other.
LEMMA CallsOfNormal ==
    ASSUME NEW s \in Rests("SM_DMA_NORMAL"), s # <<>>
    PROVE  \/ Head(s) = "spiDmaDestroy" /\ Tail(s) = <<"spiDmaInitNormal">>
           \/ Head(s) = "spiDmaInitNormal" /\ Tail(s) = <<>>
<1>1. CASE s = Calls("SM_DMA_NORMAL")
  BY <1>1 DEF Calls
<1>2. CASE s = <<"spiDmaInitNormal">>
  BY <1>2
<1> QED
  BY <1>1, <1>2 DEF Rests

LEMMA CallsOfConfig ==
    ASSUME NEW s \in Rests("SM_RAMDISK_CONFIG"), s # <<>>
    PROVE  \/ /\ s = Calls("SM_RAMDISK_CONFIG") /\ Head(s) = "prepareRamDiskTransfer"
              /\ Tail(s) = <<"spiDmaDestroy", "spiDmaInitRamdisk">>
           \/ /\ s # Calls("SM_RAMDISK_CONFIG") /\ Head(s) = "spiDmaDestroy"
              /\ Tail(s) = <<"spiDmaInitRamdisk">>
           \/ /\ s # Calls("SM_RAMDISK_CONFIG") /\ Head(s) = "spiDmaInitRamdisk"
              /\ Tail(s) = <<>>
<1>1. CASE s = Calls("SM_RAMDISK_CONFIG")
  BY <1>1 DEF Calls
<1>2. CASE s = <<"spiDmaDestroy", "spiDmaInitRamdisk">>
  BY <1>2 DEF Calls
<1>3. CASE s = <<"spiDmaInitRamdisk">>
  BY <1>3 DEF Calls
<1> QED
  BY <1>1, <1>2, <1>3 DEF Rests

LEMMA CallsOfFrame ==
    ASSUME NEW s \in Rests("SM_PRIMARY_SPI"), s # <<>>
    PROVE  Head(s) = "queue_work" /\ Tail(s) = <<>>
<1>1. CASE s = Calls("SM_PRIMARY_SPI")
  BY <1>1 DEF Calls
<1> QED
  BY <1>1 DEF Rests

LEMMA CallsOfOthers ==
    ASSUME NEW k, k \notin {"SM_DMA_NORMAL", "SM_RAMDISK_CONFIG", "SM_PRIMARY_SPI"}
    PROVE  Rests(k) = {<<>>} /\ Calls(k) = <<>>
  BY DEF Rests, Calls

LEMMA CallsAreRests == ASSUME NEW k PROVE Calls(k) \in Rests(k)
  BY DEF Rests, Calls

\* A step that is none of the path's business.
LEMMA SamePath ==
    ASSUME PathInv, UNCHANGED <<appVars, rxData, todo, dmaVars, queued, workVars, sent>>,
           Pending' <=> Pending, pc' = "set" <=> pc = "set",
           handling' = handling, currentState' = currentState
    PROVE  WriterOK' /\ Counts' /\ ItemOK' /\ ConfigOK' /\ AskedOK'
<1>1. \A k : ToRun(k)' <=> ToRun(k)
  BY DEF ToRun
<1>2. \A k : Runs(k)' <=> Runs(k)
  BY DEF Runs
<1>3. /\ (Loaded' <=> Loaded) /\ (Preparing' <=> Preparing) /\ (Copied' <=> Copied)
      /\ Buffer' = Buffer /\ Item' = Item
  BY <1>1, <1>2 DEF Loaded, Preparing, Copied, Transfer, Buffer, Item, appVars, dmaVars, workVars
<1>4. \A k : Writes(k)' <=> Writes(k)
  BY DEF Writes, appVars
<1>5. WriterOK'
  BY <1>3 DEF PathInv, WriterOK, appVars, dmaVars
<1>6. Counts'
  BY <1>3 DEF PathInv, Counts, workVars
<1>7. ItemOK'
  BY <1>3 DEF PathInv, ItemOK, dmaVars, workVars
<1>8. ConfigOK'
  BY <1>2, <1>3 DEF PathInv, ConfigOK, appVars, dmaVars
<1>9. AskedOK'
  BY <1>1, <1>2, <1>3, <1>4 DEF PathInv, AskedOK, appVars, dmaVars
<1> QED
  BY <1>5, <1>6, <1>7, <1>8, <1>9

LEMMA InitPath == Init => PathInv
<1> SUFFICES ASSUME Init PROVE PathInv
  OBVIOUS
<1>1. Quiet /\ ~Transfer /\ Pending /\ pc = "wait" /\ currentState = "SM_IDLE" /\ todo = <<>>
      /\ ~shouldStop /\ stateChanged
  BY DEF Init, SM!Init, Quiet, Transfer, Pending
<1>2. OneAtATime
  BY <1>1 DEF OneAtATime, OneWriter, Quiet, Unloading, SlotIsRun, SM!Settled, CaseCalls, WindingDown
<1>3. ~Copied /\ ~Preparing /\ ~Loaded
  BY <1>1 DEF Copied, Quiet, Preparing, Loaded, ToRun, Runs
<1>4. Counts
  BY <1>3 DEF Init, Counts
<1>5. \A k : ~Writes(k)
  BY <1>1 DEF Writes, Quiet
<1> QED
  BY <1>1, <1>2, <1>3, <1>4, <1>5 DEF PathInv, WriterOK, Quiet, ItemOK, Transfer, ConfigOK,
     Preparing, AskedOK, Init

\* The steps that fetch the next state leave the path alone.
LEMMA FetchKeepsPath == ASSUME Types, PathInv, ThreadSteps PROVE PathInv'
<1>1. CASE SM!Wake
  <2>1. UNCHANGED <<appVars, rxData, todo, dmaVars, queued, workVars, sent>>
    BY DEF ThreadSteps
  <2>2. /\ Pending /\ Pending' /\ pc' = "clear" /\ pc = "wait"
        /\ handling' = handling /\ currentState' = currentState
    BY <1>1 DEF SM!Wake, Pending
  <2>3. WriterOK' /\ Counts' /\ ItemOK' /\ ConfigOK' /\ AskedOK'
    BY <2>1, <2>2, SamePath
  <2>4. OneAtATime'
    BY <1>1, <2>1, <2>2 DEF SM!Wake, PathInv, OneAtATime, OneWriter, Busy, Quiet, Unloading, SlotIsRun,
       SM!Settled, CaseCalls, WindingDown, Transfer, Runs, appVars, workVars
  <2> QED
    BY <2>3, <2>4 DEF PathInv
<1>2. CASE SM!Exit
  <2>1. UNCHANGED <<appVars, rxData, todo, dmaVars, queued, workVars, sent>>
    BY DEF ThreadSteps
  <2>2. /\ ~Pending /\ ~Pending' /\ pc' = "exit" /\ pc = "wait"
        /\ handling' = handling /\ currentState' = currentState
    BY <1>2 DEF SM!Exit, Pending, PathInv, OneAtATime, Unloading
  <2>3. WriterOK' /\ Counts' /\ ItemOK' /\ ConfigOK' /\ AskedOK'
    BY <2>1, <2>2, SamePath
  <2>4. OneAtATime'
    BY <1>2, <2>1, <2>2 DEF SM!Exit, PathInv, OneAtATime, OneWriter, Busy, Quiet, Unloading, SlotIsRun,
       SM!Settled, CaseCalls, WindingDown, Transfer, Runs, appVars, workVars
  <2> QED
    BY <2>3, <2>4 DEF PathInv
<1>3. CASE SM!ClearFlag
  <2>1. UNCHANGED <<appVars, rxData, todo, dmaVars, queued, workVars, sent>>
    BY DEF ThreadSteps
  <2>2. /\ Pending /\ Pending' /\ pc' = "get" /\ pc = "clear"
        /\ handling' = handling /\ currentState' = currentState
    BY <1>3 DEF SM!ClearFlag, Pending
  <2>3. WriterOK' /\ Counts' /\ ItemOK' /\ ConfigOK' /\ AskedOK'
    BY <2>1, <2>2, SamePath
  <2>4. OneAtATime'
    BY <1>3, <2>1, <2>2 DEF SM!ClearFlag, PathInv, OneAtATime, OneWriter, Busy, Quiet, Unloading,
       SlotIsRun, SM!Settled, CaseCalls, WindingDown, Transfer, Runs, appVars, workVars
  <2> QED
    BY <2>3, <2>4 DEF PathInv
<1>4. CASE SM!getStateMachine
  <2>1. UNCHANGED <<appVars, rxData, todo, dmaVars, queued, workVars, sent>>
    BY DEF ThreadSteps
  <2>2. /\ Pending /\ Pending' /\ pc' = "store" /\ pc = "get"
        /\ handling' = handling /\ currentState' = currentState
    BY <1>4 DEF SM!getStateMachine, Pending
  <2>3. WriterOK' /\ Counts' /\ ItemOK' /\ ConfigOK' /\ AskedOK'
    BY <2>1, <2>2, SamePath
  <2>4. OneAtATime'
    BY <1>4, <2>1, <2>2 DEF SM!getStateMachine, SM!slot, PathInv, OneAtATime, OneWriter, Busy, Quiet,
       Unloading, SlotIsRun, SM!Settled, CaseCalls, WindingDown, Transfer, Runs, appVars, workVars
  <2> QED
    BY <2>3, <2>4 DEF PathInv
<1>5. CASE SM!StoreBack
  <2>1. UNCHANGED <<appVars, rxData, todo, dmaVars, queued, workVars, sent>>
    BY DEF ThreadSteps
  <2>2. got.state = currentState /\ got.origin = origin
    BY <1>5 DEF SM!StoreBack, PathInv, OneAtATime, SlotIsRun, SM!slot
  <2>3. /\ Pending /\ Pending' /\ pc' = "switch" /\ pc = "store"
        /\ handling' = handling /\ currentState' = currentState
    BY <1>5, <2>2 DEF SM!StoreBack, Pending
  <2>4. WriterOK' /\ Counts' /\ ItemOK' /\ ConfigOK' /\ AskedOK'
    BY <2>1, <2>3, SamePath
  <2>5. OneAtATime'
    BY <1>5, <2>1, <2>2, <2>3 DEF SM!StoreBack, SM!slot, PathInv, OneAtATime, OneWriter, Busy, Quiet,
       Unloading, SlotIsRun, SM!Settled, CaseCalls, WindingDown, Transfer, Runs, appVars, workVars
  <2> QED
    BY <2>4, <2>5 DEF PathInv
<1> QED
  BY <1>1, <1>2, <1>3, <1>4, <1>5 DEF ThreadSteps

\* So does unloading, for which the application waits.
LEMMA UnloadKeepsPath == ASSUME Paced, PathInv, Unload PROVE PathInv'
<1>1. UNCHANGED <<appVars, rxData, todo, dmaVars, queued, workVars, sent>>
  BY DEF Unload
<1>2. /\ pc = "wait" /\ ~stateChanged /\ Quiet /\ ~queued /\ work = "idle" /\ shouldStop'
      /\ UNCHANGED <<currentState, origin, stateChanged, pc, got, handling>>
  BY DEF Unload, MayWrite, SM!Settled, SM!stateMachineDestroy, Quiet
<1>3. WriterOK' /\ Counts' /\ ItemOK' /\ ConfigOK' /\ AskedOK'
  BY <1>1, <1>2, SamePath DEF Pending
<1>4. OneAtATime'
  BY <1>1, <1>2 DEF PathInv, OneAtATime, OneWriter, Busy, Quiet, Unloading, SlotIsRun, SM!Settled, SM!slot,
     CaseCalls, WindingDown, Transfer, Pending, Runs, appVars, workVars
<1> QED
  BY <1>3, <1>4 DEF PathInv

\* The case of the slot's state begins, with all its calls to make.
LEMMA SwitchKeepsPath == ASSUME Types, PathInv, Switch PROVE PathInv'
<1>1. /\ pc = "switch" /\ Pending /\ ~stateChanged /\ Quiet /\ ~shouldStop /\ todo = <<>>
      /\ \A k : ~Runs(k)
  BY DEF Switch, SM!Switch, Pending, PathInv, OneAtATime, SlotIsRun, Busy, Unloading, CaseCalls, Runs
<1>2. /\ handling' = currentState /\ todo' = Calls(currentState)
      /\ pc' = IF currentState = "SM_IDLE" THEN "wait" ELSE "set"
      /\ UNCHANGED <<currentState, origin, stateChanged, shouldStop, got>>
  BY <1>1 DEF Switch, SM!Switch, SM!RunCase, SM!slot, PathInv, OneAtATime, SlotIsRun
<1>3. UNCHANGED <<writer, asked, disk, rxData, message, image, queued, work, started, received, sent>>
  BY DEF Switch, appVars, dmaVars, workVars
<1>4. ~Pending'
  BY <1>1, <1>2 DEF Pending
<1>5. \A k : ~ToRun(k)'
  BY <1>4 DEF ToRun
<1>6. \A k : k # "SM_IDLE" => (Runs(k)' <=> currentState = k)
  BY <1>2 DEF Runs
<1>7. \A k : ToRun(k) <=> currentState = k
  BY <1>1 DEF ToRun
<1>8. Calls("SM_PRIMARY_SPI") # <<>> /\ Calls("SM_DMA_NORMAL") # <<>> /\ Calls("SM_RAMDISK_CONFIG") # <<>>
  BY DEF Calls
<1>9. /\ (Loaded' <=> Loaded) /\ (Preparing' <=> Preparing) /\ (Copied' <=> Copied)
      /\ Buffer' = Buffer /\ Item' = Item
  <2>1. Transfer' <=> Transfer
    BY <1>3 DEF Transfer
  <2>2. Loaded' <=> Loaded
    BY <1>1, <1>2, <1>5, <1>6, <1>7, <1>8, <2>1 DEF Loaded
  <2>3. Preparing' <=> Preparing
    BY <1>1, <1>5, <1>6, <1>7 DEF Preparing
  <2> QED
    BY <1>3, <2>2, <2>3 DEF Copied, Buffer, Item
<1>10. OneAtATime'
  <2>1. CaseCalls'
    BY <1>2, CallsAreRests DEF CaseCalls, Calls
  <2>2. WindingDown'
    <3>1. Transfer => currentState \in {"SM_DONE", "SM_IDLE"} /\ ~(queued /\ work = "xfer")
      BY <1>1 DEF PathInv, OneAtATime, WindingDown
    <3>2. currentState \in {"SM_DONE", "SM_IDLE"} => Calls(currentState) = <<>>
      BY CallsOfOthers
    <3> QED
      BY <1>2, <1>3, <1>4, <3>1, <3>2 DEF WindingDown, Transfer
  <2>3. SlotIsRun'
    BY <1>1, <1>2 DEF SlotIsRun, SM!Settled
  <2> QED
    BY <1>1, <1>2, <1>3, <2>1, <2>2, <2>3 DEF PathInv, OneAtATime, OneWriter, Quiet, Unloading
<1>11. WriterOK' /\ Counts' /\ ItemOK'
  BY <1>3, <1>9 DEF PathInv, WriterOK, Counts, ItemOK
<1>12. ConfigOK'
  BY <1>2, <1>3, <1>6, <1>8, <1>9 DEF PathInv, ConfigOK
<1>13. AskedOK'
  <2>1. \A k : Writes(k)' <=> Writes(k)
    BY <1>3 DEF Writes
  <2> QED
    BY <1>1, <1>2, <1>3, <1>6, <1>7, <1>8, <1>9, <2>1 DEF PathInv, AskedOK
<1> QED
  BY <1>10, <1>11, <1>12, <1>13 DEF PathInv

\* The calls of a case change the message while nobody relies on it, and only
\* a frame or a prepared configuration is queued.
LEMMA CallKeepsPath == ASSUME Types, PathInv, Call PROVE PathInv'
<1>1. todo # <<>> /\ pc = "set" /\ todo \in Rests(handling) /\ ~Pending
  BY DEF Call, PathInv, OneAtATime, CaseCalls, Pending
<1>2. ~Transfer /\ Quiet /\ ~shouldStop /\ todo' = Tail(todo)
  BY <1>1 DEF Call, PathInv, OneAtATime, WindingDown, Busy, Unloading
<1>3. UNCHANGED <<currentState, origin, stateChanged, shouldStop, pc, got, handling,
                  writer, asked, disk, rxData, work, started, received, sent>>
  BY DEF Call, smVars, appVars, workVars
<1>4. ~Pending' /\ (\A k : ~ToRun(k)) /\ (\A k : ~ToRun(k)') /\ ~Copied /\ ~Copied'
  BY <1>1, <1>2, <1>3 DEF Pending, ToRun, Copied, Quiet
<1>5. (\A k : ~Writes(k)) /\ (\A k : ~Writes(k)')
  BY <1>2, <1>3 DEF Writes, Quiet
<1>6. \A k : (Runs(k) <=> handling = k) /\ (Runs(k)' <=> handling = k)
  BY <1>1, <1>3 DEF Runs
<1>7. WriterOK' /\ Quiet'
  BY <1>2, <1>3 DEF WriterOK, Quiet
<1>8. work # "xfer" /\ work' # "xfer" /\ ~queued
  BY <1>2, <1>3 DEF Transfer
<1>9. handling \in {"SM_DMA_NORMAL", "SM_RAMDISK_CONFIG", "SM_PRIMARY_SPI"}
  BY <1>1, CallsOfOthers
<1>10. ASSUME CaseCalls', WindingDown' PROVE OneAtATime'
  BY <1>1, <1>2, <1>3, <1>7, <1>10 DEF PathInv, OneAtATime, OneWriter, Unloading, SlotIsRun, SM!Settled, SM!slot
<1>11. CASE handling = "SM_DMA_NORMAL"
  <2>1. \/ Head(todo) = "spiDmaDestroy" /\ todo' = <<"spiDmaInitNormal">>
        \/ Head(todo) = "spiDmaInitNormal" /\ todo' = <<>>
    BY <1>1, <1>2, <1>11, CallsOfNormal
  <2>2. todo' = <<>> => message' = "commander"
    BY <2>1 DEF Call
  <2>3. ~queued'
    BY <1>8, <2>1 DEF Call
  <2>4. todo' \in Rests("SM_DMA_NORMAL")
    BY <2>1 DEF Rests
  <2>5. OneAtATime'
    BY <1>1, <1>3, <1>8, <1>10, <1>11, <2>3, <2>4 DEF CaseCalls, WindingDown, Transfer
  <2>6. ~Loaded' /\ ~Preparing' /\ ~Loaded /\ ~Preparing
    BY <1>2, <1>4, <1>6, <1>8, <1>11, <2>3 DEF Loaded, Preparing, Transfer
  <2>7. Counts' /\ ItemOK' /\ ConfigOK'
    BY <1>3, <1>4, <1>6, <1>8, <1>11, <2>6 DEF PathInv, Counts, ItemOK, ConfigOK
  <2>8. AskedOK'
    BY <1>3, <1>5, <1>6, <1>11, <2>2, <2>6 DEF PathInv, AskedOK
  <2> QED
    BY <1>7, <2>5, <2>7, <2>8 DEF PathInv
<1>12. CASE handling = "SM_RAMDISK_CONFIG"
  <2>1. \/ /\ Head(todo) = "prepareRamDiskTransfer"
           /\ todo' = <<"spiDmaDestroy", "spiDmaInitRamdisk">>
        \/ /\ todo # Calls("SM_RAMDISK_CONFIG") /\ Head(todo) = "spiDmaDestroy"
           /\ todo' = <<"spiDmaInitRamdisk">>
        \/ /\ todo # Calls("SM_RAMDISK_CONFIG") /\ Head(todo) = "spiDmaInitRamdisk"
           /\ todo' = <<>>
    BY <1>1, <1>2, <1>12, CallsOfConfig
  <2>2. todo' = <<>> => message' = "ramdisk"
    BY <2>1 DEF Call
  <2>3. ~queued'
    BY <1>8, <2>1 DEF Call
  <2>4. todo' \in Rests("SM_RAMDISK_CONFIG")
    BY <2>1 DEF Rests
  <2>5. OneAtATime'
    BY <1>1, <1>3, <1>8, <1>10, <1>12, <2>3, <2>4 DEF CaseCalls, WindingDown, Transfer
  <2>6. ~Loaded' /\ Preparing' /\ ~Loaded /\ Preparing
    BY <1>2, <1>4, <1>6, <1>8, <1>12, <2>3 DEF Loaded, Preparing, Transfer
  <2>7. Counts' /\ ItemOK'
    BY <1>3, <1>4, <1>8, <2>6 DEF PathInv, Counts, ItemOK
  <2>8. image' = disk
    BY <1>6, <1>12, <2>1 DEF Call, PathInv, ConfigOK
  <2>9. ConfigOK'
    BY <1>3, <2>2, <2>6, <2>8 DEF PathInv, ConfigOK, Item
  <2>10. asked = "SM_RAMDISK_CONFIG"
    BY <2>6 DEF PathInv, AskedOK
  <2>11. AskedOK'
    BY <1>3, <2>10 DEF AskedOK
  <2> QED
    BY <1>7, <2>5, <2>7, <2>9, <2>11 DEF PathInv
<1>13. CASE handling = "SM_PRIMARY_SPI"
  <2>1. Head(todo) = "queue_work" /\ todo' = <<>>
    BY <1>1, <1>2, <1>13, CallsOfFrame
  <2>2. message' = message /\ image' = image /\ queued'
    BY <2>1 DEF Call
  <2>3. todo' \in Rests("SM_PRIMARY_SPI")
    BY <2>1 DEF Rests
  <2>4. OneAtATime'
    BY <1>1, <1>3, <1>4, <1>6, <1>8, <1>10, <1>13, <2>1, <2>3 DEF CaseCalls, WindingDown
  <2>5. Loaded' /\ ~Preparing' /\ Loaded /\ ~Preparing
    BY <1>1, <1>4, <1>6, <1>13, <2>2 DEF Loaded, Preparing, Transfer
  <2>6. Buffer' = Buffer /\ Item' = Item
    BY <1>3, <2>2 DEF Buffer, Item
  <2>7. Counts' /\ ItemOK' /\ ConfigOK'
    BY <1>3, <1>4, <1>6, <1>8, <1>13, <2>2, <2>5, <2>6 DEF PathInv, Counts, ItemOK, ConfigOK
  <2>8. AskedOK'
    BY <1>3, <1>4, <1>5, <1>6, <1>13, <2>2, <2>5 DEF PathInv, AskedOK
  <2> QED
    BY <1>7, <2>4, <2>7, <2>8 DEF PathInv
<1> QED
  BY <1>9, <1>11, <1>12, <1>13

\* A case that has made its calls posts the follow-up: a prepared configuration
\* is now a frame to transfer.
LEMMA FollowUpKeepsPath == ASSUME Types, PathInv, SetFollowUp PROVE PathInv'
<1>1. /\ pc = "set" /\ todo = <<>> /\ ~stateChanged /\ Quiet /\ ~shouldStop /\ ~Pending
      /\ todo \in Rests(handling)
  BY DEF SetFollowUp, SM!SetFollowUp, PathInv, OneAtATime, SlotIsRun, Busy, Unloading, CaseCalls, Pending
<1>2. /\ pc' = "wait" /\ stateChanged' = TRUE /\ currentState' = SM!FollowUp(handling)
      /\ UNCHANGED <<shouldStop, got, handling>>
  BY DEF SetFollowUp, SM!SetFollowUp, SM!setStateMachine
<1>3. UNCHANGED <<writer, asked, disk, rxData, todo, message, image, queued, work, started,
                  received, sent>>
  BY DEF SetFollowUp, appVars, dmaVars, workVars
<1>4. Pending' /\ (\A k : ~Runs(k)') /\ (\A k : ~ToRun(k)) /\ (\A k : Runs(k) <=> handling = k)
  BY <1>1, <1>2 DEF Pending, Runs, ToRun
<1>5. \A k : ToRun(k)' <=> SM!FollowUp(handling) = k
  BY <1>2, <1>4 DEF ToRun
<1>6. /\ SM!FollowUp(handling) \in {"SM_IDLE", "SM_PRIMARY_SPI", "SM_DONE"}
      /\ SM!FollowUp(handling) = "SM_PRIMARY_SPI" <=> handling = "SM_RAMDISK_CONFIG"
  BY DEF SM!FollowUp
<1>7. ~Preparing' /\ (Preparing <=> handling = "SM_RAMDISK_CONFIG")
  BY <1>4, <1>5, <1>6 DEF Preparing
<1>8. (Transfer' <=> Transfer) /\ (Transfer => handling \in {"SM_DONE", "SM_PRIMARY_SPI"})
  BY <1>1, <1>3 DEF Transfer, PathInv, OneAtATime, WindingDown, Runs
<1>9. (Loaded <=> Transfer) /\ (Loaded' <=> Transfer \/ handling = "SM_RAMDISK_CONFIG")
  BY <1>1, <1>3, <1>4, <1>5, <1>6, <1>8 DEF Loaded
<1>10. (Copied' <=> Copied) /\ Buffer' = Buffer /\ Item' = Item
  BY <1>3 DEF Copied, Buffer, Item
<1>11. OneAtATime'
  <2>1. WindingDown'
    <3>1. Transfer => SM!FollowUp(handling) \in {"SM_IDLE", "SM_DONE"} /\ ~(queued /\ work = "xfer")
      BY <1>1, <1>6, <1>8 DEF PathInv, OneAtATime, WindingDown
    <3> QED
      BY <1>1, <1>2, <1>3, <1>8, <3>1 DEF WindingDown
  <2>2. SlotIsRun'
    BY <1>2 DEF SlotIsRun, SM!Settled
  <2> QED
    BY <1>1, <1>2, <1>3, <2>1, <2>2 DEF PathInv, OneAtATime, OneWriter, Quiet, Unloading, CaseCalls
<1>12. WriterOK'
  BY <1>1, <1>3 DEF WriterOK, Quiet
<1>13. Counts'
  BY <1>3, <1>7, <1>9, <1>10 DEF PathInv, Counts
<1>14. ItemOK'
  <2>1. CASE handling = "SM_RAMDISK_CONFIG"
    <3>1. Item = <<"SM_RAMDISK_CONFIG", disk>> /\ message = "ramdisk" /\ image = disk
      <4>1. todo # Calls("SM_RAMDISK_CONFIG")
        BY <1>1 DEF Calls
      <4> QED
        BY <1>1, <1>4, <1>7, <2>1, <4>1 DEF PathInv, ConfigOK
    <3>2. ~Transfer
      BY <1>8, <2>1
    <3> QED
      BY <1>3, <1>10, <3>1, <3>2 DEF ItemOK, Buffer, Transfer
  <2>2. CASE handling # "SM_RAMDISK_CONFIG"
    BY <1>3, <1>9, <1>10, <2>2 DEF PathInv, ItemOK
  <2> QED
    BY <2>1, <2>2
<1>15. ConfigOK'
  BY <1>4, <1>7 DEF ConfigOK
<1>16. AskedOK'
  <2>1. \A k : Writes(k)' <=> Writes(k)
    BY <1>3 DEF Writes
  <2> QED
    BY <1>1, <1>3, <1>4, <1>7, <2>1 DEF PathInv, AskedOK
<1> QED
  BY <1>11, <1>12, <1>13, <1>14, <1>15, <1>16 DEF PathInv

\* The worker takes the item, then hands it over or loses it.
LEMMA StartKeepsPath == ASSUME Types, PathInv, StartWork PROVE PathInv'
<1>1. queued /\ work = "idle" /\ ~queued' /\ work' = "xfer" /\ started' = Buffer
  BY DEF StartWork
<1>2. UNCHANGED <<currentState, origin, stateChanged, shouldStop, pc, got, handling,
                  writer, asked, disk, rxData, todo, message, image, received, sent>>
  BY DEF StartWork, smVars, appVars, dmaVars
<1>3. Transfer /\ Transfer' /\ Loaded /\ Loaded'
  BY <1>1 DEF Transfer, Loaded
<1>4. \A k : (ToRun(k)' <=> ToRun(k)) /\ (Runs(k)' <=> Runs(k)) /\ (Writes(k)' <=> Writes(k))
  BY <1>2 DEF ToRun, Runs, Writes, Pending
<1>5. /\ (Preparing' <=> Preparing) /\ (Copied' <=> Copied) /\ Buffer' = Buffer /\ Item' = Item
      /\ (Pending' <=> Pending)
  BY <1>2, <1>4 DEF Preparing, Copied, Buffer, Item, Pending
<1>6. OneAtATime'
  BY <1>1, <1>2, <1>3, <1>5 DEF PathInv, OneAtATime, OneWriter, Busy, Quiet, Unloading, SlotIsRun,
     SM!Settled, SM!slot, CaseCalls, WindingDown, Runs
<1>7. WriterOK' /\ Counts'
  BY <1>2, <1>3, <1>5 DEF PathInv, WriterOK, Counts
<1>8. ItemOK'
  BY <1>1, <1>2, <1>3, <1>5 DEF PathInv, ItemOK
<1>9. ConfigOK'
  BY <1>2, <1>4, <1>5 DEF PathInv, ConfigOK
<1>10. AskedOK'
  BY <1>2, <1>4, <1>5 DEF PathInv, AskedOK
<1> QED
  BY <1>6, <1>7, <1>8, <1>9, <1>10 DEF PathInv

\* What is handed over is the one item under way; losing it is the FPGA's
\* or the link's doing.
LEMMA TransferIsLast ==
    ASSUME Types, PathInv, TransferDone \/ TransferFailed
    PROVE  /\ Len(sent) = Len(received) + 1
           /\ \/ received' = Append(received, sent[Len(sent)])
              \/ SpiMayFail /\ received' = Append(received, Lost)
<1>1. work = "xfer" /\ Loaded
  BY DEF TransferDone, TransferFailed, Loaded, Transfer
<1>2. Buffer = Item /\ started = Item
  BY <1>1 DEF PathInv, ItemOK
<1>3. Len(sent) = Len(received) + 1
  BY <1>1 DEF PathInv, Counts
<1> QED
  BY <1>2, <1>3 DEF TransferDone, TransferFailed, Item

LEMMA EndKeepsPath ==
    ASSUME Types, PathInv, TransferDone \/ TransferFailed
    PROVE  PathInv'
<1>1. work = "xfer" /\ work' = "idle" /\ ~queued /\ ~queued' /\ Quiet /\ todo = <<>> /\ ~shouldStop
  <2>1. Transfer
    BY DEF TransferDone, TransferFailed, Transfer
  <2> QED
    BY <2>1 DEF TransferDone, TransferFailed, PathInv, OneAtATime, Busy, Unloading, WindingDown
<1>2. UNCHANGED <<currentState, origin, stateChanged, shouldStop, pc, got, handling,
                  writer, asked, disk, rxData, todo, message, image, queued, started, sent>>
  BY DEF TransferDone, TransferFailed, smVars, appVars, dmaVars
<1>3. Len(received') = Len(received) + 1 /\ Len(sent) = Len(received) + 1
  <2>1. PICK e : received' = Append(received, e)
    BY DEF TransferDone, TransferFailed
  <2>2. Len(received') = Len(received) + 1
    BY <2>1 DEF Types
  <2> QED
    BY <2>2, TransferIsLast
<1>4. \A k : (ToRun(k)' <=> ToRun(k)) /\ (Runs(k)' <=> Runs(k)) /\ (Writes(k)' <=> Writes(k))
  BY <1>2 DEF ToRun, Runs, Writes, Pending
<1>5. /\ Pending => currentState \in {"SM_DONE", "SM_IDLE"}
      /\ pc = "set" => handling = "SM_DONE" \/ Runs("SM_PRIMARY_SPI")
  BY <1>1 DEF PathInv, OneAtATime, WindingDown, Transfer
<1>6. ~Loaded' /\ ~Preparing' /\ ~Preparing /\ ~Copied'
  <2>1. ~Preparing /\ ~ToRun("SM_PRIMARY_SPI")
    BY <1>5 DEF Preparing, ToRun, Runs
  <2> QED
    BY <1>1, <1>2, <1>4, <2>1 DEF Loaded, Preparing, Transfer, Copied, Quiet
<1>7. OneAtATime'
  <2>1. ~Transfer'
    BY <1>1 DEF Transfer
  <2>2. Pending' <=> Pending
    BY <1>2 DEF Pending
  <2> QED
    BY <1>1, <1>2, <2>1, <2>2 DEF PathInv, OneAtATime, OneWriter, Busy, Quiet, Unloading, SlotIsRun,
       SM!Settled, SM!slot, CaseCalls, WindingDown
<1>8. WriterOK'
  BY <1>1, <1>2 DEF WriterOK, Quiet
<1>9. Counts'
  <2>1. sent \in Seq(Items) /\ received \in Seq(Cargo)
    BY DEF Types, TypeOK
  <2> QED
    BY <1>2, <1>3, <1>6, <2>1 DEF Counts
<1>10. ItemOK' /\ ConfigOK'
  BY <1>1, <1>6 DEF ItemOK, ConfigOK, Preparing
<1>11. AskedOK'
  BY <1>2, <1>4, <1>6 DEF PathInv, AskedOK
<1> QED
  BY <1>7, <1>8, <1>9, <1>10, <1>11 DEF PathInv

\* A paced writer begins only when nothing is under way; what it relies on
\* then stays until it is done.
LEMMA ClearKeepsPath ==
    ASSUME Paced, Types, PathInv, NEW w \in Writers, NEW kind \in Kinds, WriteClear(w, kind)
    PROVE  PathInv'
<1>1. /\ pc = "wait" /\ ~stateChanged /\ Quiet /\ ~queued /\ work = "idle" /\ ~shouldStop
      /\ todo = <<>>
  BY DEF WriteClear, MayWrite, SM!Settled, Quiet, PathInv, OneAtATime, CaseCalls
<1>2. UNCHANGED <<currentState, origin, stateChanged, shouldStop, pc, got, handling,
                  todo, message, image, queued, work, started, received, sent>>
  BY DEF WriteClear, smVars, dmaVars, workVars
<1>3. /\ writer' = [writer EXCEPT ![w] = [at |-> "copy", kind |-> kind, n |-> writes + 1]]
      /\ asked' = IF kind \in {"SM_DMA_NORMAL", "SM_RAMDISK_CONFIG"} THEN kind ELSE asked
      /\ disk' = IF kind = "SM_RAMDISK_CONFIG" THEN writes + 1 ELSE disk
      /\ kind = "SM_PRIMARY_SPI" => asked = "SM_DMA_NORMAL"
  BY DEF WriteClear
<1>4. /\ DOMAIN writer = Writers
      /\ \A v \in Writers : writer'[v] = IF v = w THEN [at |-> "copy", kind |-> kind, n |-> writes + 1]
                                                  ELSE writer[v]
  BY <1>3 DEF Types, TypeOK
<1>5. /\ \A v \in Writers : v # w => writer'[v].at = "out"
      /\ writer'[w].at = "copy" /\ writer'[w].kind = kind /\ writer'[w].n = writes + 1
  BY <1>1, <1>4 DEF Quiet
<1>6. ~Pending /\ ~Pending' /\ ~Transfer /\ ~Transfer' /\ ~Loaded /\ ~Loaded' /\ ~Preparing /\ ~Preparing'
  BY <1>1, <1>2 DEF Pending, Transfer, Loaded, Preparing, ToRun, Runs
<1>7. ~Copied /\ ~Copied'
  BY <1>1, <1>5 DEF Copied, Quiet
<1>8. asked = "SM_DMA_NORMAL" => message = "commander"
  BY <1>1, <1>6 DEF PathInv, AskedOK, Writes, Quiet, ToRun, Runs
<1>9. \A k : Writes(k)' <=> k = kind
  BY <1>5 DEF Writes
<1>10. OneAtATime'
  BY <1>1, <1>2, <1>5, <1>6 DEF PathInv, OneAtATime, OneWriter, Busy, Unloading, SlotIsRun, SM!Settled,
     CaseCalls, WindingDown
<1>11. WriterOK'
  <2>1. kind = "SM_PRIMARY_SPI" => message' = "commander"
    BY <1>2, <1>3, <1>8
  <2>2. kind = "SM_RAMDISK_CONFIG" => disk' = writes + 1
    BY <1>3
  <2> QED
    BY <1>5, <2>1, <2>2 DEF WriterOK
<1>12. Counts' /\ ItemOK' /\ ConfigOK'
  BY <1>1, <1>2, <1>6, <1>7 DEF PathInv, Counts, ItemOK, ConfigOK, Preparing
<1>13. AskedOK'
  BY <1>2, <1>3, <1>6, <1>8, <1>9 DEF AskedOK
<1> QED
  BY <1>10, <1>11, <1>12, <1>13 DEF PathInv

\* The last thing sent is what was appended last.
LEMMA CopyKeepsPath ==
    ASSUME Types, PathInv, NEW w \in Writers, WriteCopy(w)
    PROVE  PathInv'
<1> DEFINE item == <<writer[w].kind, writer[w].n>>
<1>1. /\ writer[w].at = "copy" /\ writer[w].kind \in Kinds /\ writer[w].n \in 1 .. MaxPosts
      /\ rxData' = item
      /\ sent' = IF IsPayload(writer[w].kind) THEN Append(sent, item) ELSE sent
      /\ writer' = [writer EXCEPT ![w].at = "decode"]
  BY DEF WriteCopy, Types, WriterTypes
<1>2. UNCHANGED <<currentState, origin, stateChanged, shouldStop, pc, got, handling,
                  asked, disk, todo, message, image, queued, work, started, received>>
  BY DEF WriteCopy, smVars, dmaVars, workVars
<1>3. ~Quiet /\ ~Pending /\ pc # "set" /\ ~Transfer /\ ~shouldStop
  BY <1>1 DEF Quiet, PathInv, OneAtATime, Busy
<1>4. ~Pending' /\ ~Transfer' /\ ~Loaded /\ ~Loaded' /\ ~Preparing /\ ~Preparing'
  BY <1>2, <1>3 DEF Pending, Transfer, Loaded, Preparing, ToRun, Runs
<1>5. \A v \in Writers : v # w => writer[v].at = "out"
  BY <1>1 DEF PathInv, OneAtATime, OneWriter
<1>6. /\ \A v \in Writers : v # w => writer'[v] = writer[v]
      /\ writer'[w].at = "decode" /\ writer'[w].kind = writer[w].kind /\ writer'[w].n = writer[w].n
  BY <1>1 DEF Types, TypeOK
<1>7. ~Copied /\ (Copied' <=> IsPayload(writer[w].kind))
  BY <1>1, <1>5, <1>6 DEF Copied
<1>8. \A k : Writes(k)' <=> Writes(k)
  BY <1>1, <1>5, <1>6 DEF Writes
<1>9. OneAtATime'
  <2>1. OneWriter'
    BY <1>5, <1>6 DEF OneWriter
  <2>2. ~Busy' /\ WindingDown'
    BY <1>2, <1>3, <1>4 DEF Busy, WindingDown
  <2>3. Unloading' /\ SlotIsRun' /\ CaseCalls'
    BY <1>2, <1>3 DEF PathInv, OneAtATime, Unloading, SlotIsRun, SM!Settled, SM!slot, CaseCalls
  <2> QED
    BY <2>1, <2>2, <2>3 DEF OneAtATime
<1>10. /\ Len(sent') = Len(sent) + (IF IsPayload(writer[w].kind) THEN 1 ELSE 0)
       /\ IsPayload(writer[w].kind) => Item' = item
  <2>1. CASE IsPayload(writer[w].kind)
    <3>1. item \in Items
      BY <1>1, <2>1 DEF IsPayload, Items
    <3>2. sent' = Append(sent, item) /\ sent \in Seq(Items)
      BY <1>1, <2>1 DEF Types, TypeOK
    <3>3. Len(sent') = Len(sent) + 1 /\ sent'[Len(sent) + 1] = item
      BY <3>1, <3>2, AppendProperties
    <3> QED
      BY <2>1, <3>3 DEF Item
  <2>2. CASE ~IsPayload(writer[w].kind)
    BY <1>1, <2>2 DEF Types, TypeOK
  <2> QED
    BY <2>1, <2>2
<1>11. WriterOK'
  <2>1. /\ writer[w].kind = "SM_PRIMARY_SPI" => message' = "commander"
        /\ writer[w].kind = "SM_RAMDISK_CONFIG" => disk' = writer[w].n
    BY <1>1, <1>2 DEF PathInv, WriterOK
  <2> QED
    BY <1>1, <1>5, <1>6, <1>10, <2>1 DEF WriterOK
<1>12. Counts'
  <2>1. Len(sent) = Len(received) /\ Len(received) \in Nat
    BY <1>4, <1>7 DEF PathInv, Counts, Types
  <2> QED
    BY <1>2, <1>4, <1>7, <1>10, <2>1 DEF Counts
<1>13. ItemOK' /\ ConfigOK'
  BY <1>2, <1>3, <1>4 DEF ItemOK, ConfigOK, Transfer, Preparing
<1>14. AskedOK'
  <2>1. \A k : ~ToRun(k) /\ ~Runs(k)
    BY <1>3 DEF ToRun, Runs
  <2> QED
    BY <1>2, <1>4, <1>8, <2>1 DEF PathInv, AskedOK
<1> QED
  BY <1>9, <1>11, <1>12, <1>13, <1>14 DEF PathInv

\* What the buffer decides is what the writer wrote.
LEMMA DecodeKeepsPath ==
    ASSUME Paced, Types, PathInv, NEW w \in Writers, WriteDecode(w)
    PROVE  PathInv'
<1>1. /\ writer[w].at = "decode" /\ writer[w].kind \in Kinds
      /\ writer' = [writer EXCEPT ![w].at = "out"]
  BY DEF WriteDecode, Types, WriterTypes
<1> DEFINE kind == writer[w].kind
<1>2. UNCHANGED <<asked, disk, rxData, todo, message, image, queued, work, started, received, sent>>
  BY DEF WriteDecode, dmaVars, workVars
<1>3. ~Quiet /\ ~Pending /\ pc # "set" /\ ~Transfer /\ ~shouldStop
  BY <1>1 DEF Quiet, PathInv, OneAtATime, Busy
<1>4. /\ rxData = <<kind, writer[w].n>>
      /\ IsPayload(kind) => Item = rxData
      /\ kind = "SM_PRIMARY_SPI" => message = "commander"
      /\ kind = "SM_RAMDISK_CONFIG" => disk = writer[w].n
  BY <1>1 DEF PathInv, WriterOK
<1>5. Decoded = kind
  <2>1. kind # "zeros"
    BY <1>1, ForwardAssumption DEF SM!UserStates
  <2> QED
    BY <1>4, <2>1 DEF Decoded, Nothing
<1>6. /\ pc = "wait" /\ pc' = "wait" /\ stateChanged' = TRUE /\ currentState' = kind
      /\ UNCHANGED <<shouldStop, got, handling>>
  BY <1>5 DEF WriteDecode, SM!Post, SM!Settled, SM!setStateMachine
<1>7. \A v \in Writers : v # w => writer[v].at = "out"
  BY <1>1 DEF PathInv, OneAtATime, OneWriter
<1>8. Quiet'
  BY <1>1, <1>7 DEF Quiet, Types, TypeOK
<1>9. Pending' /\ ~Transfer'
  BY <1>2, <1>3, <1>6 DEF Pending, Transfer
<1>10. /\ \A k : (ToRun(k)' <=> k = kind) /\ ~ToRun(k) /\ ~Runs(k) /\ ~Runs(k)' /\ ~Writes(k)'
       /\ \A k : Writes(k) <=> k = kind
  BY <1>1, <1>3, <1>6, <1>7, <1>8, <1>9 DEF ToRun, Runs, Writes, Quiet
<1>11. (Copied <=> IsPayload(kind)) /\ ~Copied'
  BY <1>1, <1>7, <1>8 DEF Copied, Quiet
<1>12. /\ ~Loaded /\ ~Preparing
       /\ (Loaded' <=> kind = "SM_PRIMARY_SPI") /\ (Preparing' <=> kind = "SM_RAMDISK_CONFIG")
  BY <1>3, <1>9, <1>10 DEF Loaded, Preparing
<1>13. OneAtATime'
  BY <1>2, <1>3, <1>6, <1>8, <1>9 DEF PathInv, OneAtATime, OneWriter, Quiet, Unloading, SlotIsRun,
     SM!Settled, CaseCalls, WindingDown
<1>14. WriterOK'
  BY <1>8 DEF WriterOK, Quiet
<1>15. Counts'
  BY <1>2, <1>11, <1>12 DEF PathInv, Counts, IsPayload
<1>16. ItemOK'
  BY <1>2, <1>4, <1>9, <1>12 DEF ItemOK, Buffer, Item, IsPayload, Transfer
<1>17. ConfigOK'
  BY <1>2, <1>4, <1>10, <1>12 DEF ConfigOK, Item, IsPayload
<1>18. AskedOK'
  BY <1>2, <1>10, <1>12 DEF PathInv, AskedOK
<1> QED
  BY <1>13, <1>14, <1>15, <1>16, <1>17, <1>18 DEF PathInv

LEMMA NextPath == ASSUME Paced PROVE Types /\ PathInv /\ [Next]_vars => PathInv'
<1> SUFFICES ASSUME Types, PathInv, [Next]_vars PROVE PathInv'
  OBVIOUS
<1>1. CASE Thread
  BY <1>1, FetchKeepsPath, SwitchKeepsPath, CallKeepsPath, FollowUpKeepsPath DEF Thread
<1>2. CASE Worker
  BY <1>2, StartKeepsPath, EndKeepsPath DEF Worker
<1>3. CASE Unload
  BY <1>3, UnloadKeepsPath
<1>4. ASSUME NEW w \in Writers, Finish(w) PROVE PathInv'
  BY <1>4, CopyKeepsPath, DecodeKeepsPath DEF Finish
<1>5. ASSUME NEW w \in Writers, NEW kind \in Kinds, WriteClear(w, kind) PROVE PathInv'
  BY <1>5, ClearKeepsPath
<1>6. CASE UNCHANGED vars
  <2>1. /\ UNCHANGED <<appVars, rxData, todo, dmaVars, queued, workVars, sent>>
        /\ UNCHANGED <<currentState, origin, stateChanged, shouldStop, pc, got, handling>>
    BY <1>6 DEF vars, smVars
  <2>2. Pending' <=> Pending
    BY <2>1 DEF Pending
  <2>3. WriterOK' /\ Counts' /\ ItemOK' /\ ConfigOK' /\ AskedOK'
    BY <2>1, <2>2, SamePath
  <2>4. OneAtATime'
    BY <2>1, <2>2 DEF PathInv, OneAtATime, OneWriter, Busy, Quiet, Unloading, SlotIsRun, SM!Settled,
       SM!slot, CaseCalls, WindingDown, Transfer, Runs, appVars, workVars
  <2> QED
    BY <2>3, <2>4 DEF PathInv
<1> QED
  BY <1>1, <1>2, <1>3, <1>4, <1>5, <1>6 DEF Next

LEMMA PathHolds == ASSUME Paced PROVE Spec => [](Types /\ PathInv)
<1>1. Init => Types /\ PathInv
  BY InitTypes, InitPath
<1>2. Types /\ PathInv /\ [Next]_vars => (Types /\ PathInv)'
  BY NextTypes, NextPath
<1> QED
  BY <1>1, <1>2, PTL DEF Spec

-----------------------------------------------------------------------------
(* The theorems.                                                           *)

\* The DMA_NORMAL or RAMDISK_CONFIG that must come first is neither lost nor
\* overtaken: no transfer starts with a DMA message nobody configured
\* (spiDmaCtrl.c:388-389 leaves the primary one alone), for any number of waiting
\* writers.
THEOREM NeverUnconfigured == ASSUME Paced PROVE Spec => []ConfiguredBeforeUse
<1>1. PathInv => ConfiguredBeforeUse
  BY DEF PathInv, ItemOK, Loaded, Transfer, ConfiguredBeforeUse
<1> QED
  BY <1>1, PathHolds, PTL

\* Every step is a step of the abstract link or invisible to it.
LEMMA StepSimulation == Types /\ PathInv /\ [Next]_vars => [FL!Next]_FL!vars
<1> SUFFICES ASSUME Types, PathInv, [Next]_vars PROVE [FL!Next]_FL!vars
  OBVIOUS
<1>1. ASSUME NEW w \in Writers, WriteCopy(w) PROVE [FL!Next]_FL!vars
  <2> DEFINE item == <<writer[w].kind, writer[w].n>>
  <2>1. received' = received
    BY <1>1 DEF WriteCopy, workVars
  <2>2. CASE IsPayload(writer[w].kind)
    <3>1. item \in Items
      BY <1>1, <2>2 DEF WriteCopy, Types, WriterTypes, IsPayload, Items
    <3>2. FL!Send(item)
      BY <1>1, <2>1, <2>2 DEF WriteCopy, FL!Send
    <3> QED
      BY <3>1, <3>2 DEF FL!Next
  <2>3. CASE ~IsPayload(writer[w].kind)
    BY <1>1, <2>1, <2>3 DEF WriteCopy, FL!vars
  <2> QED
    BY <2>2, <2>3
<1>2. CASE TransferDone \/ TransferFailed
  <2>1. /\ Len(sent) = Len(received) + 1
        /\ \/ received' = Append(received, sent[Len(sent)])
           \/ SpiMayFail /\ received' = Append(received, Lost)
    BY <1>2, TransferIsLast
  <2>2. sent' = sent /\ received \in Seq(Cargo)
    BY <1>2 DEF TransferDone, TransferFailed, Types
  <2>3. Len(received) < Len(sent)
    BY <2>1, <2>2
  <2> QED
    BY <2>1, <2>2, <2>3 DEF FL!Next, FL!Deliver, FL!Lose
<1>3. ASSUME UNCHANGED <<sent, received>> PROVE [FL!Next]_FL!vars
  BY <1>3 DEF FL!vars
<1>4. CASE Thread \/ StartWork \/ Unload
  <2>1. UNCHANGED <<sent, received>>
    BY <1>4 DEF Thread, ThreadSteps, Switch, Call, SetFollowUp, StartWork, Unload, workVars
  <2> QED
    BY <1>3, <2>1
<1>5. ASSUME NEW w \in Writers, WriteDecode(w) PROVE [FL!Next]_FL!vars
  BY <1>3, <1>5 DEF WriteDecode, workVars
<1>6. ASSUME NEW w \in Writers, NEW kind \in Kinds, WriteClear(w, kind) PROVE [FL!Next]_FL!vars
  BY <1>3, <1>6 DEF WriteClear, workVars
<1>7. CASE UNCHANGED vars
  BY <1>3, <1>7 DEF vars, workVars
<1> QED
  BY <1>1, <1>2, <1>4, <1>5, <1>6, <1>7 DEF Next, Worker, Finish

\* The safety half of ImplementsFpgaLink: what waiting writers send arrives once,
\* in order and unchanged, or was lost to a transfer that failed.
THEOREM LinkIsFaithful == ASSUME Paced PROVE Spec => FL!Init /\ [][FL!Next]_FL!vars
<1>1. Init => FL!Init
  BY DEF Init, FL!Init
<1> QED
  BY <1>1, StepSimulation, PathHolds, PTL DEF Spec
=============================================================================
