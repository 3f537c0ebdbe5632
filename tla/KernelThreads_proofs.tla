------------------------ MODULE KernelThreads_proofs ------------------------
(***************************************************************************)
(* The two threads of the driver.  First what module StateMachine promises *)
(* for any set of commands, any number of posts and paced or unpaced       *)
(* writers, then that the watchdog never takes a running or unflashed FPGA *)
(* for dead, for every bound on the ticks of a second that the assumption  *)
(* of Watchdog allows.                                                     *)
(*                                                                         *)
(* The state machine: a number that is in the slot, or in the thread's copy of  *)
(* the slot, is newer than everything executed; only a case that has run   *)
(* (pc = "set") leaves its own number behind, and the follow-up state it   *)
(* posts then erases that number.  So the write back, which can bring an   *)
(* old copy back into the slot, never brings an executed one back.         *)
(***************************************************************************)
EXTENDS StateMachine, Watchdog, TLAPS

\* The commands at hand: the slot's, and while the thread holds a copy, its.
Holding == pc \in {"store", "switch"}

\* A number is 0 (the thread's own state) or newer than every executed one.
Newer(n) == n = 0 \/ CS!Last(executed) < n

SlotIsNewer == pc # "set" => Newer(origin)
CopyIsNewer == Holding => Newer(got.origin)
ExecutedWasPosted == CS!Last(executed) <= posted

\* SM_IDLE is never a command.
IdleIsNoCommand ==
    /\ currentState = "SM_IDLE" => origin = 0
    /\ got.state = "SM_IDLE" => got.origin = 0

\* If nothing was posted since, the thread switches on what the slot holds.
SwitchSeesSlot == pc = "switch" /\ ~stateChanged => currentState = got.state

\* The inductive invariant.
IInv ==
    /\ TypeOK
    /\ SlotIsNewer
    /\ CopyIsNewer
    /\ ExecutedWasPosted
    /\ IdleIsNoCommand
    /\ SwitchSeesSlot
    /\ SleepsOnlyWhenIdle

\* With paced writers: either everything posted has run and no number is at
\* hand, or the last one is outstanding and still at hand.
AllRun ==
    /\ posted = Len(executed)
    /\ pc # "set" => origin = 0
    /\ Holding => got.origin = 0

OneOutstanding ==
    /\ posted = Len(executed) + 1
    /\ origin = posted
    /\ Holding => got.origin = posted
    /\ pc # "set"

PacedInv == Paced => AllRun \/ OneOutstanding

-----------------------------------------------------------------------------
\* What executing one more command does to the history.
LEMMA AppendExecuted ==
    ASSUME NEW s \in Seq(Nat), NEW n \in Nat
    PROVE  /\ Append(s, n) \in Seq(Nat)
           /\ Len(Append(s, n)) = Len(s) + 1
           /\ CS!Last(Append(s, n)) = n
<1>1. Append(s, n) \in Seq(Nat) /\ Len(Append(s, n)) = Len(s) + 1
  OBVIOUS
<1>2. Append(s, n) # <<>>
  BY <1>1
<1>3. Append(s, n)[Len(s) + 1] = n
  OBVIOUS
<1> QED
  BY <1>1, <1>2, <1>3 DEF CS!Last

LEMMA LastIsNat ==
    ASSUME NEW s \in Seq(Nat)
    PROVE  CS!Last(s) \in Nat
<1>1. CASE s = <<>>
  BY <1>1 DEF CS!Last
<1>2. CASE s # <<>>
  <2>1. Len(s) \in 1 .. Len(s)
    BY <1>2
  <2> QED
    BY <1>2, <2>1 DEF CS!Last
<1> QED
  BY <1>1, <1>2

\* The follow-up of every state is a state with a case, and only SM_DONE goes
\* back to SM_IDLE.
LEMMA FollowUpType ==
    ASSUME NEW s \in SmStates
    PROVE  FollowUp(s) \in SmStates
  BY DEF FollowUp, SmStates, UserStates

LEMMA InitIInv == Init => IInv
<1> SUFFICES ASSUME Init PROVE IInv
  OBVIOUS
<1>1. TypeOK
  <2>1. "SM_IDLE" \in SmStates
    BY DEF SmStates
  <2>2. executed \in Seq(Nat)
    BY DEF Init
  <2>3. got \in [state : SmStates, origin : 0 .. posted]
    BY <2>1 DEF Init
  <2> QED
    BY <2>1, <2>2, <2>3 DEF Init, TypeOK
<1>2. CS!Last(executed) = 0
  BY DEF Init, CS!Last
<1>3. SlotIsNewer /\ CopyIsNewer /\ ExecutedWasPosted
  BY <1>2 DEF Init, SlotIsNewer, CopyIsNewer, Newer, ExecutedWasPosted
<1>4. IdleIsNoCommand /\ SwitchSeesSlot /\ SleepsOnlyWhenIdle
  BY DEF Init, IdleIsNoCommand, SwitchSeesSlot, SleepsOnlyWhenIdle
<1> QED
  BY <1>1, <1>3, <1>4 DEF IInv

-----------------------------------------------------------------------------
\* Every step keeps the types.
LEMMA NextTypeOK == TypeOK /\ [Next]_vars => TypeOK'
<1> SUFFICES ASSUME TypeOK, [Next]_vars PROVE TypeOK'
  OBVIOUS
<1>1. ASSUME NEW c \in Commands, Post(c) PROVE TypeOK'
  <2>1. c \in SmStates
    BY SmAssumption DEF SmStates
  <2>2. posted' = posted + 1 /\ posted' \in Nat /\ origin' \in 0 .. posted'
    BY <1>1 DEF Post, setStateMachine, TypeOK
  <2>3. got' \in [state : SmStates, origin : 0 .. posted']
    BY <1>1, <2>2 DEF Post, TypeOK
  <2> QED
    BY <1>1, <2>1, <2>2, <2>3 DEF Post, setStateMachine, TypeOK
<1>2. CASE stateMachineDestroy
  BY <1>2 DEF stateMachineDestroy, TypeOK
<1>3. CASE Wake
  BY <1>3 DEF Wake, TypeOK
<1>4. CASE Exit
  BY <1>4 DEF Exit, TypeOK
<1>5. CASE ClearFlag
  BY <1>5 DEF ClearFlag, TypeOK
<1>6. CASE getStateMachine
  BY <1>6 DEF getStateMachine, slot, TypeOK
<1>7. CASE StoreBack
  BY <1>7 DEF StoreBack, TypeOK
<1>8. CASE Switch
  <2> PICK s \in {got, slot} : RunCase(s)
    BY <1>8 DEF Switch
  <2>1. s.state \in SmStates /\ s.origin \in 0 .. posted
    BY DEF slot, TypeOK
  <2>2. executed' \in Seq(Nat)
    BY <2>1, AppendExecuted DEF RunCase, TypeOK
  <2> QED
    BY <1>8, <2>1, <2>2 DEF Switch, RunCase, TypeOK
<1>9. CASE SetFollowUp
  <2>1. FollowUp(handling) \in SmStates
    BY FollowUpType DEF TypeOK
  <2> QED
    BY <1>9, <2>1 DEF SetFollowUp, setStateMachine, TypeOK
<1>10. CASE UNCHANGED vars
  BY <1>10 DEF vars, TypeOK
<1> QED
  BY <1>1, <1>2, <1>3, <1>4, <1>5, <1>6, <1>7, <1>8, <1>9, <1>10 DEF Next, Thread

\* Every step keeps the invariant.
LEMMA NextIInv == IInv /\ [Next]_vars => IInv'
<1> SUFFICES ASSUME IInv, [Next]_vars PROVE IInv'
  OBVIOUS
<1>0. TypeOK /\ TypeOK'
  BY NextTypeOK DEF IInv
<1> USE <1>0
<1> DEFINE last == CS!Last(executed)
<1>last. last \in Nat /\ (executed' = executed => CS!Last(executed)' = last)
  BY LastIsNat DEF TypeOK
<1>1. ASSUME NEW c \in Commands, Post(c) PROVE IInv'
  <2>1. c # "SM_IDLE"
    BY SmAssumption DEF UserStates
  <2>2. /\ currentState' = c /\ origin' = posted + 1 /\ stateChanged' = TRUE
        /\ posted' = posted + 1 /\ CS!Last(executed)' = last
        /\ pc' = pc /\ got' = got
    BY <1>1, <1>last DEF Post, setStateMachine
  <2>3. SlotIsNewer' /\ ExecutedWasPosted'
    BY <2>2, <1>last DEF IInv, SlotIsNewer, ExecutedWasPosted, Newer, TypeOK
  <2>4. CopyIsNewer'
    BY <2>2 DEF IInv, CopyIsNewer, Newer, Holding
  <2> QED
    BY <2>1, <2>2, <2>3, <2>4 DEF IInv, IdleIsNoCommand, SwitchSeesSlot,
       SleepsOnlyWhenIdle, Settled, TypeOK
<1>2. CASE stateMachineDestroy
  BY <1>2, <1>last DEF stateMachineDestroy, IInv, SlotIsNewer, CopyIsNewer, ExecutedWasPosted,
     IdleIsNoCommand, SwitchSeesSlot, SleepsOnlyWhenIdle, Settled, Newer, Holding
<1>3. CASE Wake
  BY <1>3, <1>last DEF Wake, IInv, SlotIsNewer, CopyIsNewer, ExecutedWasPosted,
     IdleIsNoCommand, SwitchSeesSlot, SleepsOnlyWhenIdle, Settled, Newer, Holding
<1>4. CASE Exit
  BY <1>4, <1>last DEF Exit, IInv, SlotIsNewer, CopyIsNewer, ExecutedWasPosted,
     IdleIsNoCommand, SwitchSeesSlot, SleepsOnlyWhenIdle, Settled, Newer, Holding
<1>5. CASE ClearFlag
  BY <1>5, <1>last DEF ClearFlag, IInv, SlotIsNewer, CopyIsNewer, ExecutedWasPosted,
     IdleIsNoCommand, SwitchSeesSlot, SleepsOnlyWhenIdle, Settled, Newer, Holding
<1>6. CASE getStateMachine
  <2>1. got'.state = currentState /\ got'.origin = origin
    BY <1>6 DEF getStateMachine, slot
  <2> QED
    BY <1>6, <2>1, <1>last DEF getStateMachine, IInv, SlotIsNewer, CopyIsNewer, ExecutedWasPosted,
       IdleIsNoCommand, SwitchSeesSlot, SleepsOnlyWhenIdle, Settled, Newer, Holding
<1>7. CASE StoreBack
  BY <1>7, <1>last DEF StoreBack, IInv, SlotIsNewer, CopyIsNewer, ExecutedWasPosted,
     IdleIsNoCommand, SwitchSeesSlot, SleepsOnlyWhenIdle, Settled, Newer, Holding
<1>8. CASE Switch
  <2> PICK s \in {got, slot} : RunCase(s)
    BY <1>8 DEF Switch
  <2>1. s.state \in SmStates /\ s.origin \in 0 .. posted
    BY DEF slot, TypeOK
  <2>2. s.state = "SM_IDLE" => s.origin = 0
    BY DEF slot, IInv, IdleIsNoCommand
  <2>3. ExecutedWasPosted'
    <3>1. CASE s.origin = 0
      BY <1>8, <3>1, <1>last DEF Switch, RunCase, IInv, ExecutedWasPosted
    <3>2. CASE s.origin # 0
      <4>1. CS!Last(executed)' = s.origin
        BY <2>1, <3>2, AppendExecuted DEF RunCase, TypeOK
      <4> QED
        BY <1>8, <2>1, <4>1 DEF Switch, ExecutedWasPosted, TypeOK
    <3> QED
      BY <3>1, <3>2
  <2>4. SlotIsNewer'
    <3>1. CASE s.state = "SM_IDLE"
      BY <1>8, <2>2, <3>1, <1>last DEF Switch, RunCase, IInv, SlotIsNewer, Newer
    <3>2. CASE s.state # "SM_IDLE"
      BY <3>2 DEF RunCase, SlotIsNewer
    <3> QED
      BY <3>1, <3>2
  <2>5. SleepsOnlyWhenIdle'
    BY <1>8 DEF Switch, RunCase, slot, IInv, SwitchSeesSlot, SleepsOnlyWhenIdle, Settled
  <2> QED
    BY <1>8, <2>3, <2>4, <2>5 DEF Switch, RunCase, IInv, CopyIsNewer, Holding,
       IdleIsNoCommand, SwitchSeesSlot
<1>9. CASE SetFollowUp
  BY <1>9, <1>last DEF SetFollowUp, setStateMachine, IInv, SlotIsNewer, CopyIsNewer,
     ExecutedWasPosted,
     IdleIsNoCommand, SwitchSeesSlot, SleepsOnlyWhenIdle, Settled, Newer, Holding
<1>10. CASE UNCHANGED vars
  BY <1>10, <1>last DEF vars, IInv, SlotIsNewer, CopyIsNewer, ExecutedWasPosted,
     IdleIsNoCommand, SwitchSeesSlot, SleepsOnlyWhenIdle, Settled, Newer, Holding
<1> QED
  BY <1>1, <1>2, <1>3, <1>4, <1>5, <1>6, <1>7, <1>8, <1>9, <1>10 DEF Next, Thread

\* The invariant holds in every reachable state.
LEMMA Invariance == Spec => []IInv
  BY InitIInv, NextIInv, PTL DEF Spec

-----------------------------------------------------------------------------
(* The theorems.                                                           *)

\* The types of the variables: the thread never switches on a state without
\* a case, so it never leaves through the default branch.
THEOREM TypeCorrect == Spec => []TypeOK
<1>1. IInv => TypeOK
  BY DEF IInv
<1> QED
  BY <1>1, Invariance, PTL

\* No state is stranded in the slot while the thread sleeps: the flag lowered
\* at stateMachine.c:110 never hides a post.
THEOREM NeverStranded == Spec => []SleepsOnlyWhenIdle
<1>1. IInv => SleepsOnlyWhenIdle
  BY DEF IInv
<1> QED
  BY <1>1, Invariance, PTL

\* Every step is a step of the abstract service or invisible to it.
LEMMA StepSimulation == IInv /\ [Next]_vars => [CS!Next]_CS!vars
<1> SUFFICES ASSUME IInv, [Next]_vars PROVE [CS!Next]_CS!vars
  OBVIOUS
<1>0. TypeOK
  BY DEF IInv
<1>1. ASSUME NEW c \in Commands, Post(c) PROVE CS!Post
  BY <1>1 DEF Post, CS!Post
<1>2. CASE \/ stateMachineDestroy \/ Wake \/ Exit \/ ClearFlag
          \/ getStateMachine \/ StoreBack \/ SetFollowUp
  BY <1>2 DEF stateMachineDestroy, Wake, Exit, ClearFlag, getStateMachine, StoreBack,
     SetFollowUp, CS!vars
<1>3. CASE Switch
  <2> PICK s \in {got, slot} : RunCase(s)
    BY <1>3 DEF Switch
  <2>1. s.origin \in 0 .. posted /\ posted \in Nat
    BY <1>0 DEF slot, TypeOK
  <2>2. Newer(s.origin)
    BY <1>3 DEF Switch, slot, IInv, SlotIsNewer, CopyIsNewer, Holding
  <2>3. CASE s.origin = 0
    BY <1>3, <2>3 DEF Switch, RunCase, CS!vars
  <2>4. CASE s.origin # 0
    <3>1. s.origin \in 1 .. posted /\ CS!Last(executed) < s.origin
      BY <2>1, <2>2, <2>4 DEF Newer
    <3>2. CS!Execute(s.origin)
      BY <1>3, <2>1, <2>4, <3>1 DEF Switch, RunCase, CS!Execute
    <3> QED
      BY <3>1, <3>2 DEF CS!Next
  <2> QED
    BY <2>3, <2>4
<1>4. CASE UNCHANGED vars
  BY <1>4 DEF vars, CS!vars
<1> QED
  BY <1>1, <1>2, <1>3, <1>4 DEF Next, Thread, CS!Next

\* The mailbox and its thread implement the service: no command runs twice,
\* none runs after a later one, whatever the slot is overwritten with.
THEOREM Refinement == Spec => ImplementsCommandService
<1>1. Init => CS!Init
  BY DEF Init, CS!Init
<1> QED
  BY <1>1, StepSimulation, Invariance, PTL DEF Spec, ImplementsCommandService, CS!Spec

\* While every writer waits for the machine to settle, at most one command is
\* outstanding.
LEMMA NextPacedInv == IInv /\ PacedInv /\ [Next]_vars => PacedInv'
<1> SUFFICES ASSUME IInv, PacedInv, [Next]_vars, Paced PROVE (AllRun \/ OneOutstanding)'
  BY DEF PacedInv
<1>0. TypeOK /\ posted \in Nat /\ Len(executed) \in Nat /\ (AllRun \/ OneOutstanding)
  BY DEF IInv, TypeOK, PacedInv
<1>1. ASSUME NEW c \in Commands, Post(c) PROVE OneOutstanding'
  <2>1. pc = "wait" /\ currentState = "SM_IDLE" /\ origin = 0
    BY <1>1 DEF Post, Settled, IInv, SleepsOnlyWhenIdle, IdleIsNoCommand
  <2>2. AllRun
    BY <1>0, <2>1 DEF OneOutstanding
  <2> QED
    BY <1>0, <1>1, <2>1, <2>2 DEF Post, setStateMachine, AllRun, OneOutstanding, Holding
<1>2. CASE stateMachineDestroy \/ Wake \/ Exit \/ ClearFlag
  BY <1>0, <1>2 DEF stateMachineDestroy, Wake, Exit, ClearFlag, AllRun, OneOutstanding, Holding
<1>3. CASE getStateMachine
  <2>1. got'.origin = origin
    BY <1>3 DEF getStateMachine, slot
  <2> QED
    BY <1>0, <1>3, <2>1 DEF getStateMachine, AllRun, OneOutstanding, Holding
<1>4. CASE StoreBack
  BY <1>0, <1>4 DEF StoreBack, AllRun, OneOutstanding, Holding
<1>5. CASE Switch
  <2> PICK s \in {got, slot} : RunCase(s)
    BY <1>5 DEF Switch
  <2>1. s.origin \in Nat /\ (s.state = "SM_IDLE" => s.origin = 0)
    BY <1>0 DEF slot, TypeOK, IInv, IdleIsNoCommand
  <2>2. CASE AllRun
    <3>1. s.origin = 0 /\ origin = 0
      BY <1>5, <2>2 DEF Switch, slot, AllRun, Holding
    <3> QED
      BY <1>5, <2>2, <3>1 DEF Switch, RunCase, AllRun, Holding
  <2>3. CASE OneOutstanding
    <3>1. s.origin = posted /\ posted # 0
      BY <1>0, <1>5, <2>3 DEF Switch, slot, OneOutstanding, Holding
    <3>2. Len(executed') = Len(executed) + 1
      BY <1>0, <2>1, <3>1, AppendExecuted DEF RunCase, TypeOK
    <3> QED
      BY <1>5, <2>1, <2>3, <3>1, <3>2 DEF Switch, RunCase, AllRun, OneOutstanding, Holding
  <2> QED
    BY <1>0, <2>2, <2>3
<1>6. CASE SetFollowUp
  BY <1>0, <1>6 DEF SetFollowUp, setStateMachine, AllRun, OneOutstanding, Holding
<1>7. CASE UNCHANGED vars
  BY <1>0, <1>7 DEF vars, AllRun, OneOutstanding, Holding
<1> QED
  BY <1>1, <1>2, <1>3, <1>4, <1>5, <1>6, <1>7 DEF Next, Thread

\* No command is lost while writers wait: the settling that DroneCtrl gets by
\* sleeping 100 ms between its commands is enough.
THEOREM PacedLosesNothing == Spec => []NothingLostWhenPaced
<1>1. Init => PacedInv
  BY DEF Init, PacedInv, AllRun, Holding
<1>2. PacedInv => NothingLostWhenPaced
  BY DEF PacedInv, AllRun, OneOutstanding, NothingLostWhenPaced
<1> QED
  BY <1>1, <1>2, Invariance, NextPacedInv, PTL DEF Spec

-----------------------------------------------------------------------------
(* The watchdog: the counter and the round.                                *)

\* The counter after n ticks from p: it wraps behind 250, or, started above by
\* the count of the round, behind 255.
After(p, n, c) ==
    \/ c = p + n /\ c <= IF p <= 250 THEN 250 ELSE 255
    \/ c = p + n - 251 /\ p <= 250
    \/ c = p + n - 256 /\ p > 250

\* In the round, its own count comes on top.
InRound(p, n, c) == \E d \in Char : After(p, n, d) /\ c = (d + 1) % 256

\* What links the counter, the ticks and the two bytes in every state.
Counted ==
    /\ round = "sleep" => After(indicatorPrevious, ticks, indicatorCurrent)
    /\ round # "sleep" => InRound(indicatorPrevious, ticks, indicatorCurrent)
    /\ round # "sleep" => txData[1] = indicatorPrevious
    /\ round = "wake" => txData[2] = indicatorCurrent

\* A reader that was woken finds different bytes but in the middle of a round.
Whole ==
    /\ round # "second" /\ (wakeUpDevice \/ reader \in {"lower", "copy"}) => txData[1] # txData[2]
    /\ sameBytes => torn

WatchdogIInv == WatchdogTypeOK /\ Counted /\ Whole /\ NotTakenForDead

-----------------------------------------------------------------------------
(* The arithmetic of the counter.                                          *)

\* One more, modulo 256.
LEMMA NextChar ==
    ASSUME NEW d \in Char
    PROVE  (d + 1) % 256 = (IF d = 255 THEN 0 ELSE d + 1) /\ (d + 1) % 256 \in Char
  BY DEF Char

\* A tick of InterruptFromFPGA_WatchdogISR takes the counter one on.
LEMMA TickCounts ==
    ASSUME NEW p \in Char, NEW c \in Char, NEW n \in 0 .. 199, After(p, n, c)
    PROVE  After(p, n + 1, IF c = 250 THEN 0 ELSE (c + 1) % 256)
<1>. DEFINE c1 == IF c = 250 THEN 0 ELSE (c + 1) % 256
<1>1. c1 = IF c \in {250, 255} THEN 0 ELSE c + 1
  BY NextChar
<1>2. After(p, n + 1, IF c \in {250, 255} THEN 0 ELSE c + 1)
  BY DEF After, Char
<1>. QED
  BY <1>1, <1>2

\* Fewer than 251 ticks and the count of the round never lead back to where the
\* counter was, and lead one on only when there was no tick.
LEMMA RoundDiffers ==
    ASSUME NEW p \in Char, NEW c \in Char, NEW n \in 0 .. 200, InRound(p, n, c)
    PROVE  c # p /\ (n > 0 => c - p # 1)
<1>1. PICK d \in Char : After(p, n, d) /\ c = (d + 1) % 256
  BY DEF InRound
<1>2. c = IF d = 255 THEN 0 ELSE d + 1
  BY <1>1, NextChar
<1>. QED
  BY <1>1, <1>2 DEF After, Char

-----------------------------------------------------------------------------
(* The invariant.                                                          *)

\* It holds when the module is loaded.
LEMMA WatchdogInitIInv == WatchdogInit => WatchdogIInv
<1>. SUFFICES ASSUME WatchdogInit PROVE WatchdogIInv
  OBVIOUS
<1>1. WatchdogTypeOK
  <2>1. 0 \in Char /\ 0 \in 0 .. MaxTicks
    BY WatchdogAssumption DEF Char
  <2>2. txData \in Char \X Char
    BY <2>1 DEF WatchdogInit
  <2>. QED
    BY <2>1, <2>2 DEF WatchdogInit, WatchdogTypeOK
<1>2. Counted /\ Whole /\ NotTakenForDead
  BY DEF WatchdogInit, Counted, Whole, NotTakenForDead, After
<1>. QED
  BY <1>1, <1>2 DEF WatchdogIInv

\* A step of the kernel keeps it.
LEMMA WatchdogKernelIInv ==
    ASSUME WatchdogIInv, WatchdogISR \/ watchdogThread
    PROVE  WatchdogIInv'
<1>. USE WatchdogAssumption DEF WatchdogIInv
<1>1. CASE WatchdogISR
  <2>. DEFINE c1 == IF indicatorCurrent = 250 THEN 0 ELSE (indicatorCurrent + 1) % 256
  <2>1. c1 \in Char
    BY <1>1, NextChar DEF WatchdogTypeOK, Char
  <2>2. ticks \in 0 .. 199
    BY <1>1 DEF WatchdogISR, WatchdogTypeOK
  <2>3. After(indicatorPrevious, ticks + 1, c1)
    BY <1>1, <2>2, TickCounts DEF WatchdogISR, WatchdogTypeOK, Counted
  <2>4. WatchdogTypeOK'
    BY <1>1, <2>1, <2>2 DEF WatchdogISR, appVars, WatchdogTypeOK
  <2>5. Counted'
    BY <1>1, <2>3 DEF WatchdogISR, appVars, Counted
  <2>6. Whole' /\ NotTakenForDead'
    BY <1>1 DEF WatchdogISR, appVars, Whole, NotTakenForDead
  <2>. QED  BY <2>4, <2>5, <2>6
<1>2. CASE RoundBegins
  <2>1. WatchdogTypeOK'
    BY <1>2, NextChar DEF RoundBegins, appVars, histVars, WatchdogTypeOK
  <2>2. InRound(indicatorPrevious, ticks, indicatorCurrent)'
    BY <1>2 DEF RoundBegins, histVars, WatchdogTypeOK, Counted, InRound
  <2>3. Counted'
    BY <1>2, <2>2 DEF RoundBegins, histVars, WatchdogTypeOK, Counted
  <2>4. Whole' /\ NotTakenForDead'
    BY <1>2 DEF RoundBegins, appVars, histVars, Whole, NotTakenForDead
  <2>. QED  BY <2>1, <2>3, <2>4
<1>3. CASE SecondByte
  <2>1. WatchdogTypeOK'
    BY <1>3 DEF SecondByte, appVars, histVars, WatchdogTypeOK
  <2>2. Counted'
    BY <1>3 DEF SecondByte, histVars, WatchdogTypeOK, Counted, InRound
  <2>3. indicatorCurrent # indicatorPrevious
    BY <1>3, RoundDiffers DEF SecondByte, WatchdogTypeOK, Counted
  <2>4. Whole' /\ NotTakenForDead'
    BY <1>3, <2>3 DEF SecondByte, appVars, histVars, WatchdogTypeOK, Counted, Whole, NotTakenForDead
  <2>. QED  BY <2>1, <2>2, <2>4
<1>4. CASE RoundEnds
  <2>1. indicatorCurrent # indicatorPrevious
    BY <1>4, RoundDiffers DEF RoundEnds, WatchdogTypeOK, Counted
  <2>2. WatchdogTypeOK'
    <3>1. Indicator \in BOOLEAN
      BY DEF WatchdogTypeOK, Indicator
    <3>2. (commanderWoken \/ indicatorPrevious = indicatorCurrent) \in BOOLEAN
      OBVIOUS
    <3>3. 0 \in 0 .. MaxTicks
      OBVIOUS
    <3>. QED
      BY <1>4, <3>1, <3>2, <3>3 DEF RoundEnds, appVars, WatchdogTypeOK
  <2>3. Counted'
    BY <1>4 DEF RoundEnds, WatchdogTypeOK, After, Counted, Char
  <2>4. Whole' /\ NotTakenForDead'
    BY <1>4, <2>1 DEF RoundEnds, appVars, Counted, Whole, NotTakenForDead
  <2>. QED  BY <2>2, <2>3, <2>4
<1>. QED
  BY <1>1, <1>2, <1>3, <1>4 DEF watchdogThread

\* A step of the application keeps it.
LEMMA WatchdogApplicationIInv ==
    ASSUME WatchdogIInv, Open \/ threadWatchdog \/ shutdownThread
    PROVE  WatchdogIInv'
<1>. USE DEF WatchdogIInv
<1>1. Counted'
  BY DEF Open, threadWatchdog, CheckKill, ReadWoken, ReadLowerFlag, ReadCopy, Judge,
     shutdownThread, kernelVars, histVars, Counted
<1>2. WatchdogTypeOK'
  <2>1. CASE ReadCopy
    <3>1. (txData[1] = txData[2]) \in BOOLEAN /\ (torn \/ round = "second") \in BOOLEAN
      OBVIOUS
    <3>. QED
      BY <2>1, <3>1 DEF ReadCopy, kernelVars, WatchdogTypeOK
  <2>2. CASE Open \/ CheckKill \/ ReadWoken
    BY <2>2 DEF Open, CheckKill, ReadWoken, kernelVars, histVars, WatchdogTypeOK
  <2>3. CASE ReadLowerFlag
    BY <2>3 DEF ReadLowerFlag, kernelVars, histVars, WatchdogTypeOK
  <2>5. CASE shutdownThread
    BY <2>5 DEF shutdownThread, kernelVars, histVars, WatchdogTypeOK
  <2>4. CASE Judge
    <3>1. CASE sameBytes
      BY <2>4, <3>1 DEF Judge, kernelVars, histVars, WatchdogTypeOK
    <3>2. CASE ~sameBytes
      BY <2>4, <3>2 DEF Judge, kernelVars, histVars, WatchdogTypeOK
    <3>. QED
      BY <3>1, <3>2
  <2>. QED
    BY <2>1, <2>2, <2>3, <2>4, <2>5 DEF threadWatchdog
<1>3. Whole' /\ NotTakenForDead'
  BY DEF WatchdogTypeOK, Open, threadWatchdog, CheckKill, ReadWoken, ReadLowerFlag, ReadCopy, Judge,
     shutdownThread, kernelVars, histVars, Whole, NotTakenForDead
<1>. QED
  BY <1>1, <1>2, <1>3

\* Every step keeps it.
LEMMA WatchdogNextIInv == WatchdogIInv /\ [WatchdogNext]_watchdogVars => WatchdogIInv'
<1>. SUFFICES ASSUME WatchdogIInv, [WatchdogNext]_watchdogVars PROVE WatchdogIInv'
  OBVIOUS
<1>1. CASE WatchdogISR \/ watchdogThread
  BY <1>1, WatchdogKernelIInv
<1>2. CASE Open \/ threadWatchdog \/ shutdownThread
  BY <1>2, WatchdogApplicationIInv
<1>3. CASE UNCHANGED watchdogVars
  BY <1>3 DEF watchdogVars, kernelVars, appVars, histVars, WatchdogIInv, WatchdogTypeOK, Counted,
     Whole, NotTakenForDead
<1>. QED
  BY <1>1, <1>2, <1>3 DEF WatchdogNext

\* The invariant holds in every state.
LEMMA WatchdogAlwaysIInv == WatchdogSpec => []WatchdogIInv
<1>. QED  BY WatchdogInitIInv, WatchdogNextIInv, PTL DEF WatchdogSpec

-----------------------------------------------------------------------------
\* Every variable keeps its type; the counter stays a char.
THEOREM WatchdogTypeCorrect == WatchdogSpec => []WatchdogTypeOK
<1>1. WatchdogIInv => WatchdogTypeOK
  BY DEF WatchdogIInv
<1>. QED  BY <1>1, WatchdogAlwaysIInv, PTL

\* A running or unflashed FPGA is not taken for dead: neither the kernel thread
\* wakes the Commander's reader, nor the application sets m_watchdogDead, but for
\* a copy torn between the stores of the two bytes.
THEOREM RunningIsNotDead == WatchdogSpec => []NotTakenForDead
<1>1. WatchdogIInv => NotTakenForDead
  BY DEF WatchdogIInv
<1>. QED  BY <1>1, WatchdogAlwaysIInv, PTL

\* A round that follows a tick finds the FPGA live, across every wrap.
THEOREM TicksAreNoticed == WatchdogSpec => TickIsNoticed
<1>1. WatchdogIInv /\ [WatchdogNext]_watchdogVars =>
        [round = "wake" /\ round' = "sleep" /\ ticks > 0 => indicatorFPGA']_watchdogVars
  <2>. SUFFICES ASSUME WatchdogIInv, WatchdogNext, round = "wake", round' = "sleep", ticks > 0
                PROVE  indicatorFPGA'
    OBVIOUS
  <2>1. RoundEnds
    BY DEF WatchdogNext, WatchdogISR, watchdogThread, RoundBegins, SecondByte, Open, threadWatchdog,
       CheckKill, ReadWoken, ReadLowerFlag, ReadCopy, Judge, shutdownThread, kernelVars
  <2>2. /\ indicatorCurrent # indicatorPrevious
        /\ indicatorCurrent - indicatorPrevious # 1
    BY WatchdogAssumption, RoundDiffers DEF WatchdogIInv, WatchdogTypeOK, Counted
  <2>. QED
    BY <2>1, <2>2 DEF RoundEnds, Indicator
<1>. QED
  BY <1>1, WatchdogAlwaysIInv, PTL DEF WatchdogSpec, TickIsNoticed
=============================================================================
