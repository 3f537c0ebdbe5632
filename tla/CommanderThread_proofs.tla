----------------------- MODULE CommanderThread_proofs -----------------------
(***************************************************************************)
(* What module CommanderThread promises for any set of buttons, any number *)
(* of requests, with writes that fail or not.                              *)
(*                                                                         *)
(* The argument for the frames: a frame of the GUI in the shared vector is *)
(* newer than every frame that was written, but between write() and the    *)
(* zeroing of the vector; a frame the GUI puts in during that time is lost,*)
(* and the one just written does not survive it.                           *)
(***************************************************************************)
EXTENDS CommanderThread, TLAPS

\* A frame of the GUI in the vector is still to be written.
FrameIsNewer == tx.from = "gui" /\ pc # "clear" => CS!Last(executed) < tx.n

ExecutedWasPosted == CS!Last(executed) <= posted

\* The inductive invariant.
IInv ==
    /\ TypeOK
    /\ SleepsOnlyWhenIdle
    /\ FrameIsNewer
    /\ ExecutedWasPosted

-----------------------------------------------------------------------------
\* What the shared vector can hold.
LEMMA FrameFields ==
    ASSUME TypeOK
    PROVE  /\ tx.from \in {"gui", "calibration", "nobody", "placeholder"}
           /\ tx.from = "gui" => tx.n \in 1 .. posted
           /\ tx.from = "calibration" => tx.n \in 0 .. 2
  BY DEF TypeOK, Frames, GuiFrame, Offset, Zeros, Placeholder

\* Frames stay frames when more of them are posted.
LEMMA FramesGrow ==
    ASSUME TypeOK, posted' = posted \/ posted' = posted + 1
    PROVE  tx \in Frames'
<1>1. posted \in Nat /\ tx \in Frames
  BY DEF TypeOK
<1>2. 1 .. posted \subseteq 1 .. posted'
  BY <1>1
<1> QED
  BY <1>1, <1>2 DEF Frames, GuiFrame, Offset, Zeros, Placeholder

\* The last number of a history that one more number was appended to.
LEMMA AppendExecuted ==
    ASSUME NEW s \in Seq(Nat), NEW n \in Nat
    PROVE  Append(s, n) \in Seq(Nat) /\ CS!Last(Append(s, n)) = n
<1>1. Append(s, n) \in Seq(Nat) /\ Len(Append(s, n)) = Len(s) + 1
  OBVIOUS
<1>2. Append(s, n) # <<>>
  BY <1>1
<1>3. Append(s, n)[Len(s) + 1] = n
  OBVIOUS
<1> QED
  BY <1>1, <1>2, <1>3 DEF CS!Last

LEMMA LastIsNat ==
    ASSUME NEW s \in Seq(Nat)
    PROVE  CS!Last(s) \in Nat
  BY DEF CS!Last

\* The thread sleeps on exactly one state.
LEMMA CaseType ==
    ASSUME NEW state \in GuiStates \cup {"IO_COM_WRITE_ONLY"}
    PROVE  /\ Case(state) \in {"wait", "write", "offset", "read"}
           /\ Case(state) = "wait" => state = "IO_COM_IDLE"
  BY DEF Case, GuiStates

-----------------------------------------------------------------------------
LEMMA InitIInv == Init => IInv
<1> SUFFICES ASSUME Init PROVE IInv
  OBVIOUS
<1>1. tx \in Frames
  BY DEF Init, Frames
<1>2. executed \in Seq(Nat) /\ axes \in Seq(0 .. 2)
  BY DEF Init
<1>3. m_stateChanged \in BOOLEAN /\ m_threadKill \in BOOLEAN /\ disturbed \in BOOLEAN
  BY Zenon DEF Init
<1>4. /\ m_calibrationCount \in 0 .. 2 /\ asked \in Nat /\ posted \in Nat
      /\ pc = "check" /\ gui = "idle"
  BY DEF Init
<1>5. m_ioState \in GuiStates /\ wanted \in GuiStates
  BY DEF Init, GuiStates
<1>6. TypeOK
  BY <1>1, <1>2, <1>3, <1>4, <1>5, Zenon DEF TypeOK
<1>7. SleepsOnlyWhenIdle /\ FrameIsNewer /\ ExecutedWasPosted
  BY DEF Init, SleepsOnlyWhenIdle, FrameIsNewer, ExecutedWasPosted, Zeros, CS!Last
<1> QED
  BY <1>6, <1>7 DEF IInv

LEMMA NextTypeOK == TypeOK /\ [Next]_vars => TypeOK'
<1> SUFFICES ASSUME TypeOK, [Next]_vars PROVE TypeOK'
  OBVIOUS
<1> USE DEF guiVars, askVars, threadVars
<1>1. CASE GuiPlaceholder
  <2>1. tx' \in Frames'
    BY <1>1 DEF GuiPlaceholder, Frames
  <2> QED
    BY <1>1, <2>1 DEF GuiPlaceholder, Ask, TypeOK
<1>2. ASSUME Fill PROVE tx' \in Frames' /\ posted' \in Nat
  BY <1>2 DEF Fill, Frames, TypeOK
<1>3. CASE GuiVector
  BY <1>2, <1>3 DEF GuiVector, Ask, Fill, TypeOK
<1>4. CASE GuiFill
  BY <1>2, <1>4 DEF GuiFill, Fill, TypeOK
<1>5. ASSUME UNCHANGED <<tx, posted>> PROVE tx' \in Frames'
  BY <1>5, FramesGrow
<1>6. ASSUME NEW state \in Requests, GuiRequest(state) PROVE TypeOK'
  BY <1>5, <1>6, CommanderAssumption DEF GuiRequest, Ask, TypeOK
<1>7. CASE GuiReject \/ Join
  BY <1>5, <1>7 DEF GuiReject, Join, TypeOK
<1>8. CASE setCommanderState \/ triggerCommanderEvent
  BY <1>5, <1>8 DEF setCommanderState, triggerCommanderEvent, TypeOK
<1>9. CASE shutdownThread
  BY <1>5, <1>9 DEF shutdownThread, TypeOK
<1>10. CASE CheckKill \/ waitCommanderEvent
  BY <1>5, <1>10 DEF CheckKill, waitCommanderEvent, TypeOK
<1>11. CASE Switch
  <2>1. pc' \in {"wait", "write", "offset", "read"}
    BY <1>11, CaseType DEF Switch, TypeOK
  <2> QED
    BY <1>5, <1>11, <2>1 DEF Switch, TypeOK
<1>12. CASE Write
  <2>1. executed' \in Seq(Nat)
    BY <1>12, FrameFields DEF Write, TypeOK
  <2>2. axes' \in Seq(0 .. 2)
    BY <1>12, FrameFields DEF Write, TypeOK
  <2> QED
    BY <1>5, <1>12, <2>1, <2>2 DEF Write, TypeOK
<1>13. CASE WriteFails
  BY <1>5, <1>13 DEF WriteFails, TypeOK
<1>14. CASE Clear
  <2>1. tx' \in Frames'
    BY <1>14 DEF Clear, Frames
  <2> QED
    BY <1>14, <2>1 DEF Clear, TypeOK
<1>15. CASE AfterWrite \/ ReadReturns \/ OfferOffset
  <2>1. m_ioState' \in GuiStates \cup {"IO_COM_WRITE_ONLY"}
    BY <1>15 DEF AfterWrite, ReadReturns, OfferOffset, GuiStates
  <2> QED
    BY <1>5, <1>15, <2>1 DEF AfterWrite, ReadReturns, OfferOffset, TypeOK
<1>16. CASE SetOffset
  <2>1. m_calibrationCount' \in 0 .. 2
    BY <1>16 DEF SetOffset, TypeOK
  <2>2. tx' \in Frames'
    BY <1>16 DEF SetOffset, Frames, TypeOK
  <2> QED
    BY <1>16, <2>1, <2>2 DEF SetOffset, TypeOK
<1>17. CASE UNCHANGED vars
  BY <1>5, <1>17 DEF vars, TypeOK
<1> QED
  BY <1>1, <1>3, <1>4, <1>6, <1>7, <1>8, <1>9, <1>10, <1>11, <1>12, <1>13, <1>14, <1>15,
     <1>16, <1>17 DEF Next, Thread, GuiGoesOn

LEMMA NextIInv == IInv /\ [Next]_vars => IInv'
<1> SUFFICES ASSUME IInv, [Next]_vars PROVE IInv'
  OBVIOUS
<1> USE DEF guiVars, askVars, threadVars
<1>0. TypeOK /\ TypeOK'
  BY NextTypeOK DEF IInv
<1>1. CS!Last(executed) \in Nat /\ posted \in Nat /\ CS!Last(executed) <= posted
  BY <1>0, LastIsNat DEF IInv, ExecutedWasPosted, TypeOK
<1>2. SleepsOnlyWhenIdle'
  <2>1. ASSUME NEW state \in Requests, GuiRequest(state) PROVE SleepsOnlyWhenIdle'
    BY <2>1 DEF GuiRequest, Ask, IInv, SleepsOnlyWhenIdle, Asleep
  <2>2. CASE GuiPlaceholder \/ GuiVector \/ GuiFill \/ GuiReject \/ Join \/ shutdownThread
    BY <2>2 DEF GuiPlaceholder, GuiVector, Ask, GuiFill, Fill, GuiReject, Join,
       shutdownThread, IInv, SleepsOnlyWhenIdle, Asleep
  <2>3. CASE setCommanderState \/ triggerCommanderEvent
    BY <2>3 DEF setCommanderState, triggerCommanderEvent, SleepsOnlyWhenIdle, Asleep
  <2>4. CASE Switch
    <3>1. pc' = "wait" => m_ioState = "IO_COM_IDLE"
      BY <1>0, <2>4, CaseType DEF Switch, TypeOK
    <3> QED
      BY <2>4, <3>1 DEF Switch, SleepsOnlyWhenIdle, Asleep
  <2>5. CASE CheckKill \/ waitCommanderEvent \/ Write \/ WriteFails \/ Clear \/ AfterWrite
             \/ ReadReturns \/ SetOffset \/ OfferOffset
    BY <2>5 DEF CheckKill, waitCommanderEvent, Write, WriteFails, Clear, AfterWrite,
       ReadReturns, SetOffset, OfferOffset, SleepsOnlyWhenIdle, Asleep
  <2>6. CASE UNCHANGED vars
    BY <2>6 DEF vars, IInv, SleepsOnlyWhenIdle, Asleep
  <2> QED
    BY <2>1, <2>2, <2>3, <2>4, <2>5, <2>6 DEF Next, Thread, GuiGoesOn
<1>3. FrameIsNewer' /\ ExecutedWasPosted'
  <2>1. ASSUME UNCHANGED executed, Fill PROVE FrameIsNewer' /\ ExecutedWasPosted'
    <3>1. tx'.n = posted + 1 /\ posted' = posted + 1
      BY <2>1 DEF Fill, GuiFrame
    <3> QED
      BY <1>1, <2>1, <3>1 DEF FrameIsNewer, ExecutedWasPosted
  <2>2. CASE GuiVector \/ GuiFill
    BY <2>1, <2>2 DEF GuiVector, GuiFill
  <2>3. ASSUME UNCHANGED <<executed, posted>>, tx'.from # "gui"
        PROVE  FrameIsNewer' /\ ExecutedWasPosted'
    BY <2>3 DEF IInv, FrameIsNewer, ExecutedWasPosted
  <2>4. CASE GuiPlaceholder \/ Clear \/ SetOffset
    BY <2>3, <2>4 DEF GuiPlaceholder, Clear, SetOffset, Placeholder, Zeros, Offset
  <2>5. CASE Write
    <3>1. CASE tx.from = "gui"
      <4>1. tx.n \in 1 .. posted
        BY <1>0, <3>1, FrameFields
      <4>2. CS!Last(executed') = tx.n
        BY <1>0, <2>5, <3>1, <4>1, AppendExecuted DEF Write, TypeOK
      <4> QED
        BY <1>1, <2>5, <4>1, <4>2 DEF Write, FrameIsNewer, ExecutedWasPosted
    <3>2. CASE tx.from # "gui"
      BY <2>3, <2>5, <3>2 DEF Write
    <3> QED
      BY <3>1, <3>2
  <2>6. ASSUME UNCHANGED <<executed, posted, tx>>, pc # "clear"
        PROVE  FrameIsNewer' /\ ExecutedWasPosted'
    BY <2>6 DEF IInv, FrameIsNewer, ExecutedWasPosted
  <2>7. CASE CheckKill \/ Switch \/ waitCommanderEvent \/ WriteFails \/ AfterWrite
             \/ ReadReturns \/ OfferOffset
    BY <2>6, <2>7 DEF CheckKill, Switch, waitCommanderEvent, WriteFails, AfterWrite,
       ReadReturns, OfferOffset
  <2>8. ASSUME UNCHANGED <<executed, posted, tx, pc>>
        PROVE  FrameIsNewer' /\ ExecutedWasPosted'
    BY <2>8 DEF IInv, FrameIsNewer, ExecutedWasPosted
  <2>9. ASSUME NEW state \in Requests, GuiRequest(state)
        PROVE  FrameIsNewer' /\ ExecutedWasPosted'
    BY <2>8, <2>9 DEF GuiRequest
  <2>10. CASE GuiReject \/ setCommanderState \/ triggerCommanderEvent \/ Join \/ shutdownThread
    BY <2>8, <2>10 DEF GuiReject, setCommanderState, triggerCommanderEvent, Join, shutdownThread
  <2>11. CASE UNCHANGED vars
    BY <2>8, <2>11 DEF vars
  <2> QED
    BY <2>2, <2>4, <2>5, <2>7, <2>9, <2>10, <2>11 DEF Next, Thread, GuiGoesOn
<1> QED
  BY <1>0, <1>2, <1>3 DEF IInv

LEMMA Invariance == Spec => []IInv
  BY InitIInv, NextIInv, PTL DEF Spec

-----------------------------------------------------------------------------
\* The thread and the GUI keep every variable in its type; in particular the
\* calibration count never reaches the branch that reports it wrong.
THEOREM TypeCorrect == Spec => []TypeOK
<1>1. IInv => TypeOK
  BY DEF IInv
<1> QED
  BY <1>1, Invariance, PTL

\* No request of the GUI is slept over, though state and event are two steps
\* and the thread stores into the same state.
THEOREM NeverSleptOver == Spec => []SleepsOnlyWhenIdle
<1>1. IInv => SleepsOnlyWhenIdle
  BY DEF IInv
<1> QED
  BY <1>1, Invariance, PTL

\* Each step of the two threads is a step of the service or none.
LEMMA StepSimulation == IInv /\ [Next]_vars => [CS!Next]_CS!vars
<1> SUFFICES ASSUME IInv, [Next]_vars PROVE [CS!Next]_CS!vars
  OBVIOUS
<1> USE DEF guiVars, askVars, threadVars
<1>0. TypeOK
  BY DEF IInv
<1>1. CASE GuiVector \/ GuiFill
  BY <1>1 DEF GuiVector, GuiFill, Fill, CS!Next, CS!Post
<1>2. CASE Write
  <2>1. CASE tx.from = "gui"
    <3>1. tx.n \in 1 .. posted /\ CS!Last(executed) < tx.n
      BY <1>0, <1>2, <2>1, FrameFields DEF Write, IInv, FrameIsNewer
    <3>2. CS!Execute(tx.n)
      BY <1>2, <2>1, <3>1, <1>0 DEF Write, CS!Execute, TypeOK
    <3> QED
      BY <3>1, <3>2 DEF CS!Next
  <2>2. CASE tx.from # "gui"
    BY <1>2, <2>2 DEF Write, CS!vars
  <2> QED
    BY <2>1, <2>2
<1>3. ASSUME NEW state \in Requests, GuiRequest(state) PROVE UNCHANGED CS!vars
  BY <1>3 DEF GuiRequest, CS!vars
<1>4. CASE GuiPlaceholder \/ GuiReject \/ setCommanderState \/ triggerCommanderEvent
           \/ Join \/ shutdownThread
  BY <1>4 DEF GuiPlaceholder, GuiReject, setCommanderState, triggerCommanderEvent, Join,
     shutdownThread, CS!vars
<1>5. CASE CheckKill \/ Switch \/ waitCommanderEvent \/ WriteFails \/ Clear \/ AfterWrite
           \/ ReadReturns \/ SetOffset \/ OfferOffset
  BY <1>5 DEF CheckKill, Switch, waitCommanderEvent, WriteFails, Clear, AfterWrite,
     ReadReturns, SetOffset, OfferOffset, CS!vars
<1>6. CASE UNCHANGED vars
  BY <1>6 DEF vars, CS!vars
<1> QED
  BY <1>1, <1>2, <1>3, <1>4, <1>5, <1>6 DEF Next, Thread, GuiGoesOn

\* The GUI's frames reach the driver at most once and in order, whatever is
\* overwritten, zeroed, rejected or fails to be written.
THEOREM Refinement == Spec => ImplementsCommandService
<1>1. Init => CS!Init
  BY DEF Init, CS!Init
<1> QED
  BY <1>1, StepSimulation, Invariance, PTL DEF Spec, ImplementsCommandService, CS!Spec

-----------------------------------------------------------------------------
(* The calibration, while the GUI asks only of a thread at rest and no     *)
(* write fails.                                                            *)

\* An offset in the vector is still to be written.
Offered == tx.from = "calibration" /\ pc # "clear"

\* The thread leaves neither an offset unwritten nor a calibration unfinished to
\* rest, and the GUI is at work only while it rests.
CalInv ==
    /\ gui \in {"fill", "store", "trigger"} => Asleep
    /\ pc = "offer" => Offered
    /\ Offered =>
         /\ tx.n = Len(axes) % 3 /\ m_calibrationCount = (Len(axes) + 1) % 3
         /\ \/ pc \in {"offer", "write", "exit"}
            \/ pc \in {"check", "switch"} /\ m_ioState = "IO_COM_WRITE_ONLY"
    /\ ~Offered =>
         /\ m_calibrationCount = Len(axes) % 3
         /\ \/ m_calibrationCount = 0
            \/ pc \in {"clear", "after", "offset", "exit"}
            \/ pc \in {"check", "switch"} /\ m_ioState = "IO_COM_SET_CALIBRATION"
    /\ \A k \in DOMAIN axes : axes[k] = (k - 1) % 3

Calibrates == TypeOK /\ (~disturbed => CalInv)

\* Counting in threes.
LEMMA Threes ==
    ASSUME NEW n \in Nat
    PROVE  /\ ((n % 3) + 1) % 3 = (n + 1) % 3
           /\ n % 3 \in 0 .. 2
  OBVIOUS

\* One more offset, the one that is due, keeps the offsets in order.
LEMMA AppendAxis ==
    ASSUME NEW s \in Seq(0 .. 2), NEW a \in 0 .. 2, a = Len(s) % 3,
           \A k \in DOMAIN s : s[k] = (k - 1) % 3
    PROVE  /\ Len(Append(s, a)) = Len(s) + 1
           /\ \A k \in DOMAIN Append(s, a) : Append(s, a)[k] = (k - 1) % 3
<1>1. Len(Append(s, a)) = Len(s) + 1 /\ Len(s) \in Nat
  OBVIOUS
<1>2. ASSUME NEW k \in DOMAIN Append(s, a) PROVE Append(s, a)[k] = (k - 1) % 3
  <2>1. k \in 1 .. Len(s) + 1
    BY <1>1, <1>2
  <2>2. CASE k \in 1 .. Len(s)
    BY <2>2
  <2>3. CASE k = Len(s) + 1
    BY <1>1, <2>3
  <2> QED
    BY <1>1, <2>1, <2>2, <2>3
<1> QED
  BY <1>1, <1>2

LEMMA InitCalibrates == Init => Calibrates
<1> SUFFICES ASSUME Init PROVE Calibrates
  OBVIOUS
<1>1. TypeOK
  BY InitIInv DEF IInv
<1>2. tx.from = "nobody" /\ Len(axes) = 0 /\ DOMAIN axes = {}
  BY DEF Init, Zeros
<1>3. CalInv
  BY <1>2 DEF Init, CalInv, Offered
<1> QED
  BY <1>1, <1>3 DEF Calibrates

LEMMA NextCalibrates == Calibrates /\ [Next]_vars => Calibrates'
<1> SUFFICES ASSUME Calibrates, [Next]_vars PROVE Calibrates'
  OBVIOUS
<1>0. TypeOK /\ TypeOK'
  BY NextTypeOK DEF Calibrates
<1> SUFFICES ASSUME ~disturbed' PROVE CalInv'
  BY <1>0 DEF Calibrates
<1> USE DEF guiVars, askVars, threadVars
<1>1. ~disturbed
  BY DEF Next, Thread, GuiGoesOn, CheckKill, Switch, waitCommanderEvent, Write, WriteFails,
     Clear, AfterWrite, SetOffset, OfferOffset, ReadReturns, GuiReject, GuiFill, Fill,
     setCommanderState, triggerCommanderEvent, Join, GuiPlaceholder, GuiVector,
     shutdownThread, GuiRequest, Ask, vars
<1>2. CalInv
  BY <1>1 DEF Calibrates
<1>3. Len(axes) \in Nat /\ m_calibrationCount \in 0 .. 2 /\ axes \in Seq(0 .. 2)
  BY <1>0 DEF TypeOK
<1>4. CASE GuiPlaceholder \/ GuiVector \/ \E state \in Requests : GuiRequest(state)
  <2>0. Asleep
    BY <1>4, Zenon DEF GuiPlaceholder, GuiVector, GuiRequest, Ask
  <2>1. Asleep' /\ pc = "wait" /\ pc' = "wait" /\ UNCHANGED threadVars
    BY <1>4, <2>0 DEF GuiPlaceholder, GuiVector, GuiRequest, Ask, Fill, Asleep
  <2>2. ~Offered /\ ~Offered'
    BY <1>2, <1>4, <2>1 DEF GuiPlaceholder, GuiVector, GuiRequest, Fill, GuiFrame,
       Placeholder, CalInv, Offered
  <2> QED
    BY <1>2, <2>1, <2>2 DEF CalInv
<1>5. CASE GuiReject \/ GuiFill \/ setCommanderState
  <2>1. Asleep /\ Asleep' /\ pc = "wait" /\ pc' = "wait" /\ UNCHANGED threadVars
    BY <1>2, <1>5 DEF GuiReject, GuiFill, Fill, setCommanderState, CalInv, Asleep
  <2>2. ~Offered /\ ~Offered'
    BY <1>2, <1>5, <2>1 DEF GuiReject, GuiFill, setCommanderState, Fill, GuiFrame,
       CalInv, Offered
  <2> QED
    BY <1>2, <2>1, <2>2 DEF CalInv
<1>6. CASE triggerCommanderEvent \/ Join \/ shutdownThread
  BY <1>2, <1>6 DEF triggerCommanderEvent, Join, shutdownThread, CalInv, Offered
<1>7. CASE CheckKill
  BY <1>2, <1>7 DEF CheckKill, CalInv, Offered, Asleep
<1>8. CASE waitCommanderEvent
  BY <1>2, <1>8 DEF waitCommanderEvent, CalInv, Offered, Asleep
<1>9. CASE Switch
  <2>1. pc' \in {"wait", "write", "offset", "read"}
    BY <1>0, <1>9, CaseType DEF Switch, TypeOK
  <2>2. /\ m_ioState = "IO_COM_WRITE_ONLY" => pc' = "write"
        /\ m_ioState = "IO_COM_SET_CALIBRATION" => pc' = "offset"
    BY <1>9 DEF Switch, Case
  <2> QED
    BY <1>2, <1>9, <2>1, <2>2 DEF Switch, CalInv, Offered, Asleep
<1>10. CASE Write
  <2>1. CASE Offered
    <3>1. /\ tx.n = Len(axes) % 3 /\ tx.n \in 0 .. 2 /\ axes' = Append(axes, tx.n)
          /\ pc' = "clear" /\ ~Offered'
      BY <1>0, <1>2, <1>10, <2>1, FrameFields DEF Write, CalInv, Offered
    <3>2. Len(axes') = Len(axes) + 1 /\ \A k \in DOMAIN axes' : axes'[k] = (k - 1) % 3
      BY <1>2, <1>3, <3>1, AppendAxis DEF CalInv
    <3> QED
      BY <1>2, <1>10, <2>1, <3>1, <3>2 DEF Write, CalInv, Asleep
  <2>2. CASE ~Offered
    BY <1>2, <1>10, <2>2 DEF Write, CalInv, Offered, Asleep
  <2> QED
    BY <2>1, <2>2
<1>11. CASE Clear
  BY <1>2, <1>11 DEF Clear, Zeros, CalInv, Offered, Asleep
<1>12. CASE AfterWrite
  BY <1>2, <1>3, <1>12 DEF AfterWrite, CalInv, Offered, Asleep
<1>13. CASE SetOffset
  <2>1. m_calibrationCount = Len(axes) % 3
    BY <1>2, <1>13 DEF SetOffset, CalInv, Offered
  <2>2. tx'.from = "calibration" /\ tx'.n = Len(axes) % 3
    BY <1>13, <2>1 DEF SetOffset, Offset
  <2>3. m_calibrationCount' = (Len(axes) + 1) % 3
    BY <1>3, <1>13, <2>1, Threes DEF SetOffset
  <2> QED
    BY <1>2, <1>13, <2>2, <2>3 DEF SetOffset, CalInv, Offered, Asleep
<1>14. CASE OfferOffset
  BY <1>2, <1>14 DEF OfferOffset, CalInv, Offered, Asleep
<1>15. CASE ReadReturns
  BY <1>2, <1>15 DEF ReadReturns, CalInv, Offered, Asleep
<1>16. CASE WriteFails
  BY <1>16 DEF WriteFails
<1>17. CASE UNCHANGED vars
  BY <1>2, <1>17 DEF vars, CalInv, Offered, Asleep
<1> QED
  BY <1>4, <1>5, <1>6, <1>7, <1>8, <1>9, <1>10, <1>11, <1>12, <1>13, <1>14, <1>15, <1>16,
     <1>17 DEF Next, Thread, GuiGoesOn

\* While the GUI asks only of a thread at rest and no write fails, the offsets go out
\* x, y, z, each once, and the thread rests only between calibrations.
THEOREM CalibrationsAreWhole == Spec => []CalibrationIsWhole
<1>1. Calibrates => CalibrationIsWhole
  <2> SUFFICES ASSUME Calibrates, ~disturbed PROVE CalibrationIsWhole
    BY DEF CalibrationIsWhole
  <2>1. CalInv
    BY DEF Calibrates
  <2>2. Asleep => m_calibrationCount = 0 /\ ~Offered
    BY <2>1 DEF CalInv, Asleep, Offered
  <2> QED
    BY <2>1, <2>2 DEF CalInv, CalibrationIsWhole
<1> QED
  BY <1>1, InitCalibrates, NextCalibrates, PTL DEF Spec
=============================================================================
