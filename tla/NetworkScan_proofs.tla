------------------------- MODULE NetworkScan_proofs --------------------------
(***************************************************************************)
(* For any packets on any number of interfaces, whatever else goes on in   *)
(* the driver: the list of hosts is exact, and packets are handled right,  *)
(* as long as no two handlers run at the same time, though all of them     *)
(* keep their pointers in the same records.  And for any network, users,   *)
(* failures and moment of the unload: nothing is left behind or released   *)
(* twice, and a driver unloaded during a scan uses nothing that is gone.   *)
(***************************************************************************)
EXTENDS NetworkScan, TLAPS, SequenceTheorems

Ats == {"idle", "communication", "transport", "payload", "diagnostic", "icmp", "reply", "add",
        "arp", "asked", "answer", "ndp"}

\* A packet that was decrypted in place keeps all but its layers.
Carried == [kind : Kinds, via : Interfaces, from : Nat, mac : STRING, fit : BOOLEAN, layers : Int]

HandlerType == [at : Ats, packet : Carried \cup {Nothing}, src : Nat \cup {"none"}]
Pointer == Interfaces \cup {"NULL"}

\* q arrived on i, but for its layers.
Arrived(i, q) ==
    \E p \in Packets : /\ p.via = i /\ p.kind = q.kind /\ p.from = q.from
                       /\ p.mac = q.mac /\ p.fit = q.fit

\* A pointer is set before it is read.
SetAt(i) ==
    /\ handler[i].packet # Nothing => Arrived(i, handler[i].packet)
    /\ handler[i].at = "idle" <=> handler[i].packet = Nothing
    /\ handler[i].at = "idle" => handler[i] = Idle
    /\ handler[i].at = "transport" => hookCommunication.ip # "NULL"
    /\ handler[i].at = "payload" => hookCommunication.payload # "NULL"
    /\ handler[i].at = "icmp" => hookDiagnostics.ip # "NULL"
    /\ handler[i].at = "reply" => hookDiagnostics.ip # "NULL" /\ hookDiagnostics.icmp # "NULL"
    /\ handler[i].at = "add" => hookDiagnostics.icmp # "NULL"
    /\ handler[i].at \in {"asked", "answer"} => arpRequest # "NULL"

\* A handler that is alone finds its own packet behind every pointer it set.
Own(i) ==
    /\ \A j \in Interfaces : handler[j].at # "idle" => i = j
    /\ handler[i].at \in {"communication", "transport", "payload", "arp", "asked", "answer", "ndp"}
         => handler[i].packet \in Packets
    /\ handler[i].at = "transport" => hookCommunication.ip = i
    /\ handler[i].at = "payload" => hookCommunication.payload = i /\ handler[i].packet.fit
    /\ handler[i].at = "icmp" => hookDiagnostics.ip = i
    /\ handler[i].at = "reply" => hookDiagnostics = [ip |-> i, icmp |-> i]
    /\ handler[i].at = "add" => /\ hookDiagnostics.icmp = i
                                /\ handler[i].src = handler[i].packet.from
    /\ handler[i].at \in {"asked", "answer"} => arpRequest = i
    /\ handler[i].at = "answer" => Answered(handler[i].packet)

RxOK ==
    /\ handler \in [Interfaces -> HandlerType]
    /\ hookDiagnostics \in [ip : Pointer, icmp : Pointer]
    /\ hookCommunication \in [ip : Pointer, payload : Pointer]
    /\ arpRequest \in Pointer
    /\ overlapped \in BOOLEAN
    /\ \A i \in Interfaces : SetAt(i)
    /\ ~overlapped => \A i \in Interfaces : handler[i].at # "idle" => Own(i)

\* A host is listed once, and when none overlapped it is in the list if it was heard.
Listed ==
    /\ \A host \in DOMAIN active_host_list : active_host_list[host] = 1
    /\ ~overlapped =>
         DOMAIN active_host_list = {<<p.from, p.mac>> : p \in heard} \ unlisted

IInv == scene \in Scenes /\ RxOK /\ Listed /\ PacketsAreHandledRight

\* Packets are carried, and nothing is none of them.
LEMMA CarriedPackets ==
    /\ Packets \subseteq Carried
    /\ Nothing \notin Carried
    /\ Idle \in HandlerType
    /\ \A p \in Carried : aesDecrypt(p) \in Carried
    /\ \A p \in Carried, i \in Interfaces : Arrived(i, p) => Arrived(i, aesDecrypt(p))
    /\ \A p \in Packets : Arrived(p.via, p)
<1>1. Packets \subseteq Carried
  BY ReceiverAssumption DEF Carried
<1>2. Nothing \notin Carried
  BY DEF Nothing, Carried, Kinds
<1>3. Idle \in HandlerType
  BY DEF Idle, HandlerType, Ats
<1>4. \A p \in Carried : aesDecrypt(p) \in Carried
  BY DEF Carried, aesDecrypt
<1>5. \A p \in Carried, i \in Interfaces : Arrived(i, p) => Arrived(i, aesDecrypt(p))
  BY DEF Carried, aesDecrypt, Arrived
<1>6. \A p \in Packets : Arrived(p.via, p)
  BY DEF Arrived
<1>. QED
  BY <1>1, <1>2, <1>3, <1>4, <1>5, <1>6

\* Before anything arrived.
LEMMA InitIInv == Init => IInv
<1>. SUFFICES ASSUME Init PROVE IInv
  OBVIOUS
<1>1. /\ handler = [i \in Interfaces |-> Idle]
      /\ hookDiagnostics = [ip |-> "NULL", icmp |-> "NULL"]
      /\ hookCommunication = [ip |-> "NULL", payload |-> "NULL"]
      /\ arpRequest = "NULL" /\ overlapped = FALSE /\ active_host_list = EmptyBag
      /\ heard = {} /\ unlisted = {} /\ read = {} /\ answers = {}
  BY DEF Init, RxInit
<1>2. RxOK
  <2>1. \A i \in Interfaces : handler[i] = Idle
    BY <1>1
  <2>2. \A i \in Interfaces : SetAt(i)
    BY <2>1 DEF SetAt, Idle
  <2>3. \A i \in Interfaces : handler[i].at = "idle"
    BY <2>1 DEF Idle
  <2>. QED
    BY <1>1, <2>2, <2>3, CarriedPackets DEF RxOK, Pointer
<1>3. Listed
  BY <1>1 DEF Listed, EmptyBag, SetToBag
<1>4. PacketsAreHandledRight
  BY <1>1 DEF PacketsAreHandledRight, AnswersTheAllowed, ReadsWhatWasSent
<1>. QED
  BY <1>2, <1>3, <1>4 DEF IInv, Init

-----------------------------------------------------------------------------
(* The handlers.                                                           *)

PointersOK ==
    /\ hookDiagnostics \in [ip : Pointer, icmp : Pointer]
    /\ hookCommunication \in [ip : Pointer, payload : Pointer]
    /\ arpRequest \in Pointer

\* Pointers are set and not taken back.
Kept ==
    /\ PointersOK'
    /\ hookDiagnostics.ip # "NULL" => hookDiagnostics'.ip # "NULL"
    /\ hookDiagnostics.icmp # "NULL" => hookDiagnostics'.icmp # "NULL"
    /\ hookCommunication.ip # "NULL" => hookCommunication'.ip # "NULL"
    /\ hookCommunication.payload # "NULL" => hookCommunication'.payload # "NULL"
    /\ arpRequest # "NULL" => arpRequest' # "NULL"

\* What a step of one handler has to keep.
LEMMA OneMoves ==
    ASSUME RxOK, NEW i \in Interfaces, handler[i].at # "idle", Kept, overlapped' = overlapped,
           NEW h \in HandlerType, handler' = [handler EXCEPT ![i] = h],
           SetAt(i)', ~overlapped /\ Own(i) /\ h.at # "idle" => Own(i)'
    PROVE  RxOK'
<1>1. /\ handler' \in [Interfaces -> HandlerType]
      /\ handler'[i] = h /\ \A j \in Interfaces \ {i} : handler'[j] = handler[j]
  BY DEF RxOK
<1>2. \A j \in Interfaces : SetAt(j)'
  BY <1>1 DEF RxOK, SetAt, Kept
<1>3. ASSUME ~overlapped', NEW j \in Interfaces, handler'[j].at # "idle" PROVE Own(j)'
  <2>1. Own(i)
    BY <1>3 DEF RxOK
  <2>2. j = i
    BY <1>1, <1>3, <2>1 DEF Own
  <2>. QED
    BY <1>1, <1>3, <2>1, <2>2
<1>. QED
  BY <1>1, <1>2, <1>3 DEF RxOK, Kept, PointersOK

Quiet4 == UNCHANGED <<active_host_list, heard, unlisted, answers>>

\* receiverHookCommunication keeps it.
LEMMA CommunicationRxOK ==
    ASSUME RxOK, NEW i \in Interfaces, HookCommunication(i) \/ Transport(i)
    PROVE  RxOK'
<1>1. CASE HookCommunication(i)
  <2>. DEFINE h == [handler[i] EXCEPT !.at = "transport"]
  <2>1. /\ handler[i].at = "communication" /\ overlapped' = overlapped
        /\ handler' = [handler EXCEPT ![i] = h]
        /\ hookCommunication' = [hookCommunication EXCEPT !.ip = i]
        /\ UNCHANGED <<hookDiagnostics, arpRequest>>
    BY <1>1 DEF HookCommunication, GoTo, rxRest
  <2>2. handler[i] \in HandlerType /\ h \in HandlerType
    BY DEF RxOK, HandlerType, Ats
  <2>3. handler'[i] = h
    BY <2>1 DEF RxOK
  <2>4. Kept
    BY <2>1, ReceiverAssumption DEF RxOK, Kept, PointersOK, Pointer
  <2>5. SetAt(i)'
    BY <2>1, <2>2, <2>3, ReceiverAssumption DEF RxOK, SetAt, HandlerType
  <2>6. ~overlapped /\ Own(i) => Own(i)'
    BY <2>1, <2>2, <2>3 DEF RxOK, Own, HandlerType
  <2>. QED
    BY <2>1, <2>2, <2>4, <2>5, <2>6, OneMoves
<1>2. CASE Transport(i)
  <2>1. /\ handler[i].at = "transport" /\ overlapped' = overlapped
        /\ UNCHANGED <<hookDiagnostics, arpRequest>>
    BY <1>2 DEF Transport, rxRest
  <2>2. PICK p \in Behind(hookCommunication.ip) :
           \/ /\ p.kind \in {"udp", "tcp"} /\ p.fit
              /\ hookCommunication' = [hookCommunication EXCEPT !.payload =
                                         IF p.kind = "udp" THEN i ELSE hookCommunication.ip]
              /\ GoTo(i, "payload")
           \/ UNCHANGED hookCommunication /\ GoTo(i, "diagnostic")
    BY <1>2 DEF Transport
  <2>3. PICK at \in {"payload", "diagnostic"} :
           /\ handler' = [handler EXCEPT ![i] = [@ EXCEPT !.at = at]]
           /\ at = "diagnostic" => hookCommunication' = hookCommunication
           /\ at = "payload" =>
                /\ hookCommunication' = [hookCommunication EXCEPT !.payload =
                                            IF p.kind = "udp" THEN i ELSE hookCommunication.ip]
                /\ p.fit
    BY <2>2 DEF GoTo
  <2>. DEFINE h == [handler[i] EXCEPT !.at = at]
  <2>4. handler[i] \in HandlerType /\ h \in HandlerType
    BY DEF RxOK, HandlerType, Ats
  <2>5. handler'[i] = h /\ handler' = [handler EXCEPT ![i] = h]
    BY <2>3 DEF RxOK
  <2>6. hookCommunication.ip # "NULL" /\ hookCommunication \in [ip : Pointer, payload : Pointer]
    BY <2>1 DEF RxOK, SetAt
  <2>7. Kept
    BY <2>1, <2>3, <2>6, ReceiverAssumption DEF RxOK, Kept, PointersOK, Pointer
  <2>8. SetAt(i)'
    BY <2>1, <2>3, <2>4, <2>5, <2>6, ReceiverAssumption DEF RxOK, SetAt, HandlerType
  <2>9. ASSUME ~overlapped, Own(i) PROVE Own(i)'
    <3>1. hookCommunication.ip = i /\ handler[i].packet \in Packets /\ p = handler[i].packet
      BY <2>1, <2>9, CarriedPackets DEF Own, Behind
    <3>. QED
      BY <2>1, <2>3, <2>4, <2>5, <2>6, <2>9, <3>1 DEF RxOK, Own, HandlerType
  <2>. QED
    BY <2>1, <2>4, <2>5, <2>7, <2>8, <2>9, OneMoves
<1>. QED
  BY <1>1, <1>2

\* A handler that is done has nothing left to keep.
LEMMA DoneRxOK ==
    ASSUME RxOK, NEW i \in Interfaces, handler[i].at # "idle", Kept, overlapped' = overlapped,
           Done(i)
    PROVE  RxOK'
<1>1. handler' = [handler EXCEPT ![i] = Idle] /\ handler'[i] = Idle
  BY DEF Done, RxOK
<1>2. SetAt(i)' /\ Idle.at = "idle"
  BY <1>1 DEF SetAt, Idle
<1>. QED
  BY <1>1, <1>2, OneMoves, CarriedPackets

\* receiverHookDiagnostic keeps it.
LEMMA DiagnosticRxOK ==
    ASSUME RxOK, NEW i \in Interfaces, HookDiagnostic(i) \/ Icmp(i) \/ Reply(i)
    PROVE  RxOK'
<1>0. handler[i] \in HandlerType /\ PointersOK
  BY DEF RxOK, PointersOK
<1>1. CASE HookDiagnostic(i)
  <2>. DEFINE h == [handler[i] EXCEPT !.at = "icmp"]
  <2>1. /\ handler[i].at = "diagnostic" /\ overlapped' = overlapped
        /\ handler' = [handler EXCEPT ![i] = h]
        /\ hookDiagnostics' = [hookDiagnostics EXCEPT !.ip = i]
        /\ UNCHANGED <<hookCommunication, arpRequest>>
    BY <1>1 DEF HookDiagnostic, GoTo, rxRest
  <2>2. h \in HandlerType /\ handler'[i] = h
    BY <1>0, <2>1 DEF RxOK, HandlerType, Ats
  <2>3. Kept
    BY <1>0, <2>1, ReceiverAssumption DEF Kept, PointersOK, Pointer
  <2>4. SetAt(i)'
    BY <1>0, <2>1, <2>2, ReceiverAssumption DEF RxOK, PointersOK, SetAt, HandlerType
  <2>5. ~overlapped /\ Own(i) => Own(i)'
    BY <1>0, <2>1, <2>2 DEF RxOK, PointersOK, Own, HandlerType
  <2>. QED
    BY <2>1, <2>2, <2>3, <2>4, <2>5, OneMoves
<1>2. CASE Icmp(i)
  <2>. DEFINE h == [handler[i] EXCEPT !.at = "reply"]
  <2>1. /\ handler[i].at = "icmp" /\ overlapped' = overlapped
        /\ UNCHANGED <<hookCommunication, arpRequest>>
        /\ \/ /\ hookDiagnostics' = [hookDiagnostics EXCEPT !.icmp = i]
              /\ handler' = [handler EXCEPT ![i] = h]
           \/ UNCHANGED hookDiagnostics /\ Done(i)
    BY <1>2 DEF Icmp, GoTo, rxRest
  <2>2. hookDiagnostics.ip # "NULL"
    BY <2>1 DEF RxOK, SetAt
  <2>3. Kept
    BY <1>0, <2>1, ReceiverAssumption DEF Kept, PointersOK, Pointer
  <2>4. CASE Done(i)
    BY <2>1, <2>3, <2>4, DoneRxOK
  <2>5. CASE /\ hookDiagnostics' = [hookDiagnostics EXCEPT !.icmp = i]
             /\ handler' = [handler EXCEPT ![i] = h]
    <3>1. h \in HandlerType /\ handler'[i] = h
      BY <1>0, <2>5 DEF RxOK, HandlerType, Ats
    <3>2. SetAt(i)'
      BY <1>0, <2>1, <2>2, <2>5, <3>1, ReceiverAssumption DEF RxOK, PointersOK, SetAt, HandlerType
    <3>3. ~overlapped /\ Own(i) => Own(i)'
      BY <1>0, <2>1, <2>5, <3>1 DEF RxOK, PointersOK, Own, HandlerType
    <3>. QED
      BY <2>1, <2>3, <2>5, <3>1, <3>2, <3>3, OneMoves
  <2>. QED
    BY <2>1, <2>4, <2>5
<1>3. CASE Reply(i)
  <2>1. /\ handler[i].at = "reply" /\ overlapped' = overlapped
        /\ UNCHANGED <<hookDiagnostics, hookCommunication, arpRequest>>
        /\ hookDiagnostics.ip # "NULL" /\ hookDiagnostics.icmp # "NULL"
    BY <1>3 DEF Reply, rxRest, RxOK, SetAt
  <2>2. Kept
    BY <1>0, <2>1 DEF Kept, PointersOK
  <2>3. CASE Done(i)
    BY <2>1, <2>2, <2>3, DoneRxOK
  <2>4. ASSUME NEW q \in Behind(hookDiagnostics.ip),
               handler' = [handler EXCEPT ![i].at = "add", ![i].src = q.from]
        PROVE  RxOK'
    <3>. DEFINE h == [handler[i] EXCEPT !.at = "add", !.src = q.from]
    <3>1. q \in Carried
      <4>1. hookDiagnostics.ip \in Interfaces
        BY <1>0, <2>1 DEF PointersOK, Pointer
      <4>. QED
        BY <4>1, CarriedPackets DEF Behind, RxOK, HandlerType
    <3>2. h \in HandlerType
      BY <1>0, <3>1 DEF HandlerType, Ats, Carried
    <3>3. handler'[i] = h /\ handler' = [handler EXCEPT ![i] = h]
      BY <2>4 DEF RxOK
    <3>4. SetAt(i)'
      BY <1>0, <2>1, <3>3 DEF RxOK, SetAt, HandlerType
    <3>5. ~overlapped /\ Own(i) => Own(i)'
      <4>1. SUFFICES ASSUME ~overlapped, Own(i) PROVE Own(i)'
        OBVIOUS
      <4>2. hookDiagnostics.ip = i /\ hookDiagnostics.icmp = i /\ handler[i].packet # Nothing
        BY <2>1, <4>1 DEF Own, RxOK, SetAt
      <4>3. q = handler[i].packet
        BY <4>2 DEF Behind
      <4>. QED
        BY <1>0, <2>1, <2>4, <3>3, <4>1, <4>2, <4>3 DEF RxOK, Own, HandlerType
    <3>. QED
      BY <2>1, <2>2, <3>2, <3>3, <3>4, <3>5, OneMoves
  <2>. QED
    BY <1>3, <2>3, <2>4 DEF Reply
<1>. QED
  BY <1>1, <1>2, <1>3

\* arpReceive and ndpReceive keep it.
LEMMA PacksRxOK ==
    ASSUME RxOK, NEW i \in Interfaces,
           arpReceive(i) \/ handleArpRequest(i) \/ ArpAnswer(i) \/ ndpReceive(i)
    PROVE  RxOK'
<1>0. handler[i] \in HandlerType /\ PointersOK
  BY DEF RxOK, PointersOK
<1>1. handler[i].at # "idle" /\ overlapped' = overlapped /\ Kept
  <2>1. /\ handler[i].at # "idle" /\ overlapped' = overlapped
        /\ UNCHANGED <<hookDiagnostics, hookCommunication>>
        /\ arpRequest' \in {i, arpRequest}
    BY DEF arpReceive, handleArpRequest, ArpAnswer, ndpReceive, rxHooks
  <2>. QED
    BY <1>0, <2>1, ReceiverAssumption DEF Kept, PointersOK, Pointer
<1>2. CASE Done(i)
  BY <1>1, <1>2, DoneRxOK
<1>3. CASE arpReceive(i) /\ GoTo(i, "asked") /\ arpRequest' = i
  <2>. DEFINE h == [handler[i] EXCEPT !.at = "asked"]
  <2>1. handler' = [handler EXCEPT ![i] = h] /\ handler[i].at = "arp"
        /\ UNCHANGED <<hookDiagnostics, hookCommunication>>
    BY <1>3 DEF GoTo, arpReceive, rxHooks
  <2>2. h \in HandlerType /\ handler'[i] = h
    BY <1>0, <2>1 DEF RxOK, HandlerType, Ats
  <2>3. SetAt(i)'
    BY <1>0, <1>3, <2>1, <2>2, ReceiverAssumption DEF RxOK, SetAt, HandlerType
  <2>4. ~overlapped /\ Own(i) => Own(i)'
    BY <1>0, <1>3, <2>1, <2>2 DEF RxOK, Own, HandlerType
  <2>. QED
    BY <1>1, <2>1, <2>2, <2>3, <2>4, OneMoves
<1>4. CASE handleArpRequest(i) /\ ~Done(i)
  <2>. DEFINE h == [handler[i] EXCEPT !.at = "answer"]
  <2>1. PICK p \in Behind(arpRequest) : Answered(p) /\ GoTo(i, "answer")
    BY <1>4 DEF handleArpRequest
  <2>2. /\ handler' = [handler EXCEPT ![i] = h] /\ handler[i].at = "asked"
        /\ UNCHANGED <<hookDiagnostics, hookCommunication, arpRequest>>
    BY <1>4, <2>1 DEF GoTo, handleArpRequest, rxHooks
  <2>3. h \in HandlerType /\ handler'[i] = h
    BY <1>0, <2>2 DEF RxOK, HandlerType, Ats
  <2>4. SetAt(i)'
    BY <1>0, <2>2, <2>3, ReceiverAssumption DEF RxOK, SetAt, HandlerType
  <2>5. ~overlapped /\ Own(i) => Own(i)'
    <3>1. SUFFICES ASSUME ~overlapped, Own(i) PROVE Own(i)'
      OBVIOUS
    <3>2. arpRequest = i /\ handler[i].packet # Nothing
      BY <2>2, <3>1 DEF Own, RxOK, SetAt
    <3>3. p = handler[i].packet
      BY <2>1, <3>2 DEF Behind
    <3>. QED
      BY <1>0, <2>1, <2>2, <2>3, <3>1, <3>2, <3>3 DEF RxOK, Own, HandlerType
  <2>. QED
    BY <1>1, <2>2, <2>3, <2>4, <2>5, OneMoves
<1>. QED
  BY <1>2, <1>3, <1>4 DEF arpReceive, handleArpRequest, ArpAnswer, ndpReceive

\* Decrypting keeps it; a handler that is alone decrypts its own packet.
LEMMA PayloadFacts ==
    ASSUME RxOK, NEW i \in Interfaces, handler[i].at = "payload", NEW ok \in BOOLEAN,
           Decrypt(i, ok)
    PROVE  LET p == hookCommunication.payload IN
           /\ p \in Interfaces /\ handler' \in [Interfaces -> HandlerType]
           /\ \A j \in Interfaces :
                /\ handler'[j].at = IF j = i THEN "diagnostic" ELSE handler[j].at
                /\ handler'[j].src = handler[j].src
                /\ handler'[j].packet = IF j = p /\ ok /\ handler[j].packet # Nothing
                                       THEN aesDecrypt(handler[j].packet) ELSE handler[j].packet
<1>. DEFINE p == hookCommunication.payload
            new == IF ok /\ handler[p].packet # Nothing THEN aesDecrypt(handler[p].packet)
                   ELSE handler[p].packet
            mid == [handler EXCEPT ![p] = [handler[p] EXCEPT !.packet = new]]
<1>1. p \in Interfaces /\ handler \in [Interfaces -> HandlerType]
  BY DEF RxOK, SetAt, Pointer
<1>2. handler[p] \in HandlerType /\ new \in Carried \cup {Nothing}
  BY <1>1, CarriedPackets DEF HandlerType
<1>3. [handler[p] EXCEPT !.packet = new] \in HandlerType
  BY <1>2 DEF HandlerType
<1>4. mid \in [Interfaces -> HandlerType] /\ mid[i] \in HandlerType
  BY <1>1, <1>3
<1>5. [mid[i] EXCEPT !.at = "diagnostic"] \in HandlerType
  BY <1>4 DEF HandlerType, Ats
<1>6. handler' = [mid EXCEPT ![i] = [mid[i] EXCEPT !.at = "diagnostic"]]
  BY <1>1 DEF Decrypt
<1>7. handler' \in [Interfaces -> HandlerType]
  BY <1>4, <1>5, <1>6
<1>8. ASSUME NEW j \in Interfaces
      PROVE  /\ handler'[j].at = IF j = i THEN "diagnostic" ELSE handler[j].at
             /\ handler'[j].src = handler[j].src
             /\ handler'[j].packet = IF j = p /\ ok /\ handler[j].packet # Nothing
                                    THEN aesDecrypt(handler[j].packet) ELSE handler[j].packet
  <2>1. handler[j] \in HandlerType /\ mid[j] \in HandlerType
    BY <1>1, <1>4
  <2>2. /\ mid[j].at = handler[j].at /\ mid[j].src = handler[j].src
        /\ mid[j].packet = IF j = p THEN new ELSE handler[j].packet
    BY <1>1, <2>1 DEF HandlerType
  <2>3. handler'[j] = IF j = i THEN [mid[j] EXCEPT !.at = "diagnostic"] ELSE mid[j]
    BY <1>4, <1>6
  <2>. HIDE DEF mid
  <2>. QED
    BY <2>1, <2>2, <2>3 DEF HandlerType
<1>. QED
  BY <1>1, <1>7, <1>8

\* Decrypting sets no pointer, and what was decrypted arrived all the same.
LEMMA PayloadRxOK ==
    ASSUME RxOK, NEW i \in Interfaces, Payload(i)
    PROVE  RxOK'
<1>1. PICK ok \in BOOLEAN : Decrypt(i, ok)
  BY DEF Payload
<1>2. /\ handler[i].at = "payload"
      /\ UNCHANGED <<hookDiagnostics, hookCommunication, arpRequest, overlapped>>
  BY DEF Payload, rxRest
<1>. DEFINE p == hookCommunication.payload
<1>3. /\ p \in Interfaces /\ handler' \in [Interfaces -> HandlerType]
      /\ \A j \in Interfaces :
           /\ handler'[j].at = IF j = i THEN "diagnostic" ELSE handler[j].at
           /\ handler'[j].src = handler[j].src
           /\ handler'[j].packet = IF j = p /\ ok /\ handler[j].packet # Nothing
                                  THEN aesDecrypt(handler[j].packet) ELSE handler[j].packet
  BY <1>1, <1>2, PayloadFacts
<1>4. \A j \in Interfaces : handler'[j].packet = Nothing <=> handler[j].packet = Nothing
  BY <1>3, CarriedPackets DEF RxOK, HandlerType
<1>5. ASSUME NEW j \in Interfaces PROVE SetAt(j)'
  <2>1. SetAt(j) /\ handler[j] \in HandlerType /\ handler'[j] \in HandlerType
    BY <1>3 DEF RxOK
  <2>4. handler[j].packet # Nothing => handler[j].packet \in Carried
    BY <2>1 DEF HandlerType
  <2>5. handler'[j].packet # Nothing => Arrived(j, handler'[j].packet)
    <3>1. SUFFICES ASSUME handler[j].packet # Nothing PROVE Arrived(j, handler'[j].packet)
      BY <1>4
    <3>2. Arrived(j, handler[j].packet) /\ Arrived(j, aesDecrypt(handler[j].packet))
      BY <2>1, <2>4, <3>1, CarriedPackets DEF SetAt
    <3>3. handler'[j].packet \in {handler[j].packet, aesDecrypt(handler[j].packet)}
      BY <1>3
    <3>. QED
      BY <3>2, <3>3
  <2>2. CASE j = i
    BY <1>2, <1>3, <1>4, <2>1, <2>5, <2>2 DEF SetAt
  <2>3. CASE j # i
    <3>1. handler'[j].at = "idle" => handler'[j] = Idle
      BY <1>3, <1>4, <2>1, <2>3 DEF SetAt, HandlerType, Idle
    <3>. QED
      BY <1>2, <1>3, <1>4, <2>1, <2>5, <2>3, <3>1 DEF SetAt
  <2>. QED
    BY <2>2, <2>3
<1>6. ASSUME ~overlapped', NEW j \in Interfaces, handler'[j].at # "idle" PROVE Own(j)'
  <2>1. Own(i)
    BY <1>2, <1>6 DEF RxOK
  <2>2. j = i
    BY <1>3, <1>6, <2>1 DEF Own
  <2>. QED
    BY <1>3, <2>1, <2>2 DEF Own
<1>. QED
  BY <1>2, <1>3, <1>5, <1>6 DEF RxOK

\* A packet that arrives alone has no pointer yet.
LEMMA ArriveRxOK ==
    ASSUME RxOK, NEW i \in Interfaces, NEW p \in Packets, Arrive(i, p)
    PROVE  RxOK'
<1>. DEFINE h == [at |-> Entry(p.kind), packet |-> p, src |-> "none"]
<1>1. h \in HandlerType /\ h.at \in {"communication", "arp", "ndp"}
  BY CarriedPackets DEF Entry, HandlerType, Ats
<1>2. /\ handler' = [handler EXCEPT ![i] = h] /\ handler[i] = Idle
      /\ overlapped' = (overlapped \/ \E j \in Interfaces \ {i} : handler[j] # Idle)
      /\ UNCHANGED <<hookDiagnostics, hookCommunication, arpRequest>>
  BY DEF Arrive
<1>3. /\ handler' \in [Interfaces -> HandlerType] /\ handler'[i] = h
      /\ \A j \in Interfaces \ {i} : handler'[j] = handler[j]
  BY <1>1, <1>2 DEF RxOK
<1>4. ASSUME NEW j \in Interfaces PROVE SetAt(j)'
  <2>1. CASE j = i
    <3>1. p.via = i /\ p # Nothing /\ Arrived(i, p)
      BY CarriedPackets DEF Arrive
    <3>. QED
      BY <1>1, <1>3, <2>1, <3>1 DEF SetAt
  <2>2. CASE j # i
    BY <1>2, <1>3, <2>2 DEF RxOK, SetAt
  <2>. QED
    BY <2>1, <2>2
<1>5. ASSUME ~overlapped', NEW j \in Interfaces, handler'[j].at # "idle" PROVE Own(j)'
  <2>1. \A k \in Interfaces \ {i} : handler[k] = Idle
    BY <1>2, <1>5
  <2>2. j = i /\ \A k \in Interfaces : handler'[k].at # "idle" => i = k
    BY <1>3, <1>5, <2>1 DEF Idle
  <2>. QED
    BY <1>1, <1>3, <2>2 DEF Own
<1>6. overlapped' \in BOOLEAN
  BY <1>2
<1>. QED
  BY <1>2, <1>3, <1>4, <1>5, <1>6 DEF RxOK

\* After a host was added the handler is done.
LEMMA AddHostRxOK ==
    ASSUME RxOK, NEW i \in Interfaces, NEW memory \in BOOLEAN, AddHost(i, memory)
    PROVE  RxOK'
<1>1. Kept
  BY DEF AddHost, Kept, PointersOK, RxOK
<1>. QED
  BY <1>1, DoneRxOK DEF AddHost

-----------------------------------------------------------------------------
(* The list of hosts.                                                      *)

\* A host that is in the list already is not added again.
LEMMA AddHostListed ==
    ASSUME RxOK, Listed, NEW i \in Interfaces, NEW memory \in BOOLEAN, AddHost(i, memory)
    PROVE  Listed'
<1>1. PICK p \in Behind(hookDiagnostics.icmp) :
        addActiveHost(<<handler[i].src, p.mac>>, memory)
  BY DEF AddHost
<1>. DEFINE host == <<handler[i].src, p.mac>>
            packet == handler[i].packet
<1>2. /\ handler[i].at = "add" /\ overlapped' = overlapped
      /\ heard' = IF overlapped THEN {} ELSE heard \cup {packet}
  BY DEF AddHost
<1>3. ~overlapped => host = <<packet.from, packet.mac>>
  <2>1. SUFFICES ASSUME ~overlapped PROVE host = <<packet.from, packet.mac>>
    OBVIOUS
  <2>2. hookDiagnostics.icmp = i /\ handler[i].src = packet.from /\ packet # Nothing
    BY <1>2, <2>1 DEF RxOK, Own, SetAt
  <2>. QED
    BY <2>2 DEF Behind
<1>. HIDE DEF host, packet
<1>4. CASE host \in DOMAIN active_host_list
  <2>1. active_host_list' = active_host_list /\ unlisted' = unlisted \ {host}
    BY <1>1, <1>4 DEF addActiveHost, BagIn, BagToSet, host
  <2>. QED
    BY <1>2, <1>3, <1>4, <2>1 DEF Listed
<1>5. CASE host \notin DOMAIN active_host_list /\ ~memory
  <2>1. active_host_list' = active_host_list /\ unlisted' = unlisted \cup {host}
    BY <1>1, <1>5 DEF addActiveHost, BagIn, BagToSet, host
  <2>. QED
    BY <1>2, <1>3, <1>5, <2>1 DEF Listed
<1>6. CASE host \notin DOMAIN active_host_list /\ memory
  <2>1. /\ active_host_list' = [h \in DOMAIN active_host_list \cup {host} |->
                                 IF h = host THEN 1 ELSE active_host_list[h]]
        /\ unlisted' = unlisted \ {host}
    BY <1>1, <1>6 DEF addActiveHost, BagIn, BagToSet, BagAdd, host
  <2>. QED
    BY <1>2, <1>3, <1>6, <2>1 DEF Listed
<1>. QED
  BY <1>4, <1>5, <1>6

-----------------------------------------------------------------------------
(* Answers, and what is printed.                                           *)

\* An answer goes to who asked.
LEMMA AnswersStay ==
    ASSUME RxOK, AnswersTheAllowed, NEW i \in Interfaces, Receive(i)
    PROVE  AnswersTheAllowed'
<1>1. overlapped' = overlapped /\ handler[i] \in HandlerType
  BY DEF Receive, HookCommunication, Transport, Payload, HookDiagnostic, Icmp, Reply, arpReceive,
     handleArpRequest, ArpAnswer, ndpReceive, rxRest, rxHooks, RxOK
<1>2. CASE UNCHANGED answers
  BY <1>1, <1>2 DEF AnswersTheAllowed
<1>3. ASSUME ArpAnswer(i), ~overlapped PROVE AnswersTheAllowed'
  <2>1. PICK p \in Behind(arpRequest) :
          answers' \in {answers, answers \cup {[kind |-> "arpReply", via |-> i, to |-> p.mac,
                                               ip |-> p.from]}}
    BY <1>3 DEF ArpAnswer
  <2>2. /\ arpRequest = i /\ handler[i].packet # Nothing
        /\ handler[i].packet \in Packets /\ Answered(handler[i].packet)
    BY <1>3 DEF ArpAnswer, RxOK, Own, SetAt
  <2>3. p = handler[i].packet
    BY <2>1, <2>2 DEF Behind
  <2>. DEFINE a == [kind |-> "arpReply", via |-> i, to |-> p.mac, ip |-> p.from]
  <2>4. PICK q \in Packets : /\ q.via = i /\ q.kind = p.kind /\ q.from = p.from
                            /\ q.mac = p.mac /\ q.fit = p.fit
    BY <2>2, <2>3 DEF RxOK, SetAt, Arrived
  <2>5. /\ q.fit /\ a.ip = q.from /\ a.via = q.via
        /\ a.kind = "arpReply" /\ q.kind = "arpRequest" /\ q.from = AllowedSender /\ a.to = q.mac
    BY <2>2, <2>3, <2>4 DEF Answered
  <2>6. answers' \subseteq answers \cup {a}
    BY <2>1
  <2>. HIDE DEF a
  <2>. QED
    BY <1>1, <2>5, <2>6 DEF AnswersTheAllowed
<1>4. CASE ArpAnswer(i) /\ overlapped
  <2>1. \A a \in answers' : a \in answers \/ a.kind = "arpReply"
    BY <1>4 DEF ArpAnswer
  <2>. QED
    BY <1>1, <1>4, <2>1 DEF AnswersTheAllowed
<1>5. CASE ndpReceive(i) /\ ~UNCHANGED answers
  <2>. DEFINE p == handler[i].packet
              a == [kind |-> "advert", via |-> i, to |-> "none", ip |-> p.from]
  <2>1. p.kind = "solicit" /\ p.fit /\ answers' = answers \cup {a} /\ handler[i].at = "ndp"
    BY <1>5 DEF ndpReceive
  <2>2. PICK q \in Packets : /\ q.via = i /\ q.kind = p.kind /\ q.from = p.from
                            /\ q.mac = p.mac /\ q.fit = p.fit
    BY <2>1 DEF RxOK, SetAt, Arrived
  <2>3. q.fit /\ a.ip = q.from /\ a.via = q.via /\ a.kind = "advert" /\ q.kind = "solicit"
    BY <2>1, <2>2
  <2>. HIDE DEF a
  <2>. QED
    BY <1>1, <2>1, <2>3 DEF AnswersTheAllowed
<1>. QED
  BY <1>2, <1>3, <1>4, <1>5 DEF Receive, HookCommunication, Transport, Payload, HookDiagnostic,
     Icmp, Reply, arpReceive, handleArpRequest, rxRest, rxHooks

\* What is printed was encrypted once.
LEMMA ReadStays ==
    ASSUME RxOK, ReadsWhatWasSent, NEW i \in Interfaces, Payload(i)
    PROVE  ReadsWhatWasSent'
<1>1. SUFFICES ASSUME ~overlapped, NEW r \in read' \ read
               PROVE  \E p \in Packets : p.layers = 1 /\ p.fit /\ r = aesDecrypt(p)
  BY DEF ReadsWhatWasSent, Payload, rxRest
<1>2. PICK ok \in BOOLEAN : Decrypt(i, ok)
  BY DEF Payload
<1>3. /\ handler[i].at = "payload" /\ hookCommunication.payload = i
      /\ handler[i].packet \in Packets /\ handler[i].packet.fit
      /\ handler[i].packet # Nothing
  BY <1>1 DEF Payload, RxOK, Own, SetAt
<1>4. ok /\ r = handler'[i].packet /\ handler'[i].packet.layers = 0
  BY <1>1, <1>2, <1>3 DEF Decrypt
<1>5. r = aesDecrypt(handler[i].packet)
  BY <1>2, <1>3, <1>4, PayloadFacts
<1>6. handler[i].packet.layers = 1
  BY <1>3, <1>4, <1>5, ReceiverAssumption DEF aesDecrypt
<1>. QED
  BY <1>3, <1>5, <1>6

\* Every step of the driver that receives or forgets keeps the invariant.
LEMMA NextIInv == IInv /\ [Next]_vars => IInv'
<1>. SUFFICES ASSUME IInv, [Next]_vars PROVE IInv'
  OBVIOUS
<1>. USE DEF IInv
<1>1. scene' = scene
  BY DEF Next, Load, rmmod, Unload, Thread, Wake, GetState, Ping, Transmission, EndCase, CaseDone,
     Calls, open, OpenOrClose, commanderWrite, commanderRead, Post, Network, Packet, Handle,
     Discovery, Up, vars, lifeVars
<1>2. CASE UNCHANGED rxVars
  BY <1>1, <1>2 DEF rxVars, RxOK, SetAt, Own, Listed, PacketsAreHandledRight, AnswersTheAllowed,
     ReadsWhatWasSent
<1>3. CASE Unload /\ cleanupActiveHostList
  <2>1. RxOK'
    BY <1>3 DEF cleanupActiveHostList, RxOK, SetAt, Own
  <2>2. Listed'
    BY <1>3 DEF cleanupActiveHostList, Listed, EmptyBag, SetToBag
  <2>3. PacketsAreHandledRight'
    BY <1>3 DEF cleanupActiveHostList, PacketsAreHandledRight, AnswersTheAllowed, ReadsWhatWasSent
  <2>. QED
    BY <1>1, <2>1, <2>2, <2>3
<1>4. ASSUME NEW i \in Interfaces, Packet(i) PROVE IInv'
  <2>1. PICK p \in scene.packets : Arrive(i, p)
    BY <1>4 DEF Packet
  <2>2. p \in Packets
    BY NetworkAssumption
  <2>3. RxOK'
    BY <2>1, <2>2, ArriveRxOK
  <2>4. Listed'
    BY <2>1 DEF Arrive, Listed, RxOK
  <2>5. PacketsAreHandledRight'
    BY <2>1 DEF Arrive, PacketsAreHandledRight, AnswersTheAllowed, ReadsWhatWasSent, RxOK
  <2>. QED
    BY <1>1, <2>3, <2>4, <2>5
<1>5. ASSUME NEW i \in Interfaces, Handle(i) PROVE IInv'
  <2>1. Receive(i)
    BY <1>5 DEF Handle
  <2>2. RxOK'
    BY <2>1, CommunicationRxOK, PayloadRxOK, DiagnosticRxOK, PacksRxOK DEF Receive
  <2>3. UNCHANGED <<active_host_list, heard, unlisted, overlapped>>
    BY <2>1 DEF Receive, HookCommunication, Transport, Payload, HookDiagnostic, Icmp, Reply,
       arpReceive, handleArpRequest, ArpAnswer, ndpReceive, rxRest, rxHooks
  <2>4. Listed'
    BY <2>3 DEF Listed
  <2>5. UNCHANGED read \/ Payload(i)
    BY <2>1 DEF Receive, HookCommunication, Transport, HookDiagnostic, Icmp, Reply,
       arpReceive, handleArpRequest, ArpAnswer, ndpReceive, rxHooks
  <2>6. ReadsWhatWasSent'
    <3>1. CASE UNCHANGED read
      BY <2>3, <3>1 DEF PacketsAreHandledRight, ReadsWhatWasSent
    <3>. QED
      BY <2>5, <3>1, ReadStays DEF PacketsAreHandledRight
  <2>7. AnswersTheAllowed'
    BY <2>1, AnswersStay DEF PacketsAreHandledRight
  <2>. QED
    BY <1>1, <2>2, <2>4, <2>6, <2>7 DEF PacketsAreHandledRight
<1>6. ASSUME NEW i \in Interfaces, Discovery(i) PROVE IInv'
  <2>1. PICK memory \in BOOLEAN : AddHost(i, memory)
    BY <1>6 DEF Discovery
  <2>2. UNCHANGED <<read, answers, overlapped>>
    BY <2>1 DEF AddHost
  <2>3. PacketsAreHandledRight'
    BY <2>2 DEF PacketsAreHandledRight, AnswersTheAllowed, ReadsWhatWasSent
  <2>. QED
    BY <1>1, <2>1, <2>3, AddHostRxOK, AddHostListed
<1>. QED
  BY <1>2, <1>3, <1>4, <1>5, <1>6 DEF Next, Load, rmmod, Unload, Thread, Wake, GetState, Ping,
     Transmission, EndCase, CaseDone, Calls, open, OpenOrClose, commanderWrite, commanderRead,
     Post, Network, threadRest, vars

\* The invariant holds in every state.
LEMMA AlwaysIInv == Spec => []IInv
<1>. QED  BY InitIInv, NextIInv, PTL DEF Spec

-----------------------------------------------------------------------------
\* A host is listed once, and when no two handlers overlapped the list has exactly
\* the hosts that answered, each with its own MAC address: for any hosts, any number
\* of interfaces, and however often and late they answer.
THEOREM ListIsExact == Spec => []HostListIsExact
<1>1. IInv => HostListIsExact
  BY DEF IInv, Listed, HostListIsExact, BagToSet
<1>. QED  BY <1>1, AlwaysIInv, PTL

\* Answers go to who asked and may, and what is printed was decrypted as often as it
\* was encrypted, for any packets.
THEOREM HandledRight == Spec => []PacketsAreHandledRight
<1>1. IInv => PacketsAreHandledRight
  BY DEF IInv
<1>. QED  BY <1>1, AlwaysIInv, PTL

-----------------------------------------------------------------------------
(* Loading, unloading and what the main thread sends.                      *)

\* When a resource is had, and when it is released.
LoadAt(r) ==
    CASE r = "list"   -> 1 [] r = "thread" -> 2 [] r = "device" -> 3 [] r = "hooks" -> 4
      [] r = "packs"  -> 5 [] r = "buffers" -> 6 [] r = "node"  -> 7

ExitAt(r) ==
    CASE r = "node"   -> 1 [] r = "buffers" -> 2 [] r = "hooks" -> 3 [] r = "packs" -> 4
      [] r = "device" -> 5 [] r = "thread"  -> 6 [] r = "list"  -> 7

Come(r) == phase = "loading" => LoadAt(r) <= done
Gone(r) == phase = "unloaded" \/ (phase = "unloading" /\ ExitAt(r) <= done)

\* A resource that is not there although it should be could not be had.
Missed(r) == r \in failed \/ (r \in {"hooks", "packs"} /\ "device" \in failed)

HandleOK ==
    /\ phase \in {"loading", "ready", "unloading", "unloaded"} /\ done \in 0 .. 6
    /\ phase = "ready" => done = 0
    /\ handle \in [Resources -> {"null", "held", "stale"}]
    /\ \A r \in Resources : ~Come(r) \/ Gone(r) => handle[r] = "null"
    /\ \A r \in Resources : Come(r) /\ ~Gone(r) => Has(r) \/ Missed(r)
    /\ \A r \in bad : Missed(r)

\* A packet is handled by what is registered.
HandlersOK == \A i \in Interfaces : (InHooks(i) => Has("hooks")) /\ (InPacks(i) => Has("packs"))

\* The thread runs while there is one, and sends in its case.
ThreadOK ==
    /\ currentState \in mainThreadStateType
    /\ mainThread \in [at : {"wait", "woken", "send", "done"}, host : Int]
    /\ mainThread.at # "wait" => Has("thread")
    /\ sending # Silent => mainThread.at = "send"

\* In orderly behaviours nobody is there, and nothing is sent that uses the
\* device, but in a driver that is ready.
OrderlyOK ==
    ~disorderly /\ phase # "ready" =>
        /\ \A u \in Users : file[u] = Out
        /\ currentState \notin {"ARP_REQUEST", "UDP_TRANSMISSION", "TCP_TRANSMISSION"}
        /\ sending # Silent => sending.what \in {"ICMP_PING", "NDP_REQUEST"}

Whats == {"ICMP_PING", "NDP_REQUEST", "ARP_REQUEST", "UDP_TRANSMISSION", "TCP_TRANSMISSION"}

\* What a transmission holds when it comes to a stage.
Owned(what, stage) ==
    CASE stage = "sock" /\ what = "ICMP_PING" -> {"packet"}
      [] stage = "dev" -> {"sock"}
      [] stage = "send" -> AtTheEnd(what)
      [] stage \in {"tfm", "xmit"} -> {"skb"}
      [] stage \in {"key", "req"} -> {"skb", "tfm"}
      [] stage = "crypt" -> {"skb", "tfm", "req"}
      [] OTHER -> {}

Holds(S) == [r \in Acquired |-> IF r \in S THEN 1 ELSE 0]

SendingOK ==
    /\ sending # Silent => /\ sending \in [what : Whats, to : Int, stage : Int]
                           /\ sending.stage \in 1 .. Len(Stages(sending.what))
    /\ "xmit" \notin failed =>
         held = Holds(IF sending = Silent THEN {} ELSE Owned(sending.what, Stage))

LifeInv ==
    /\ HandleOK /\ HandlersOK /\ ThreadOK /\ OrderlyOK /\ SendingOK
    /\ phase = "unloaded" => active_host_list = EmptyBag
    /\ UnloadsUnderAScan

\* A sequence of two and one of three, element by element.
LEMMA TwoAndThree ==
    ASSUME NEW S, NEW s \in Seq(S), NEW t \in Seq(S), Len(s) = 2, Len(t) = 3
    PROVE  /\ s \o t \in Seq(S) /\ Len(s \o t) = 5
           /\ (s \o t)[1] = s[1] /\ (s \o t)[2] = s[2]
           /\ (s \o t)[3] = t[1] /\ (s \o t)[4] = t[2] /\ (s \o t)[5] = t[3]
<1>0. /\ s \o t \in Seq(S) /\ Len(s \o t) = Len(s) + Len(t)
      /\ \A i \in 1 .. Len(s) + Len(t) :
            (s \o t)[i] = IF i <= Len(s) THEN s[i] ELSE t[i - Len(s)]
  BY ConcatProperties
<1>1. \A i \in 1 .. 5 : (s \o t)[i] = IF i <= 2 THEN s[i] ELSE t[i - 2]
  BY <1>0
<1>2. 3 - 2 = 1 /\ 4 - 2 = 2 /\ 5 - 2 = 3
  OBVIOUS
<1>. QED
  BY <1>0, <1>1, <1>2

\* A sequence of five and one of two, element by element.
LEMMA FiveAndTwo ==
    ASSUME NEW S, NEW s \in Seq(S), NEW t \in Seq(S), Len(s) = 5, Len(t) = 2
    PROVE  /\ s \o t \in Seq(S) /\ Len(s \o t) = 7
           /\ \A i \in 1 .. 5 : (s \o t)[i] = s[i]
           /\ (s \o t)[6] = t[1] /\ (s \o t)[7] = t[2]
<1>0. /\ s \o t \in Seq(S) /\ Len(s \o t) = Len(s) + Len(t)
      /\ \A i \in 1 .. Len(s) + Len(t) :
            (s \o t)[i] = IF i <= Len(s) THEN s[i] ELSE t[i - Len(s)]
  BY ConcatProperties
<1>1. \A i \in 1 .. 7 : (s \o t)[i] = IF i <= 5 THEN s[i] ELSE t[i - 5]
  BY <1>0
<1>2. 6 - 5 = 1 /\ 7 - 5 = 2
  OBVIOUS
<1>. QED
  BY <1>0, <1>1, <1>2

\* A sequence of one and one of four, element by element.
LEMMA OneAndFour ==
    ASSUME NEW S, NEW s \in Seq(S), NEW t \in Seq(S), Len(s) = 1, Len(t) = 4
    PROVE  /\ s \o t \in Seq(S) /\ Len(s \o t) = 5 /\ (s \o t)[1] = s[1]
           /\ (s \o t)[2] = t[1] /\ (s \o t)[3] = t[2] /\ (s \o t)[4] = t[3] /\ (s \o t)[5] = t[4]
<1>0. /\ s \o t \in Seq(S) /\ Len(s \o t) = Len(s) + Len(t)
      /\ \A i \in 1 .. Len(s) + Len(t) :
            (s \o t)[i] = IF i <= Len(s) THEN s[i] ELSE t[i - Len(s)]
  BY ConcatProperties
<1>1. \A i \in 1 .. 5 : (s \o t)[i] = IF i <= 1 THEN s[i] ELSE t[i - 1]
  BY <1>0
<1>2. 2 - 1 = 1 /\ 3 - 1 = 2 /\ 4 - 1 = 3 /\ 5 - 1 = 4
  OBVIOUS
<1>. QED
  BY <1>0, <1>1, <1>2

\* A sequence of five and one of one, element by element.
LEMMA FiveAndOne ==
    ASSUME NEW S, NEW s \in Seq(S), NEW t \in Seq(S), Len(s) = 5, Len(t) = 1
    PROVE  /\ s \o t \in Seq(S) /\ Len(s \o t) = 6
           /\ \A i \in 1 .. 5 : (s \o t)[i] = s[i]
           /\ (s \o t)[6] = t[1]
<1>0. /\ s \o t \in Seq(S) /\ Len(s \o t) = Len(s) + Len(t)
      /\ \A i \in 1 .. Len(s) + Len(t) :
            (s \o t)[i] = IF i <= Len(s) THEN s[i] ELSE t[i - Len(s)]
  BY ConcatProperties
<1>1. \A i \in 1 .. 6 : (s \o t)[i] = IF i <= 5 THEN s[i] ELSE t[i - 5]
  BY <1>0
<1>2. 6 - 5 = 1
  OBVIOUS
<1>. QED
  BY <1>0, <1>1, <1>2

Names == {"list", "thread", "device", "hooks", "packs", "buffers", "node"}

\* The order of loading, element by element.
LEMMA LoadOrder ==
    /\ Len(master_controler_init) = 7 /\ master_controler_init \in Seq(Names)
    /\ master_controler_init[1] = "list" /\ master_controler_init[2] = "thread"
    /\ master_controler_init[3] = "device" /\ master_controler_init[4] = "hooks"
    /\ master_controler_init[5] = "packs" /\ master_controler_init[6] = "buffers"
    /\ master_controler_init[7] = "node"
<1>1. \E p \in Seq(Names) : /\ p = <<"list", "thread">> /\ Len(p) = 2
                            /\ p[1] = "list" /\ p[2] = "thread"
  <2>1. <<"list", "thread">> \in Seq(Names)
    BY DEF Names
  <2>. QED
    BY <2>1
<1>7. PICK start \in Seq(Names) : /\ start = <<"list", "thread">> /\ Len(start) = 2
                                 /\ start[1] = "list" /\ start[2] = "thread"
  BY <1>1
<1>8. Len(start) = 2 /\ start[1] = "list" /\ start[2] = "thread"
  BY <1>7
<1>2. /\ networkInit \in Seq(Names) /\ Len(networkInit) = 3
      /\ networkInit[1] = "device" /\ networkInit[2] = "hooks" /\ networkInit[3] = "packs"
  BY DEF networkInit, Names
<1>3. /\ mainCommanderInit \in Seq(Names) /\ Len(mainCommanderInit) = 2
      /\ mainCommanderInit[1] = "buffers" /\ mainCommanderInit[2] = "node"
  BY DEF mainCommanderInit, Names
<1>. DEFINE first == start \o networkInit
<1>4. /\ first \in Seq(Names) /\ Len(first) = 5
      /\ first[1] = "list" /\ first[2] = "thread"
      /\ first[3] = "device" /\ first[4] = "hooks" /\ first[5] = "packs"
  BY <1>2, <1>8, TwoAndThree
<1>5. master_controler_init = first \o mainCommanderInit
  BY <1>7 DEF master_controler_init
<1>. HIDE DEF first
<1>6. /\ first \o mainCommanderInit \in Seq(Names) /\ Len(first \o mainCommanderInit) = 7
      /\ \A i \in 1 .. 5 : (first \o mainCommanderInit)[i] = first[i]
      /\ (first \o mainCommanderInit)[6] = "buffers" /\ (first \o mainCommanderInit)[7] = "node"
  BY <1>3, <1>4, FiveAndTwo
<1>. QED
  BY <1>4, <1>5, <1>6

\* The order of unloading, element by element.
LEMMA ExitOrder ==
    /\ Len(master_controler_exit) = 7 /\ master_controler_exit \in Seq(Names)
    /\ master_controler_exit[1] = "node" /\ master_controler_exit[2] = "buffers"
    /\ master_controler_exit[3] = "hooks" /\ master_controler_exit[4] = "packs"
    /\ master_controler_exit[5] = "device" /\ master_controler_exit[6] = "thread"
    /\ master_controler_exit[7] = "list"
<1>1. \E p \in Seq(Names) : /\ p = <<"thread", "list">> /\ Len(p) = 2
                            /\ p[1] = "thread" /\ p[2] = "list"
  <2>1. <<"thread", "list">> \in Seq(Names)
    BY DEF Names
  <2>. QED
    BY <2>1
<1>7. PICK last \in Seq(Names) : /\ last = <<"thread", "list">> /\ Len(last) = 2
                                /\ last[1] = "thread" /\ last[2] = "list"
  BY <1>1
<1>8. Len(last) = 2 /\ last[1] = "thread" /\ last[2] = "list"
  BY <1>7
<1>2. /\ networkDestroy \in Seq(Names) /\ Len(networkDestroy) = 3
      /\ networkDestroy[1] = "hooks" /\ networkDestroy[2] = "packs" /\ networkDestroy[3] = "device"
  BY DEF networkDestroy, Names
<1>3. /\ mainCommanderDestroy \in Seq(Names) /\ Len(mainCommanderDestroy) = 2
      /\ mainCommanderDestroy[1] = "node" /\ mainCommanderDestroy[2] = "buffers"
  BY DEF mainCommanderDestroy, Names
<1>. DEFINE first == mainCommanderDestroy \o networkDestroy
<1>4. /\ first \in Seq(Names) /\ Len(first) = 5
      /\ first[1] = "node" /\ first[2] = "buffers"
      /\ first[3] = "hooks" /\ first[4] = "packs" /\ first[5] = "device"
  BY <1>2, <1>3, TwoAndThree
<1>5. master_controler_exit = first \o last
  BY <1>7 DEF master_controler_exit
<1>. HIDE DEF first
<1>6. /\ first \o last \in Seq(Names) /\ Len(first \o last) = 7
      /\ \A i \in 1 .. 5 : (first \o last)[i] = first[i]
      /\ (first \o last)[6] = "thread" /\ (first \o last)[7] = "list"
  BY <1>4, <1>8, FiveAndTwo
<1>. QED
  BY <1>4, <1>5, <1>6

\* Each resource has one place in each sequence.
LEMMA Places ==
    /\ Resources = Names
    /\ \A n \in 1 .. 7 : /\ master_controler_init[n] \in Names
                         /\ LoadAt(master_controler_init[n]) = n
                         /\ master_controler_exit[n] \in Names
                         /\ ExitAt(master_controler_exit[n]) = n
    /\ \A r \in Names : /\ LoadAt(r) \in 1 .. 7 /\ master_controler_init[LoadAt(r)] = r
                        /\ ExitAt(r) \in 1 .. 7 /\ master_controler_exit[ExitAt(r)] = r
<1>1. \A r \in Names : /\ LoadAt(r) \in 1 .. 7 /\ master_controler_init[LoadAt(r)] = r
                       /\ ExitAt(r) \in 1 .. 7 /\ master_controler_exit[ExitAt(r)] = r
  BY LoadOrder, ExitOrder DEF Names, LoadAt, ExitAt
<1>2. \A n \in 1 .. 7 : n = 1 \/ n = 2 \/ n = 3 \/ n = 4 \/ n = 5 \/ n = 6 \/ n = 7
  OBVIOUS
<1>3. \A n \in 1 .. 7 : master_controler_init[n] \in Names /\ LoadAt(master_controler_init[n]) = n
  BY <1>2, LoadOrder DEF Names, LoadAt
<1>4. \A n \in 1 .. 7 : master_controler_exit[n] \in Names /\ ExitAt(master_controler_exit[n]) = n
  BY <1>2, ExitOrder DEF Names, ExitAt
<1>5. Resources = Names
  <2>1. Resources = {master_controler_init[i] : i \in 1 .. 7}
    BY LoadOrder DEF Resources, ToSet
  <2>. QED
    BY <1>1, <1>3, <2>1
<1>. QED
  BY <1>1, <1>3, <1>4, <1>5

StageNames ==
    {"packet", "sock", "send", "dev", "check", "skb", "xmit", "tfm", "key", "req", "crypt"}

\* The stages of a packet that is encrypted.
LEMMA EncryptedStages ==
    /\ Len(udpTransmission) = 6 /\ tcpTransmission = udpTransmission
    /\ udpTransmission[1] = "skb" /\ udpTransmission[2] = "tfm" /\ udpTransmission[3] = "key"
    /\ udpTransmission[4] = "req" /\ udpTransmission[5] = "crypt" /\ udpTransmission[6] = "xmit"
<1>1. \E p, q \in Seq(StageNames) : /\ p = <<"skb">> /\ Len(p) = 1 /\ p[1] = "skb"
                                    /\ q = <<"xmit">> /\ Len(q) = 1 /\ q[1] = "xmit"
  <2>1. <<"skb">> \in Seq(StageNames) /\ <<"xmit">> \in Seq(StageNames)
    BY DEF StageNames
  <2>. QED
    BY <2>1
<1>6. PICK start, last \in Seq(StageNames) :
          /\ start = <<"skb">> /\ Len(start) = 1 /\ start[1] = "skb"
          /\ last = <<"xmit">> /\ Len(last) = 1 /\ last[1] = "xmit"
  BY <1>1
<1>7. Len(start) = 1 /\ start[1] = "skb" /\ Len(last) = 1 /\ last[1] = "xmit"
  BY <1>6
<1>2. /\ aesEncrypt \in Seq(StageNames) /\ Len(aesEncrypt) = 4
      /\ aesEncrypt[1] = "tfm" /\ aesEncrypt[2] = "key" /\ aesEncrypt[3] = "req"
      /\ aesEncrypt[4] = "crypt"
  BY DEF aesEncrypt, StageNames
<1>. DEFINE first == start \o aesEncrypt
<1>3. /\ first \in Seq(StageNames) /\ Len(first) = 5
      /\ first[1] = "skb" /\ first[2] = "tfm" /\ first[3] = "key" /\ first[4] = "req"
      /\ first[5] = "crypt"
  BY <1>2, <1>7, OneAndFour
<1>4. udpTransmission = first \o last /\ tcpTransmission = udpTransmission
  BY <1>6 DEF udpTransmission, tcpTransmission
<1>. HIDE DEF first
<1>5. /\ Len(first \o last) = 6
      /\ \A i \in 1 .. 5 : (first \o last)[i] = first[i]
      /\ (first \o last)[6] = "xmit"
  BY <1>3, <1>7, FiveAndOne
<1>. QED
  BY <1>3, <1>4, <1>5

\* Where every stage is, and which comes after it.
LEMMA StageOrder ==
    /\ Len(Stages("ICMP_PING")) = 3 /\ Len(Stages("NDP_REQUEST")) = 3
    /\ Len(Stages("ARP_REQUEST")) = 3
    /\ Len(Stages("UDP_TRANSMISSION")) = 6 /\ Len(Stages("TCP_TRANSMISSION")) = 6
    /\ \A k \in 1 .. 3 : /\ Stages("ICMP_PING")[k] =
                                 IF k = 1 THEN "packet" ELSE IF k = 2 THEN "sock" ELSE "send"
                         /\ Stages("NDP_REQUEST")[k] =
                                 IF k = 1 THEN "sock" ELSE IF k = 2 THEN "dev" ELSE "send"
                         /\ Stages("ARP_REQUEST")[k] =
                                 IF k = 1 THEN "check" ELSE IF k = 2 THEN "skb" ELSE "xmit"
    /\ \A w \in {"UDP_TRANSMISSION", "TCP_TRANSMISSION"} :
         /\ Stages(w)[1] = "skb" /\ Stages(w)[2] = "tfm" /\ Stages(w)[3] = "key"
         /\ Stages(w)[4] = "req" /\ Stages(w)[5] = "crypt" /\ Stages(w)[6] = "xmit"
<1>1. /\ Stages("ICMP_PING") = icmpSendPing /\ Stages("NDP_REQUEST") = ndpSendRequest
      /\ Stages("ARP_REQUEST") = arpSendRequest
      /\ \A w \in {"UDP_TRANSMISSION", "TCP_TRANSMISSION"} : Stages(w) = udpTransmission
  BY EncryptedStages DEF Stages
<1>2. /\ Len(icmpSendPing) = 3
      /\ \A k \in 1 .. 3 : icmpSendPing[k] =
                                 IF k = 1 THEN "packet" ELSE IF k = 2 THEN "sock" ELSE "send"
  BY DEF icmpSendPing
<1>3. /\ Len(ndpSendRequest) = 3
      /\ \A k \in 1 .. 3 : ndpSendRequest[k] =
                                 IF k = 1 THEN "sock" ELSE IF k = 2 THEN "dev" ELSE "send"
  BY DEF ndpSendRequest
<1>4. /\ Len(arpSendRequest) = 3
      /\ \A k \in 1 .. 3 : arpSendRequest[k] =
                                 IF k = 1 THEN "check" ELSE IF k = 2 THEN "skb" ELSE "xmit"
  BY DEF arpSendRequest
<1>. QED
  BY <1>1, <1>2, <1>3, <1>4, EncryptedStages

\* What a stage takes over and what it leaves to the next.
TakesOver(what, st, next, last) ==
    /\ st \in StageNames
    /\ st \in {"send", "xmit"} \/ ~last
    /\ st \in Acquired => st \notin Owned(what, st) /\ Owned(what, next) = Owned(what, st) \cup {st}
    /\ st = "crypt" => Owned(what, next) = Owned(what, st) \ {"req", "tfm"}
    /\ st \in {"dev", "check", "key"} => Owned(what, next) = Owned(what, st)
    /\ what \in {"ICMP_PING", "NDP_REQUEST"} => st \notin {"check", "xmit"}

\* Every stage takes over what the one before it left, and the first nothing.
LEMMA StageFacts ==
    ASSUME NEW what \in Whats, NEW k \in 1 .. Len(Stages(what))
    PROVE  /\ TakesOver(what, Stages(what)[k], Stages(what)[k + 1], k = Len(Stages(what)))
           /\ Owned(what, Stages(what)[1]) = {}
           /\ Len(Stages(what)) \in Nat /\ 1 \in 1 .. Len(Stages(what))
<1>1. CASE what \in {"ICMP_PING", "NDP_REQUEST", "ARP_REQUEST"}
  <2>1. Len(Stages(what)) = 3 /\ (k = 1 \/ k = 2 \/ k = 3)
    <3>1. Len(Stages(what)) = 3
      BY <1>1, StageOrder
    <3>2. k \in 1 .. 3
      BY <3>1
    <3>. QED
      BY <3>1, <3>2
  <2>2. CASE k = 1
    BY <1>1, <2>1, <2>2, StageOrder DEF TakesOver, StageNames, Owned, Acquired, AtTheEnd
  <2>3. CASE k = 2
    BY <1>1, <2>1, <2>3, StageOrder DEF TakesOver, StageNames, Owned, Acquired, AtTheEnd
  <2>4. CASE k = 3
    BY <1>1, <2>1, <2>4, StageOrder DEF TakesOver, StageNames, Owned, Acquired, AtTheEnd
  <2>. QED
    BY <2>1, <2>2, <2>3, <2>4
<1>2. CASE what \in {"UDP_TRANSMISSION", "TCP_TRANSMISSION"}
  <2>1. Len(Stages(what)) = 6 /\ (k = 1 \/ k = 2 \/ k = 3 \/ k = 4 \/ k = 5 \/ k = 6)
    <3>1. Len(Stages(what)) = 6
      BY <1>2, StageOrder
    <3>2. k \in 1 .. 6
      BY <3>1
    <3>. QED
      BY <3>1, <3>2
  <2>2. CASE k = 1
    BY <1>2, <2>1, <2>2, StageOrder DEF TakesOver, StageNames, Owned, Acquired
  <2>3. CASE k = 2
    BY <1>2, <2>1, <2>3, StageOrder DEF TakesOver, StageNames, Owned, Acquired
  <2>4. CASE k = 3
    BY <1>2, <2>1, <2>4, StageOrder DEF TakesOver, StageNames, Owned, Acquired
  <2>5. CASE k = 4
    BY <1>2, <2>1, <2>5, StageOrder DEF TakesOver, StageNames, Owned, Acquired
  <2>6. CASE k = 5
    BY <1>2, <2>1, <2>6, StageOrder DEF TakesOver, StageNames, Owned, Acquired
  <2>7. CASE k = 6
    BY <1>2, <2>1, <2>7, StageOrder DEF TakesOver, StageNames, Owned, Acquired
  <2>. QED
    BY <2>1, <2>2, <2>3, <2>4, <2>5, <2>6, <2>7
<1>. QED
  BY <1>1, <1>2 DEF Whats

\* An error path releases what the transmission holds.
LEMMA FreedIsOwned ==
    ASSUME NEW what \in Whats, NEW st \in StageNames, st # "xmit"
    PROVE  FreedAfter(what, st) = Owned(what, st)
  BY DEF FreedAfter, Owned, Whats, StageNames

\* What a stage holds is something that can be acquired.
LEMMA OwnedIsAcquired ==
    ASSUME NEW what \in Whats, NEW st \in StageNames
    PROVE  Owned(what, st) \subseteq Acquired
  BY DEF Owned, Acquired, AtTheEnd

\* Acquiring something that is not held adds it to what is held.
LEMMA TakesOne ==
    ASSUME NEW S, held = Holds(S), NEW st \in Acquired, st \notin S
    PROVE  [held EXCEPT ![st] = @ + 1] = Holds(S \cup {st})
  BY DEF Holds

\* Releasing what is held takes it from what is held.
LEMMA GivesBack ==
    ASSUME NEW S, NEW T, held = Holds(S), T \subseteq S
    PROVE  Without(T) = Holds(S \ T)
  BY DEF Holds, Without

\* A stage that is done keeps the account.
LEMMA StageDoneKeeps ==
    ASSUME SendingOK, sending # Silent, StageDone, failed \subseteq failed'
    PROVE  SendingOK'
<1>1. PICK what, k, st, next : /\ what = sending.what /\ k = sending.stage
                               /\ st = Stages(what)[k] /\ next = Stages(what)[k + 1]
  OBVIOUS
<1>2. what \in Whats /\ k \in 1 .. Len(Stages(what)) /\ Stage = st
  BY <1>1 DEF SendingOK, Stage
<1>3. "xmit" \notin failed' => held = Holds(Owned(what, st))
  BY <1>1, <1>2 DEF SendingOK
<1>4. /\ TakesOver(what, st, next, k = Len(Stages(what))) /\ Len(Stages(what)) \in Nat
  BY <1>1, <1>2, StageFacts
<1>9. st \notin {"send", "xmit"} => k + 1 \in 1 .. Len(Stages(what))
  BY <1>2, <1>4 DEF TakesOver
<1>5. held' = CASE st \in Acquired -> [held EXCEPT ![st] = @ + 1]
                [] st = "send" -> Without(AtTheEnd(what))
                [] st = "crypt" -> Without({"req", "tfm"})
                [] st = "xmit" -> Without({"skb"})
                [] OTHER -> held
  BY <1>1, <1>2 DEF StageDone
<1>6. sending' = IF st \in {"send", "xmit"} THEN Silent ELSE [sending EXCEPT !.stage = k + 1]
  BY <1>1, <1>2 DEF StageDone
<1>7. CASE st \in {"send", "xmit"}
  <2>1. held' = Without(Owned(what, st))
    BY <1>5, <1>7 DEF Owned, Acquired
  <2>2. "xmit" \notin failed' => held' = Holds({})
    <3>1. Owned(what, st) \ Owned(what, st) = {}
      OBVIOUS
    <3>. QED
      BY <1>3, <2>1, <3>1, GivesBack
  <2>. QED
    BY <1>6, <1>7, <2>2 DEF SendingOK
<1>8. CASE st \notin {"send", "xmit"}
  <2>1. "xmit" \notin failed' => held' = Holds(Owned(what, next))
    <3>1. CASE st \in Acquired
      <4>1. held' = [held EXCEPT ![st] = @ + 1]
        BY <1>5, <3>1 DEF Acquired
      <4>. QED
        BY <1>3, <1>4, <3>1, <4>1, TakesOne DEF TakesOver
    <3>2. CASE st = "crypt"
      <4>1. held' = Without({"req", "tfm"})
        BY <1>5, <3>2 DEF Acquired
      <4>2. {"req", "tfm"} \subseteq Owned(what, st)
        BY <3>2 DEF Owned
      <4>. QED
        BY <1>3, <1>4, <3>2, <4>1, <4>2, GivesBack DEF TakesOver
    <3>3. CASE st \in {"dev", "check", "key"}
      <4>1. held' = held
        BY <1>5, <3>3 DEF Acquired
      <4>. QED
        BY <1>3, <1>4, <3>3, <4>1 DEF TakesOver
    <3>. QED
      BY <1>4, <1>8, <3>1, <3>2, <3>3 DEF StageNames, Acquired, TakesOver
  <2>2. sending' = [sending EXCEPT !.stage = k + 1] /\ sending # Silent
    BY <1>6, <1>8
  <2>3. /\ sending' \in [what : Whats, to : Int, stage : Int]
        /\ sending'.what = what /\ sending'.stage = k + 1 /\ sending' # Silent
    <3>1. sending \in [what : Whats, to : Int, stage : Int]
      BY DEF SendingOK
    <3>. QED
      BY <1>1, <1>2, <2>2, <3>1 DEF Silent, Whats
  <2>4. Stage' = next
    BY <1>1, <2>3 DEF Stage
  <2>. QED
    BY <1>8, <1>9, <2>1, <2>3, <2>4 DEF SendingOK
<1>. QED
  BY <1>7, <1>8

\* A stage that fails leaves nothing held, unless it is dev_queue_xmit.
LEMMA StageFailsKeeps ==
    ASSUME SendingOK, sending # Silent, StageFails, failed \subseteq failed',
           Stage = "xmit" => "xmit" \in failed'
    PROVE  SendingOK'
<1>. DEFINE what == sending.what
            st == Stage
<1>1. what \in Whats /\ st \in StageNames
  BY StageFacts DEF SendingOK, Stage, TakesOver
<1>2. sending' = Silent
  BY DEF StageFails
<1>3. CASE st = "xmit"
  BY <1>2, <1>3 DEF SendingOK
<1>4. CASE st # "xmit"
  <2>1. held' = Without(Owned(what, st))
    BY <1>1, <1>4, FreedIsOwned DEF StageFails
  <2>2. "xmit" \notin failed' => held = Holds(Owned(what, st))
    BY DEF SendingOK
  <2>3. Owned(what, st) \ Owned(what, st) = {}
    OBVIOUS
  <2>4. "xmit" \notin failed' => held' = Holds({})
    BY <2>1, <2>2, <2>3, GivesBack
  <2>. QED
    BY <1>2, <2>4 DEF SendingOK
<1>. QED
  BY <1>3, <1>4

\* A transmission begins with nothing.
LEMMA BeginKeeps ==
    ASSUME SendingOK, NEW what \in Whats, NEW to \in Int, Begin(what, to), failed' = failed
    PROVE  SendingOK'
<1>1. /\ sending = Silent /\ sending' = [what |-> what, to |-> to, stage |-> 1] /\ held' = held
  BY DEF Begin
<1>2. /\ sending' \in [what : Whats, to : Int, stage : Int]
      /\ sending'.what = what /\ sending'.stage = 1
  BY <1>1
<1>3. 1 \in 1 .. Len(Stages(what)) /\ Owned(what, Stages(what)[1]) = {}
  <2>1. 1 \in 1 .. Len(Stages(what))
    BY StageOrder DEF Whats
  <2>. QED
    BY <2>1, StageFacts
<1>4. Stage' = Stages(what)[1]
  BY <1>2 DEF Stage
<1>5. "xmit" \notin failed => held = Holds({})
  BY <1>1 DEF SendingOK
<1>6. sending' # Silent
  BY <1>2 DEF Silent, Whats
<1>. QED
  BY <1>1, <1>2, <1>3, <1>4, <1>5, <1>6 DEF SendingOK

-----------------------------------------------------------------------------
\* Whatever does not load or unload leaves what the driver holds as it is.
LEMMA LifeSteps ==
    [Next]_vars =>
      /\ failed \subseteq failed'
      /\ Load \/ rmmod \/ Unload \/ UNCHANGED <<phase, done, handle, bad>>
<1>1. Next => /\ failed \subseteq failed'
              /\ Load \/ rmmod \/ Unload \/ UNCHANGED <<phase, done, handle, bad>>
  BY DEF Next, Load, rmmod, Unload, Thread, Wake, GetState, Ping, Transmission, EndCase,
     CaseDone, Calls, open, OpenOrClose, commanderWrite, commanderRead, Post, Network, Packet,
     Handle, Discovery, threadRest
<1>. QED
  BY <1>1 DEF vars, lifeVars

\* A step of the loading sequence.
LEMMA LoadFacts ==
    ASSUME HandleOK, Load
    PROVE  \E r \in Resources, w \in {"null", "held", "stale"} :
             /\ r = master_controler_init[done + 1] /\ LoadAt(r) = done + 1
             /\ handle' = [handle EXCEPT ![r] = w]
             /\ handle[r] = "null"
             /\ w = "held" \/ Missed(r)'
             /\ phase' = IF done = 6 THEN "ready" ELSE "loading"
             /\ done' = IF done = 6 THEN 0 ELSE done + 1
             /\ bad' = bad /\ phase = "loading"
             /\ UNCHANGED <<sending, held, mainThread, currentState, disorderly, fault,
                            handler, file>>
<1>1. done \in 0 .. 6 /\ done + 1 \in 1 .. 7 /\ Len(master_controler_init) = 7
  BY LoadOrder DEF HandleOK
<1>2. PICK r : r = master_controler_init[done + 1]
  OBVIOUS
<1>3. r \in Resources /\ LoadAt(r) = done + 1
  BY <1>1, <1>2, Places
<1>4. phase = "loading" /\ handle[r] = "null"
  BY <1>1, <1>3 DEF Load, HandleOK, Come
<1>5. \/ Skipped(r) /\ UNCHANGED <<handle, failed>>
      \/ handle' = [handle EXCEPT ![r] = "held"]
      \/ \E worth \in Leaves(r) : handle' = [handle EXCEPT ![r] = worth] /\ r \in failed'
  BY <1>2 DEF Load
<1>6. \E w \in {"null", "held", "stale"} : /\ handle' = [handle EXCEPT ![r] = w]
                                           /\ w = "held" \/ Missed(r)'
  <2>1. CASE Skipped(r) /\ UNCHANGED <<handle, failed>>
    <3>1. r \in {"hooks", "packs"} /\ ~Has("device")
      BY <2>1 DEF Skipped
    <3>2. "device" \in Resources /\ LoadAt("device") <= done
      BY <1>1, <1>3, <3>1, Places DEF LoadAt, Names
    <3>3. "device" \in failed
      BY <1>4, <3>1, <3>2 DEF HandleOK, Come, Gone, Missed
    <3>4. handle' = [handle EXCEPT ![r] = "null"]
      BY <1>3, <1>4, <2>1 DEF HandleOK
    <3>. QED
      BY <2>1, <3>1, <3>3, <3>4 DEF Missed
  <2>2. CASE handle' = [handle EXCEPT ![r] = "held"]
    BY <2>2
  <2>3. CASE \E worth \in Leaves(r) : handle' = [handle EXCEPT ![r] = worth] /\ r \in failed'
    <3>1. Leaves(r) \subseteq {"null", "held", "stale"}
      BY DEF Leaves
    <3>. QED
      BY <2>3, <3>1 DEF Missed
  <2>. QED
    BY <1>5, <2>1, <2>2, <2>3
<1>7. /\ phase' = IF done = 6 THEN "ready" ELSE "loading"
      /\ done' = IF done = 6 THEN 0 ELSE done + 1
  BY <1>1, <1>4 DEF Load
<1>8. bad' = bad /\ UNCHANGED <<sending, held, mainThread, currentState, disorderly, fault,
                            handler>>
  BY DEF Load, ThreadInit, txVars, rxVars
<1>9. UNCHANGED file
  <2>1. InitMutexOf(r)
    BY <1>2 DEF Load
  <2>2. CASE r # "buffers"
    BY <2>1, <2>2 DEF InitMutexOf, charVars
  <2>3. CASE r = "buffers"
    BY <2>1, <2>3, NetworkAssumption DEF InitMutexOf, MutexInit
  <2>. QED
    BY <2>2, <2>3
<1>. QED
  BY <1>2, <1>3, <1>4, <1>6, <1>7, <1>8, <1>9

\* A step of the unloading sequence.
LEMMA UnloadFacts ==
    ASSUME HandleOK, Unload
    PROVE  \E r \in Resources :
             /\ r = master_controler_exit[done + 1] /\ ExitAt(r) = done + 1 /\ Quiet(r)
             /\ handle' = [handle EXCEPT ![r] = "null"]
             /\ bad' = bad \/ (bad' = bad \cup {r} /\ ~Has(r))
             /\ phase' = IF done = 6 THEN "unloaded" ELSE "unloading"
             /\ done' = IF done = 6 THEN 0 ELSE done + 1
             /\ phase = "unloading"
             /\ r = "list" => active_host_list' = EmptyBag
             /\ UNCHANGED <<failed, fault, disorderly, handler, txVars, stmVars>>
             /\ UNCHANGED file
<1>1. done \in 0 .. 6 /\ done + 1 \in 1 .. 7 /\ Len(master_controler_exit) = 7
  BY ExitOrder DEF HandleOK
<1>2. PICK r : r = master_controler_exit[done + 1]
  OBVIOUS
<1>3. r \in Resources /\ ExitAt(r) = done + 1
  BY <1>1, <1>2, Places
<1>4. /\ phase = "unloading" /\ Quiet(r) /\ handle' = [handle EXCEPT ![r] = "null"]
      /\ r = "list" => active_host_list' = EmptyBag
      /\ UNCHANGED <<failed, fault, disorderly, handler, txVars, stmVars>>
  BY <1>2 DEF Unload, cleanupActiveHostList, rxVars
<1>5. bad' = bad \/ (bad' = bad \cup {r} /\ ~Has(r))
  BY <1>2 DEF Unload
<1>6. /\ phase' = IF done = 6 THEN "unloaded" ELSE "unloading"
      /\ done' = IF done = 6 THEN 0 ELSE done + 1
  BY <1>1, <1>4 DEF Unload
<1>7. UNCHANGED file
  <2>1. DestroyMutexOf(r)
    BY <1>2 DEF Unload
  <2>2. CASE r # "buffers"
    BY <2>1, <2>2 DEF DestroyMutexOf, charVars
  <2>3. CASE r = "buffers"
    BY <2>1, <2>3, NetworkAssumption DEF DestroyMutexOf, MutexDestroy
  <2>. QED
    BY <2>2, <2>3
<1>. QED
  BY <1>2, <1>3, <1>4, <1>5, <1>6, <1>7

\* What is had is what has come and is not gone.
LEMMA HandleStays == HandleOK /\ [Next]_vars => HandleOK'
<1>. SUFFICES ASSUME HandleOK, [Next]_vars PROVE HandleOK'
  OBVIOUS
<1>0. failed \subseteq failed' /\ \A r : Missed(r) => Missed(r)'
  BY LifeSteps DEF Missed
<1>1. CASE Load
  <2>1. PICK r \in Resources, w \in {"null", "held", "stale"} :
             /\ r = master_controler_init[done + 1] /\ LoadAt(r) = done + 1
             /\ handle' = [handle EXCEPT ![r] = w]
             /\ w = "held" \/ Missed(r)'
             /\ phase' = IF done = 6 THEN "ready" ELSE "loading"
             /\ done' = IF done = 6 THEN 0 ELSE done + 1
             /\ bad' = bad /\ phase = "loading"
    BY <1>1, LoadFacts
  <2>2. handle' \in [Resources -> {"null", "held", "stale"}] /\ handle'[r] = w
        /\ \A x \in Resources \ {r} : handle'[x] = handle[x]
    BY <2>1 DEF HandleOK
  <2>3. done \in 0 .. 6 /\ done' \in 0 .. 6 /\ phase' \in {"loading", "ready"}
        /\ (phase' = "ready" => done' = 0)
    BY <2>1 DEF HandleOK
  <2>4. \A x \in Resources : LoadAt(x) \in 1 .. 7 /\ (LoadAt(x) = done + 1 => x = r)
    BY <2>1, Places
  <2>5. \A x \in Resources : Come(x)' <=> (Come(x) \/ x = r)
    BY <2>1, <2>3, <2>4 DEF Come
  <2>6. \A x \in Resources : ~Gone(x) /\ ~Gone(x)'
    BY <2>1, <2>3 DEF Gone
  <2>7. ASSUME NEW x \in Resources
        PROVE  /\ ~Come(x)' \/ Gone(x)' => handle'[x] = "null"
               /\ Come(x)' /\ ~Gone(x)' => Has(x)' \/ Missed(x)'
    <3>1. CASE x = r
      BY <2>1, <2>2, <2>5, <2>6, <3>1 DEF Has
    <3>2. CASE x # r
      BY <1>0, <2>2, <2>5, <2>6, <3>2 DEF HandleOK, Has
    <3>. QED
      BY <3>1, <3>2
  <2>8. \A x \in bad' : Missed(x)'
    BY <1>0, <2>1 DEF HandleOK
  <2>. QED
    BY <2>2, <2>3, <2>7, <2>8 DEF HandleOK
<1>2. CASE rmmod
  <2>1. /\ phase = "ready" /\ done = 0 /\ phase' = "unloading"
        /\ UNCHANGED <<done, handle, failed, bad>>
    BY <1>2 DEF rmmod, HandleOK
  <2>2. \A r \in Resources : Come(r) /\ Come(r)' /\ ~Gone(r) /\ ~Gone(r)'
    BY <2>1, Places DEF Come, Gone
  <2>. QED
    BY <2>1, <2>2 DEF HandleOK, Has, Missed
<1>3. CASE Unload
  <2>1. PICK r \in Resources :
             /\ ExitAt(r) = done + 1
             /\ handle' = [handle EXCEPT ![r] = "null"]
             /\ bad' = bad \/ (bad' = bad \cup {r} /\ ~Has(r))
             /\ phase' = IF done = 6 THEN "unloaded" ELSE "unloading"
             /\ done' = IF done = 6 THEN 0 ELSE done + 1
             /\ phase = "unloading"
             /\ r = master_controler_exit[done + 1]
    BY <1>3, UnloadFacts
  <2>2. handle' \in [Resources -> {"null", "held", "stale"}] /\ handle'[r] = "null"
        /\ \A x \in Resources \ {r} : handle'[x] = handle[x]
    BY <2>1 DEF HandleOK
  <2>3. done \in 0 .. 6 /\ done' \in 0 .. 6 /\ phase' \in {"unloading", "unloaded"}
    BY <2>1 DEF HandleOK
  <2>4. \A x \in Resources : ExitAt(x) \in 1 .. 7 /\ (ExitAt(x) = done + 1 => x = r)
    BY <2>1, Places
  <2>5. \A x \in Resources : Gone(x)' <=> (Gone(x) \/ x = r)
    BY <2>1, <2>3, <2>4 DEF Gone
  <2>6. \A x \in Resources : Come(x) /\ Come(x)'
    BY <2>1, <2>3 DEF Come
  <2>7. ASSUME NEW x \in Resources
        PROVE  /\ ~Come(x)' \/ Gone(x)' => handle'[x] = "null"
               /\ Come(x)' /\ ~Gone(x)' => Has(x)' \/ Missed(x)'
    BY <1>0, <2>2, <2>5, <2>6 DEF HandleOK, Has
  <2>8. ~Gone(r)
    BY <2>1, <2>3 DEF Gone
  <2>9. \A x \in bad' : Missed(x)'
    BY <1>0, <2>1, <2>6, <2>8 DEF HandleOK
  <2>. QED
    BY <2>2, <2>3, <2>7, <2>9 DEF HandleOK
<1>4. CASE UNCHANGED <<phase, done, handle, bad>>
  BY <1>0, <1>4 DEF HandleOK, Come, Gone, Has
<1>. QED
  BY <1>1, <1>2, <1>3, <1>4, LifeSteps

\* What a step that neither loads nor unloads uses is there, or could not be had.
LEMMA UsedIsThere ==
    ASSUME HandleOK
    PROVE  /\ phase = "ready" => \A r \in Resources : Has(r) \/ Missed(r)
           /\ Has("thread") \/ Has("hooks") => /\ phase # "unloaded"
                                               /\ Has("list") \/ "list" \in failed
<1>1. {"thread", "hooks", "list"} \subseteq Resources
  BY Places DEF Names
<1>2. \A r \in Resources : phase = "ready" => Come(r) /\ ~Gone(r)
  BY DEF Come, Gone
<1>3. \A r \in {"thread", "hooks"} : Has(r) => Come(r) /\ ~Gone(r)
  BY <1>1 DEF HandleOK, Has
<1>4. Has("thread") \/ Has("hooks") => phase # "unloaded" /\ Come("list") /\ ~Gone("list")
  BY <1>3 DEF Come, Gone, LoadAt, ExitAt, HandleOK
<1>. QED
  BY <1>1, <1>2, <1>4 DEF HandleOK, Missed

\* A handler stays in the hooks or in the packet types until it is done.
LEMMA ReceiveStays ==
    ASSUME RxOK, NEW i \in Interfaces, Receive(i) \/ (Done(i) /\ handler[i].at = "add"),
           NEW j \in Interfaces
    PROVE  (InHooks(j)' => InHooks(j)) /\ (InPacks(j)' => InPacks(j))
<1>. DEFINE Hooks == Ats \ {"idle", "arp", "asked", "answer", "ndp"}
            Packs == {"arp", "asked", "answer", "ndp"}
<1>0. handler \in [Interfaces -> HandlerType]
  BY DEF RxOK
<1>1. CASE \E where \in Hooks : GoTo(i, where) /\ handler[i].at \in Hooks
  BY <1>0, <1>1 DEF GoTo, HandlerType, InHooks, InPacks
<1>2. CASE \E where \in Packs : GoTo(i, where) /\ handler[i].at \in Packs
  BY <1>0, <1>2 DEF GoTo, HandlerType, InHooks, InPacks
<1>3. CASE Done(i)
  BY <1>0, <1>3 DEF Done, Idle, InHooks, InPacks
<1>4. CASE Payload(i)
  <2>1. PICK ok \in BOOLEAN : Decrypt(i, ok)
    BY <1>4 DEF Payload
  <2>2. handler[i].at = "payload" /\ handler'[j].at = IF j = i THEN "diagnostic" ELSE handler[j].at
    BY <1>4, <2>1, PayloadFacts DEF Payload
  <2>. QED
    BY <2>2 DEF InHooks, InPacks
<1>5. ASSUME NEW q, handler[i].at = "reply",
             handler' = [handler EXCEPT ![i].at = "add", ![i].src = q]
      PROVE  (InHooks(j)' => InHooks(j)) /\ (InPacks(j)' => InPacks(j))
  <2>. DEFINE h == [handler[i] EXCEPT !.at = "add", !.src = q]
  <2>1. h.at = "add" /\ handler' = [handler EXCEPT ![i] = h]
    BY <1>0, <1>5 DEF HandlerType
  <2>. HIDE DEF h
  <2>. QED
    BY <1>0, <1>5, <2>1 DEF InHooks, InPacks
<1>6. CASE HookCommunication(i) \/ Transport(i) \/ HookDiagnostic(i) \/ Icmp(i)
  BY <1>1, <1>3, <1>6 DEF HookCommunication, Transport, HookDiagnostic, Icmp, Ats
<1>7. CASE Reply(i)
  BY <1>3, <1>5, <1>7 DEF Reply
<1>8. CASE arpReceive(i) \/ handleArpRequest(i) \/ ArpAnswer(i) \/ ndpReceive(i)
  BY <1>2, <1>3, <1>8 DEF arpReceive, handleArpRequest, ArpAnswer, ndpReceive
<1>. QED
  BY <1>3, <1>4, <1>6, <1>7, <1>8 DEF Receive

\* Which steps move a handler, and which the list of hosts.
LEMMA HandlerSteps ==
    [Next]_vars => \/ UNCHANGED handler
                   \/ \E i \in Interfaces : Packet(i) \/ Handle(i) \/ Discovery(i)
  BY DEF Next, Load, rmmod, Unload, Thread, Wake, GetState, Ping, Transmission, EndCase,
     CaseDone, Calls, open, OpenOrClose, commanderWrite, commanderRead, Post, Network,
     threadRest, vars, rxVars, cleanupActiveHostList

\* Nothing is received without what it is received with.
LEMMA HandlersStay == RxOK /\ HandleOK /\ HandlersOK /\ [Next]_vars => HandlersOK'
<1>. SUFFICES ASSUME RxOK, HandleOK, HandlersOK, [Next]_vars PROVE HandlersOK'
  OBVIOUS
<1>0. {"hooks", "packs"} \subseteq Resources
  BY Places DEF Names
<1>1. CASE Load
  <2>1. PICK r \in Resources, w \in {"null", "held", "stale"} :
             handle' = [handle EXCEPT ![r] = w] /\ handle[r] = "null" /\ UNCHANGED handler
    BY <1>1, LoadFacts
  <2>2. Has("hooks") => Has("hooks")'
    BY <1>0, <2>1 DEF Has, HandleOK
  <2>3. Has("packs") => Has("packs")'
    BY <1>0, <2>1 DEF Has, HandleOK
  <2>. QED
    BY <2>1, <2>2, <2>3 DEF HandlersOK, InHooks, InPacks
<1>2. CASE Unload
  <2>1. PICK r \in Resources : /\ handle' = [handle EXCEPT ![r] = "null"] /\ Quiet(r)
                               /\ UNCHANGED handler
    BY <1>2, UnloadFacts
  <2>2. ASSUME NEW i \in Interfaces
        PROVE  (InHooks(i)' => Has("hooks")') /\ (InPacks(i)' => Has("packs")')
    BY <1>0, <2>1, <2>2 DEF HandlersOK, Quiet, Has, InHooks, InPacks, HandleOK
  <2>. QED
    BY <2>2 DEF HandlersOK
<1>3. CASE UNCHANGED <<handle, handler>>
  BY <1>3 DEF HandlersOK, Has, InHooks, InPacks
<1>4. ASSUME NEW i \in Interfaces, Packet(i) PROVE HandlersOK'
  <2>1. PICK p \in scene.packets : Registered(p.kind) /\ Arrive(i, p)
    BY <1>4 DEF Packet
  <2>2. handler' = [handler EXCEPT ![i] = [at |-> Entry(p.kind), packet |-> p, src |-> "none"]]
        /\ handler \in [Interfaces -> HandlerType] /\ UNCHANGED handle
    BY <1>4, <2>1 DEF Arrive, RxOK, Packet
  <2>3. ASSUME NEW j \in Interfaces
        PROVE  (InHooks(j)' => Has("hooks")') /\ (InPacks(j)' => Has("packs")')
    <3>1. CASE j # i
      BY <2>2, <3>1 DEF HandlersOK, InHooks, InPacks, Has
    <3>2. CASE j = i
      <4>1. handler'[j].at = Entry(p.kind)
        BY <2>2, <3>2
      <4>2. Entry(p.kind) \in {"communication", "arp", "ndp"}
        BY DEF Entry
      <4>3. IF Entry(p.kind) = "communication" THEN Has("hooks") ELSE Has("packs")
        BY <2>1 DEF Registered
      <4>. QED
        BY <2>2, <4>1, <4>2, <4>3 DEF InHooks, InPacks, Has
    <3>. QED
      BY <3>1, <3>2
  <2>. QED
    BY <2>3 DEF HandlersOK
<1>5. ASSUME NEW i \in Interfaces, Handle(i) \/ Discovery(i) PROVE HandlersOK'
  <2>1. (Receive(i) \/ (Done(i) /\ handler[i].at = "add")) /\ UNCHANGED handle
    BY <1>5 DEF Handle, Discovery, AddHost
  <2>2. ASSUME NEW j \in Interfaces
        PROVE  (InHooks(j)' => InHooks(j)) /\ (InPacks(j)' => InPacks(j))
    BY <2>1, ReceiveStays
  <2>. QED
    BY <2>1, <2>2 DEF HandlersOK, Has
<1>6. CASE UNCHANGED handler /\ rmmod
  BY <1>3, <1>6 DEF rmmod
<1>. QED
  BY <1>1, <1>2, <1>3, <1>4, <1>5, <1>6, HandlerSteps, LifeSteps

\* What the thread does it does while it is there.
LEMMA ThreadKeeps ==
    ASSUME HandleOK, [Next]_vars, Has("thread"), mainThread.at # "wait"
    PROVE  Has("thread")'
<1>0. "thread" \in Resources
  BY Places DEF Names
<1>1. CASE Load
  <2>1. PICK r \in Resources, w \in {"null", "held", "stale"} :
             handle' = [handle EXCEPT ![r] = w] /\ handle[r] = "null"
    BY <1>1, LoadFacts
  <2>. QED
    BY <1>0, <2>1 DEF Has, HandleOK
<1>2. CASE Unload
  <2>1. PICK r \in Resources : handle' = [handle EXCEPT ![r] = "null"] /\ Quiet(r)
    BY <1>2, UnloadFacts
  <2>. QED
    BY <1>0, <2>1 DEF Has, HandleOK, Quiet
<1>3. CASE UNCHANGED handle
  BY <1>3 DEF Has
<1>. QED
  BY <1>1, <1>2, <1>3, LifeSteps DEF rmmod

\* Which steps are the thread's.
LEMMA ThreadSteps ==
    [Next]_vars =>
      \/ Wake \/ GetState \/ Ping \/ Transmission \/ EndCase \/ CaseDone
      \/ /\ UNCHANGED <<sending, held, mainThread>>
         /\ \/ UNCHANGED currentState
            \/ currentState' = "ICMP_PING" /\ \E u \in Users : file[u].at = "in"
            \/ phase = "ready" /\ phase' = "ready" /\ currentState' \in mainThreadStateType
  BY DEF Next, Load, rmmod, Unload, Thread, Calls, open, OpenOrClose, commanderWrite,
     commanderRead, Post, Network, Packet, Handle, Discovery, threadRest, vars, txVars, stmVars,
     ThreadInit, setStateMachine

\* The thread sends in its case.
LEMMA ThreadStays == HandleOK /\ ThreadOK /\ [Next]_vars => ThreadOK'
<1>. SUFFICES ASSUME HandleOK, ThreadOK, [Next]_vars PROVE ThreadOK'
  OBVIOUS
<1>. DEFINE Type == [at : {"wait", "woken", "send", "done"}, host : Int]
<1>0. mainThread \in Type /\ currentState \in mainThreadStateType
  BY DEF ThreadOK
<1>1. CASE Wake
  <2>1. Has("thread") /\ Has("thread")'
    BY <1>1 DEF Wake, threadRest, Has
  <2>2. sending = Silent /\ sending' = sending /\ currentState' = currentState
        /\ mainThread' = [mainThread EXCEPT !.at = "woken"]
    BY <1>1 DEF Wake, txVars, Goes, ThreadOK
  <2>. QED
    BY <1>0, <2>1, <2>2 DEF ThreadOK
<1>2. CASE GetState
  <2>1. Has("thread")' /\ sending = Silent /\ mainThread.at = "woken"
    BY <1>2, ThreadKeeps DEF GetState, ThreadOK
  <2>2. /\ mainThread'.at = CASE currentState = "IDLE" -> "wait"
                              [] currentState = "DONE" -> "done"
                              [] OTHER -> "send"
        /\ mainThread' \in Type
    BY <1>2 DEF GetState
  <2>3. currentState \in {"IDLE", "DONE"} => sending' = Silent
    BY <1>2, <2>1 DEF GetState, txVars
  <2>. QED
    BY <1>0, <1>2, <2>1, <2>2, <2>3 DEF ThreadOK, GetState
<1>3. CASE Ping
  <2>1. mainThread.at = "send" /\ mainThread' = [mainThread EXCEPT !.host = @ + 1]
        /\ currentState' = currentState
    BY <1>3 DEF Ping
  <2>2. Has("thread")'
    BY <2>1, ThreadKeeps DEF ThreadOK
  <2>. QED
    BY <1>0, <2>1, <2>2 DEF ThreadOK
<1>4. CASE Transmission
  <2>1. mainThread.at = "send" /\ mainThread' = mainThread /\ currentState' = currentState
    BY <1>4 DEF Transmission, stmVars, ThreadOK
  <2>2. Has("thread")'
    BY <2>1, ThreadKeeps DEF ThreadOK
  <2>. QED
    BY <1>0, <2>1, <2>2 DEF ThreadOK
<1>5. CASE EndCase \/ CaseDone
  <2>1. sending' = Silent /\ mainThread' = [mainThread EXCEPT !.at = "wait"]
        /\ currentState' \in {"DONE", "IDLE"}
    BY <1>5 DEF EndCase, CaseDone, txVars, Goes, setStateMachine, ThreadOK
  <2>. QED
    BY <1>0, <2>1 DEF ThreadOK, mainThreadStateType
<1>6. CASE UNCHANGED <<sending, mainThread>> /\ currentState' \in mainThreadStateType
  <2>1. mainThread.at # "wait" => Has("thread")'
    BY ThreadKeeps DEF ThreadOK
  <2>. QED
    BY <1>0, <1>6, <2>1 DEF ThreadOK
<1>. QED
  BY <1>0, <1>1, <1>2, <1>3, <1>4, <1>5, <1>6, ThreadSteps DEF mainThreadStateType

\* The account is kept.
LEMMA SendingStays == ThreadOK /\ SendingOK /\ [Next]_vars => SendingOK'
<1>. SUFFICES ASSUME ThreadOK, SendingOK, [Next]_vars PROVE SendingOK'
  OBVIOUS
<1>0. failed \subseteq failed'
  BY LifeSteps
<1>1. CASE UNCHANGED <<sending, held>>
  BY <1>0, <1>1 DEF SendingOK, Stage
<1>2. CASE GetState
  <2>1. CASE currentState \in {"IDLE", "DONE", "ICMP_PING"}
    BY <1>1, <1>2, <2>1 DEF GetState, txVars
  <2>2. CASE currentState \notin {"IDLE", "DONE", "ICMP_PING"}
    <3>1. currentState \in Whats
      BY <2>2 DEF ThreadOK, Whats, mainThreadStateType
    <3>2. Begin(currentState, 0) /\ failed' = failed
      BY <1>2, <2>2 DEF GetState, threadRest
    <3>. QED
      BY <3>1, <3>2, BeginKeeps
  <2>. QED
    BY <2>1, <2>2
<1>3. CASE Ping
  <2>1. Begin("ICMP_PING", mainThread.host) /\ failed' = failed /\ mainThread.host \in Int
    BY <1>3 DEF Ping, threadRest, ThreadOK
  <2>2. "ICMP_PING" \in Whats
    BY DEF Whats
  <2>. QED
    BY <2>1, <2>2, BeginKeeps
<1>4. CASE Transmission
  <2>1. sending # Silent /\ (StageDone \/ (StageFails /\ (Stage = "xmit" => "xmit" \in failed')))
    BY <1>4 DEF Transmission
  <2>. QED
    BY <1>0, <2>1, StageDoneKeeps, StageFailsKeeps
<1>5. CASE Wake \/ EndCase \/ CaseDone
  BY <1>1, <1>5 DEF Wake, EndCase, CaseDone, txVars
<1>. QED
  BY <1>1, <1>2, <1>3, <1>4, <1>5, ThreadSteps

\* What a driver that is being unloaded in order does not do.
LEMMA OrderlyStays ==
    ASSUME HandleOK, ThreadOK, SendingOK, OrderlyOK, [Next]_vars
    PROVE  OrderlyOK'
<1>. DEFINE Calm == /\ \A u \in Users : file[u] = Out
                    /\ currentState \notin {"ARP_REQUEST", "UDP_TRANSMISSION", "TCP_TRANSMISSION"}
                    /\ sending # Silent => sending.what \in {"ICMP_PING", "NDP_REQUEST"}
<1>1. CASE rmmod
  <2>1. /\ disorderly' = (Transmits \/ \E u \in Users : file[u] # Out)
        /\ UNCHANGED <<file, currentState, sending>>
    BY <1>1 DEF rmmod, charVars, stmVars, txVars
  <2>2. ~disorderly' => Calm /\ Calm'
    BY <2>1 DEF Transmits
  <2>. QED
    BY <2>2 DEF OrderlyOK
<1>2. ASSUME phase' # "ready", ~disorderly', ~rmmod PROVE phase # "ready" /\ ~disorderly
  <2>1. phase # "ready"
    BY <1>2, LifeSteps, LoadFacts, UnloadFacts
  <2>2. disorderly => disorderly'
    BY <1>2 DEF Next, Load, Unload, Thread, Wake, GetState, Ping, Transmission, EndCase,
       CaseDone, Calls, open, OpenOrClose, commanderWrite, commanderRead, Post, Network, Packet,
       Handle, Discovery, threadRest, vars, lifeVars
  <2>. QED
    BY <1>2, <2>1, <2>2
<1>3. ASSUME phase' # "ready", ~disorderly', ~rmmod PROVE Calm'
  <2>1. Calm /\ phase # "ready" /\ ~disorderly
    BY <1>2, <1>3 DEF OrderlyOK
  <2>2. UNCHANGED file
    <3>1. CASE Load
      BY <3>1, LoadFacts
    <3>2. CASE Unload
      BY <3>2, UnloadFacts
    <3>3. \A u \in Users : ~OpenOrClose(u) /\ ~(\E d \in Devices : open(u, d))
      <4>1. ASSUME NEW u \in Users PROVE ~OpenOrClose(u)
        BY <2>1 DEF OpenOrClose, OpenResult, Close, Out
      <4>2. ASSUME NEW u \in Users, NEW d \in Devices, open(u, d) PROVE FALSE
        <5>1. disorderly' = (disorderly \/ phase # "ready")
          BY <4>2 DEF open
        <5>. QED
          BY <1>3, <2>1, <5>1
      <4>. QED
        BY <4>1, <4>2
    <3>. QED
      BY <1>3, <3>1, <3>2, <3>3 DEF Next, Thread, Wake, GetState, Ping, Transmission, EndCase,
         CaseDone, Calls, commanderWrite, commanderRead, Post, Network, Packet, Handle,
         Discovery, threadRest, vars, charVars
  <2>3. \A u \in Users : file[u].at # "in"
    BY <2>1 DEF Out
  <2>4. CASE UNCHANGED <<sending, currentState>>
    BY <2>1, <2>2, <2>4
  <2>5. CASE GetState
    <3>1. currentState' = currentState
          /\ (sending' = sending \/ sending' = [what |-> currentState, to |-> 0, stage |-> 1])
      BY <2>5 DEF GetState, Begin, txVars
    <3>2. sending' # Silent => sending'.what \in {"ICMP_PING", "NDP_REQUEST"}
      <4>1. CASE sending' = sending
        BY <2>1, <4>1
      <4>2. CASE sending' # sending
        <5>1. currentState \notin {"IDLE", "DONE", "ICMP_PING"}
          BY <2>5, <4>2 DEF GetState, txVars
        <5>2. currentState = "NDP_REQUEST"
          BY <2>1, <5>1 DEF ThreadOK, mainThreadStateType
        <5>. QED
          BY <3>1, <4>2, <5>2
      <4>. QED
        BY <4>1, <4>2
    <3>. QED
      BY <2>1, <2>2, <3>1, <3>2
  <2>6. CASE Ping
    BY <2>1, <2>2, <2>6 DEF Ping, Begin
  <2>7. CASE Transmission
    <3>1. sending # Silent /\ UNCHANGED currentState
          /\ (sending' = Silent \/ sending' = [sending EXCEPT !.stage = @ + 1])
      BY <2>7 DEF Transmission, StageDone, StageFails, stmVars
    <3>2. sending \in [what : Whats, to : Int, stage : Int]
      BY <3>1 DEF SendingOK
    <3>. QED
      BY <2>1, <2>2, <3>1, <3>2
  <2>8. CASE Wake
    BY <2>4, <2>8 DEF Wake, txVars
  <2>9. CASE EndCase \/ CaseDone
    BY <2>1, <2>2, <2>9 DEF EndCase, CaseDone, setStateMachine, txVars
  <2>10. CASE UNCHANGED sending /\ currentState' = "ICMP_PING"
    BY <2>1, <2>2, <2>10
  <2>. QED
    BY <2>1, <2>3, <2>4, <2>5, <2>6, <2>7, <2>8, <2>9, <2>10, ThreadSteps
<1>. QED
  BY <1>1, <1>3 DEF OrderlyOK

\* The list goes after everybody that adds to it.
LEMMA ListStays ==
    ASSUME HandleOK, HandlersOK, [Next]_vars, phase = "unloaded" => active_host_list = EmptyBag
    PROVE  phase' = "unloaded" => active_host_list' = EmptyBag
<1>1. CASE Unload
  <2>1. PICK r \in Resources : /\ ExitAt(r) = done + 1 /\ r = master_controler_exit[done + 1]
                               /\ phase' = IF done = 6 THEN "unloaded" ELSE "unloading"
                               /\ r = "list" => active_host_list' = EmptyBag
    BY <1>1, UnloadFacts
  <2>. QED
    BY <2>1, ExitOrder
<1>2. CASE Load \/ rmmod
  BY <1>2, LoadFacts DEF rmmod
<1>3. CASE phase' = phase /\ UNCHANGED active_host_list
  BY <1>3
<1>4. ASSUME NEW i \in Interfaces, Discovery(i), phase' = phase
      PROVE  phase' # "unloaded"
  <2>1. handler[i].at = "add"
    BY <1>4 DEF Discovery, AddHost
  <2>2. Has("hooks")
    BY <2>1 DEF HandlersOK, InHooks
  <2>. QED
    BY <1>4, <2>2, UsedIsThere
<1>5. UNCHANGED active_host_list \/ Unload \/ \E i \in Interfaces : Discovery(i)
  <2>1. ASSUME NEW i \in Interfaces, Handle(i) PROVE UNCHANGED active_host_list
    BY <2>1 DEF Handle, Receive, HookCommunication, Transport, Payload, HookDiagnostic, Icmp,
       Reply, arpReceive, handleArpRequest, ArpAnswer, ndpReceive, rxRest, rxHooks
  <2>. QED
    BY <2>1 DEF Next, Load, rmmod, Thread, Wake, GetState, Ping, Transmission, EndCase,
       CaseDone, Calls, open, OpenOrClose, commanderWrite, commanderRead, Post, Network, Packet,
       Arrive, threadRest, vars, rxVars
<1>. QED
  BY <1>1, <1>2, <1>3, <1>4, <1>5, LifeSteps

\* Who uses something that is gone.
LEMMA FaultStays ==
    ASSUME RxOK, HandleOK, HandlersOK, ThreadOK, OrderlyOK, SendingOK, UnloadsUnderAScan,
           [Next]_vars
    PROVE  UnloadsUnderAScan'
<1>. DEFINE Excused == disorderly' \/ failed' \cap (Resources \cup {"xmit"}) # {}
<1>0. failed \subseteq failed'
  BY LifeSteps
<1>1. CASE UNCHANGED <<fault, disorderly>>
  BY <1>0, <1>1 DEF UnloadsUnderAScan
<1>2. SUFFICES ASSUME fault = "none", fault' # "none", disorderly' = disorderly PROVE Excused
  <2>1. Next => fault = "none"
    BY DEF Next, Load, rmmod, Unload, Thread, Wake, GetState, Ping, Transmission, EndCase,
       CaseDone, Calls, open, OpenOrClose, commanderWrite, commanderRead, Post, Network, Packet,
       Handle, Discovery, Up
  <2>2. UNCHANGED fault \/ UNCHANGED disorderly
    BY DEF Next, Load, rmmod, Unload, Thread, Wake, GetState, Ping, Transmission, EndCase,
       CaseDone, Calls, open, OpenOrClose, commanderWrite, commanderRead, Post, Network, Packet,
       Handle, Discovery, threadRest, vars, lifeVars
  <2>. QED
    BY <1>1, <2>1, <2>2 DEF UnloadsUnderAScan, vars, lifeVars
<1>3. CASE Transmission
  <2>1. sending # Silent /\ Has("thread") /\ phase # "unloaded"
    BY <1>3, UsedIsThere DEF Transmission, ThreadOK
  <2>2. "xmit" \in failed' \/ Use("mainThread", Uses)
    BY <1>3 DEF Transmission
  <2>3. ASSUME Use("mainThread", Uses) PROVE Excused
    <3>1. ~Has("device") /\ Stage \in {"check", "xmit"}
      BY <1>2, <2>1, <2>3 DEF Use, Uses
    <3>2. sending.what \in Whats /\ sending.stage \in 1 .. Len(Stages(sending.what))
      BY <2>1 DEF SendingOK
    <3>3. sending.what \notin {"ICMP_PING", "NDP_REQUEST"}
      BY <3>1, <3>2, StageFacts DEF TakesOver, Stage
    <3>4. disorderly \/ phase = "ready"
      BY <2>1, <3>3 DEF OrderlyOK
    <3>5. phase = "ready" => "device" \in failed /\ "device" \in Resources
      BY <3>1, UsedIsThere, Places DEF Missed, Names
    <3>. QED
      BY <1>0, <1>2, <3>4, <3>5
  <2>. QED
    BY <2>2, <2>3
<1>4. CASE EndCase \/ \E i \in Interfaces : Discovery(i)
  <2>1. \E who : \E S \in SUBSET {"list"} : Use(who, S)
    BY <1>4 DEF EndCase, Discovery
  <2>2. Has("thread") \/ Has("hooks")
    BY <1>4 DEF EndCase, Discovery, AddHost, ThreadOK, HandlersOK, InHooks
  <2>3. phase # "unloaded" /\ (Has("list") \/ "list" \in failed)
    BY <2>2, UsedIsThere
  <2>4. "list" \in failed /\ "list" \in Resources
    BY <1>2, <2>1, <2>3, Places DEF Use, Names
  <2>. QED
    BY <1>0, <2>4
<1>5. ASSUME NEW u \in Users, OpenOrClose(u) \/ commanderWrite(u) \/ commanderRead(u)
      PROVE  Excused
  <2>1. \E who : \E S \in SUBSET {"buffers"} : Use(who, S)
    BY <1>5 DEF OpenOrClose, commanderWrite, commanderRead
  <2>2. file[u] # Out
    BY <1>5 DEF OpenOrClose, OpenResult, Close, commanderWrite, commanderRead, Out
  <2>3. disorderly \/ phase = "ready"
    BY <2>2 DEF OrderlyOK
  <2>4. phase = "ready" => "buffers" \in failed /\ "buffers" \in Resources
    <3>1. phase = "ready" => ~Has("buffers")
      BY <1>2, <2>1 DEF Use
    <3>. QED
      BY <3>1, UsedIsThere, Places DEF Missed, Names
  <2>. QED
    BY <1>0, <1>2, <2>3, <2>4
<1>. QED
  <2>1. \/ UNCHANGED fault \/ Transmission \/ EndCase \/ \E i \in Interfaces : Discovery(i)
        \/ \E u \in Users : OpenOrClose(u) \/ commanderWrite(u) \/ commanderRead(u)
    BY DEF Next, Load, rmmod, Unload, Thread, Wake, GetState, Ping, CaseDone, Calls, open, Post,
       Network, Packet, Handle, vars, lifeVars
  <2>. QED
    BY <1>2, <1>3, <1>4, <1>5, <2>1

\* Before the driver is loaded.
LEMMA InitLife == Init => LifeInv
<1>. SUFFICES ASSUME Init PROVE LifeInv
  OBVIOUS
<1>1. /\ phase = "loading" /\ done = 0 /\ handle = [r \in Resources |-> "null"]
      /\ currentState = "IDLE" /\ mainThread = [at |-> "wait", host |-> 0]
      /\ failed = {} /\ bad = {} /\ fault = "none" /\ disorderly = FALSE
      /\ sending = Silent /\ held = [r \in Acquired |-> 0]
      /\ file = [u \in Users |-> Out] /\ handler = [i \in Interfaces |-> Idle]
  BY DEF Init, TxInit, RxInit, CharInit
<1>2. HandleOK
  BY <1>1, Places DEF HandleOK, Come, Gone
<1>3. HandlersOK
  BY <1>1 DEF HandlersOK, InHooks, InPacks, Idle
<1>4. ThreadOK
  BY <1>1 DEF ThreadOK, mainThreadStateType
<1>5. OrderlyOK
  BY <1>1 DEF OrderlyOK
<1>6. SendingOK
  BY <1>1 DEF SendingOK, Holds
<1>. QED
  BY <1>1, <1>2, <1>3, <1>4, <1>5, <1>6 DEF LifeInv, UnloadsUnderAScan

\* The invariant of loading, unloading and sending holds in every state.
LEMMA AlwaysLife == Spec => []LifeInv
<1>1. IInv /\ LifeInv /\ [Next]_vars => LifeInv'
  <2>. SUFFICES ASSUME IInv, LifeInv, [Next]_vars PROVE LifeInv'
    OBVIOUS
  <2>1. /\ RxOK /\ HandleOK /\ HandlersOK /\ ThreadOK /\ OrderlyOK /\ SendingOK
        /\ UnloadsUnderAScan /\ (phase = "unloaded" => active_host_list = EmptyBag)
    BY DEF LifeInv, IInv
  <2>2. HandleOK' /\ HandlersOK' /\ ThreadOK' /\ SendingOK'
    BY <2>1, HandleStays, HandlersStay, ThreadStays, SendingStays
  <2>3. OrderlyOK' /\ UnloadsUnderAScan' /\ (phase' = "unloaded" => active_host_list' = EmptyBag)
    BY <2>1, OrderlyStays, FaultStays, ListStays
  <2>. QED
    BY <2>2, <2>3 DEF LifeInv
<1>. QED  BY <1>1, InitLife, AlwaysIInv, PTL DEF Spec

\* A scan that runs, or whose answers come in, while the driver is unloaded uses
\* nothing that is gone, at any size of the network.
THEOREM UnloadsCleanly == Spec => []UnloadsUnderAScan
<1>1. LifeInv => UnloadsUnderAScan
  BY DEF LifeInv
<1>. QED  BY <1>1, AlwaysLife, PTL

\* An unload leaves nothing behind and releases nothing that is not the driver's,
\* and whichever stages of however many transmissions fail, all that was acquired is
\* released once, unless dev_queue_xmit failed.
THEOREM NothingLeft == Spec => []NothingIsLeftBehind
<1>1. LifeInv => NothingIsLeftBehind
  <2>. SUFFICES ASSUME LifeInv PROVE NothingIsLeftBehind
    OBVIOUS
  <2>1. phase = "unloaded" => /\ \A r \in Resources : ~Has(r)
                              /\ active_host_list = EmptyBag
    BY DEF LifeInv, HandleOK, Gone, Has
  <2>2. bad \subseteq failed \cup (IF "device" \in failed THEN {"hooks", "packs"} ELSE {})
    BY DEF LifeInv, HandleOK, Missed
  <2>3. "xmit" \notin failed => Balanced
    <3>1. ASSUME "xmit" \notin failed, sending = Silent PROVE held = Holds({})
      BY <3>1 DEF LifeInv, SendingOK
    <3>. QED
      BY <3>1 DEF Balanced, Holds
  <2>. QED
    BY <2>1, <2>2, <2>3 DEF NothingIsLeftBehind
<1>. QED  BY <1>1, AlwaysLife, PTL
=============================================================================
