----------------------------- MODULE NetworkScan -----------------------------
(***************************************************************************)
(* The x86 driver (firmware/x86/src): a user of the character device       *)
(* mainCommander asks for a scan of the network, the main thread pings     *)
(* every host, the hosts answer or not, the receiver lists who answered,   *)
(* and the thread prints the list; meanwhile other packets arrive, other   *)
(* transmissions are posted, and the module is loaded and unloaded.        *)
(***************************************************************************)
EXTENDS CharDevice, Receiver, Transmitter, SequencesExt

CONSTANTS
    LastHost,   \* the last address of the network; 254 in the code
    Scenes      \* bound: who is about, what arrives, is posted, fails, is unloaded

ASSUME NetworkAssumption ==
    /\ LastHost \in Nat \ {0}
    /\ Devices # {} /\ \A d, e \in Devices : d = e    \* mainCommander
    /\ \A s \in Scenes : /\ s.who \subseteq Users /\ s.packets \subseteq Packets
                          /\ s.failures \in Nat /\ s.arrivals \in Nat
                          /\ s.unloaded \in BOOLEAN

VARIABLES
    scene,              \* the scene of this behaviour
    arrived,            \* packets that arrived, when the scene bounds them
    phase, done,        \* of the module's life, and steps of it behind
    handle,             \* what the driver's hold on each resource is worth
    currentState, stateChanged,     \* Process, of mainThread.c
    mainThread,         \* [at, host]: where the thread is
    failed, bad, fault, \* history: not to be had, released wrongly, who failed
    disorderly,         \* history: a user or a sender is there at an unload
    asked               \* history: hosts still to be pinged for who asked for a scan

lifeVars == <<scene, arrived, phase, done, handle, failed, bad, fault, disorderly>>
stmVars == <<currentState, stateChanged, mainThread, asked>>
vars == <<charVars, rxVars, txVars, lifeVars, stmVars>>

mainThreadStateType ==
    {"IDLE", "ICMP_PING", "ARP_REQUEST", "NDP_REQUEST", "TCP_TRANSMISSION",
     "UDP_TRANSMISSION", "DONE"}

\* master_controler_init and master_controler_exit, resource by resource.
networkInit == <<"device", "hooks", "packs">>
mainCommanderInit == <<"buffers", "node">>
master_controler_init == <<"list", "thread">> \o networkInit \o mainCommanderInit

networkDestroy == <<"hooks", "packs", "device">>
mainCommanderDestroy == <<"node", "buffers">>

\* Mutant: the list goes while the receiver is still there.
ExitListFirst == mainCommanderDestroy \o <<"list">> \o networkDestroy \o <<"thread">>

master_controler_exit == mainCommanderDestroy \o networkDestroy \o <<"thread", "list">>

Resources == ToSet(master_controler_init)

\* What a failure leaves: an error value of kthread_create, class_create or
\* device_create, freed buffers, wlp2s0 not found or put; a hook that is not there.
Leaves(r) ==
    CASE r \in {"thread", "buffers", "node"} -> {"stale"}
      [] r = "device" -> {"null", "stale"}
      [] OTHER -> {"null"}

CanFail == {"thread", "device", "hooks", "buffers", "node"}
Unasked == {"hooks", "packs", "list"}

-----------------------------------------------------------------------------
Init ==
    /\ CharInit /\ RxInit /\ TxInit
    /\ scene \in Scenes
    /\ arrived = 0 /\ phase = "loading" /\ done = 0
    /\ handle = [r \in Resources |-> "null"]
    /\ currentState = "IDLE" /\ stateChanged = FALSE
    /\ mainThread = [at |-> "wait", host |-> 0]
    /\ failed = {} /\ bad = {} /\ fault = "none" /\ disorderly = FALSE
    /\ asked = {}

Has(r) == handle[r] = "held"

\* A fault stops the kernel; of an unloaded module nothing can be used.
Up == fault = "none" /\ UNCHANGED <<scene, arrived>>
Use(who, S) == fault' = IF phase = "unloaded" \/ \E r \in S : ~Has(r) THEN who ELSE fault
MayFail(r) == r \in failed \/ Cardinality(failed) < scene.failures

-----------------------------------------------------------------------------
(* Loading; no result of any step is looked at.                            *)

\* mutex_init comes before the buffers.
InitMutexOf(r) ==
    IF r = "buffers" THEN \A d \in Devices : MutexInit(d) ELSE UNCHANGED charVars

\* mainThreadInit posts IDLE before it creates the thread.
ThreadInit(r) ==
    /\ stateChanged' = (stateChanged \/ r = "thread")
    /\ UNCHANGED <<currentState, mainThread, asked>>

\* networkInit returns when the device is not usable.
Skipped(r) == r \in {"hooks", "packs"} /\ ~Has("device")

Load ==
    /\ Up
    /\ phase = "loading"
    /\ LET r == master_controler_init[done + 1] IN
         /\ \/ Skipped(r) /\ UNCHANGED <<handle, failed>>
            \/ /\ ~Skipped(r)
               /\ handle' = [handle EXCEPT ![r] = "held"]
               /\ UNCHANGED failed
            \/ /\ ~Skipped(r) /\ r \in CanFail /\ MayFail(r)
               /\ \E worth \in Leaves(r) : handle' = [handle EXCEPT ![r] = worth]
               /\ failed' = failed \cup {r}
         /\ InitMutexOf(r)
         /\ ThreadInit(r)
    /\ phase' = IF done + 1 = Len(master_controler_init) THEN "ready" ELSE phase
    /\ done' = IF done + 1 = Len(master_controler_init) THEN 0 ELSE done + 1
    /\ UNCHANGED <<rxVars, txVars, bad, fault, disorderly>>

-----------------------------------------------------------------------------
(* Unloading.                                                              *)

\* What the thread runs or is to run that uses the network device.
Transmits == currentState \in {"ARP_REQUEST", "UDP_TRANSMISSION", "TCP_TRANSMISSION"}
             \/ (sending # Silent /\ sending.what # "ICMP_PING")

rmmod ==
    /\ Up
    /\ phase = "ready" /\ scene.unloaded
    /\ phase' = "unloading"
    /\ disorderly' = (Transmits \/ \E u \in Users : file[u] # Out)
    /\ UNCHANGED <<charVars, rxVars, txVars, stmVars, done, handle, failed, bad, fault>>

\* kthread_stop waits for the thread, the hooks and packet types for the packets
\* that are in them.
InHooks(i) == handler[i].at \notin {"idle", "arp", "asked", "answer", "ndp"}
InPacks(i) == handler[i].at \in {"arp", "asked", "answer", "ndp"}

Quiet(r) ==
    /\ r = "thread" => mainThread.at = "wait"
    /\ r = "hooks" => \A i \in Interfaces : ~InHooks(i)
    /\ r = "packs" => \A i \in Interfaces : ~InPacks(i)

DestroyMutexOf(r) ==
    IF r = "buffers" THEN \A d \in Devices : MutexDestroy(d) ELSE UNCHANGED charVars

Stopping(r) == phase = "unloading" /\ master_controler_exit[done + 1] = r

Unload ==
    /\ Up
    /\ phase = "unloading"
    /\ LET r == master_controler_exit[done + 1] IN
         /\ Quiet(r)
         /\ bad' = IF Has(r) \/ (handle[r] = "null" /\ r \notin Unasked) THEN bad
                   ELSE bad \cup {r}
         /\ handle' = [handle EXCEPT ![r] = "null"]
         /\ DestroyMutexOf(r)
         /\ IF r = "list" THEN cleanupActiveHostList ELSE UNCHANGED rxVars
    /\ phase' = IF done + 1 = Len(master_controler_exit) THEN "unloaded" ELSE phase
    /\ done' = IF done + 1 = Len(master_controler_exit) THEN 0 ELSE done + 1
    /\ UNCHANGED <<txVars, stmVars, failed, fault, disorderly>>

-----------------------------------------------------------------------------
(* The main thread.                                                        *)

\* Mutant: the thread is not told.
SetSilently(new) == currentState' = new /\ UNCHANGED stateChanged

setStateMachine(new) == currentState' = new /\ stateChanged' = TRUE
Goes(where) == mainThread' = [mainThread EXCEPT !.at = where]
threadRest == <<charVars, rxVars, phase, done, handle, failed, bad, disorderly>>

\* The flag is cleared before the state is read.
Wake ==
    /\ Up
    /\ Has("thread") /\ ~Stopping("thread")
    /\ mainThread.at = "wait" /\ stateChanged
    /\ stateChanged' = FALSE
    /\ Goes("woken")
    /\ UNCHANGED <<threadRest, txVars, currentState, asked, fault>>

GetState ==
    /\ Up
    /\ mainThread.at = "woken"
    /\ mainThread' = [at |-> CASE currentState = "IDLE" -> "wait"
                               [] currentState = "DONE" -> "done"
                               [] OTHER -> "send",
                      host |-> IF currentState = "ICMP_PING" THEN 1 ELSE 0]
    /\ IF currentState \in {"IDLE", "DONE", "ICMP_PING"} THEN UNCHANGED txVars
       ELSE Begin(currentState, 0)
    /\ UNCHANGED <<threadRest, currentState, stateChanged, asked, fault>>

\* Mutant: the loop ends one address early.
LoopEndsEarly == LastHost

\* for (i = 1; i < 255; i++)
LoopEnd == LastHost + 1

Ping ==
    /\ Up
    /\ mainThread.at = "send" /\ mainThread.host \in 1 .. LoopEnd - 1
    /\ Begin("ICMP_PING", mainThread.host)
    /\ mainThread' = [mainThread EXCEPT !.host = @ + 1]
    /\ UNCHANGED <<threadRest, currentState, stateChanged, asked, fault>>

\* UDP and TCP take the device without a look at the pointer.
Uses == IF Stage = "xmit" \/ (Stage = "check" /\ handle["device"] # "null")
        THEN {"device"} ELSE {}

\* A host has been pinged, or a stage failed and the loop goes on to the next.
HostIsDone ==
    asked' = IF sending.what = "ICMP_PING" /\ sending' = Silent THEN asked \ {sending.to} ELSE asked

Transmission ==
    /\ Up
    /\ sending # Silent
    /\ \/ /\ Stage = "check" => handle["device"] # "null"
          /\ StageDone
          /\ Use("mainThread", Uses)
          /\ UNCHANGED failed
       \/ /\ MayFail(Stage) \/ (Stage = "check" /\ ~Has("device"))
          /\ StageFails
          /\ failed' = IF Stage = "check" THEN failed ELSE failed \cup {Stage}
          /\ IF Stage = "xmit" THEN fault' = "kfree_skb" ELSE Use("mainThread", Uses)
    /\ HostIsDone
    /\ UNCHANGED <<charVars, rxVars, currentState, stateChanged, mainThread, phase, done, handle,
                   bad, disorderly>>

\* The case ends: a scan prints the list, and whatever was posted meanwhile is
\* overwritten.
EndCase ==
    /\ Up
    /\ mainThread.at = "send" /\ mainThread.host \in {0, LoopEnd}
    /\ sending = Silent
    /\ setStateMachine("DONE")
    /\ Goes("wait")
    /\ Use("mainThread", IF mainThread.host # 0 THEN {"list"} ELSE {})
    /\ UNCHANGED <<threadRest, txVars, asked>>

CaseDone ==
    /\ Up
    /\ mainThread.at = "done"
    /\ setStateMachine("IDLE")
    /\ Goes("wait")
    /\ UNCHANGED <<threadRest, txVars, asked, fault>>

-----------------------------------------------------------------------------
(* The user, other callers of setStateMachine, and the network.            *)

open(u, d) ==
    /\ Up
    /\ u \in scene.who /\ Has("node")
    /\ TryLock(u, d)
    /\ disorderly' = (disorderly \/ phase # "ready")
    /\ UNCHANGED <<rxVars, txVars, stmVars, phase, done, handle, failed, bad, fault>>

OpenOrClose(u) ==
    /\ Up
    /\ OpenResult(u) \/ Close(u)
    /\ Use("mainCommander", {})
    /\ UNCHANGED <<rxVars, txVars, stmVars, phase, done, handle, failed, bad, disorderly>>

\* A post is heeded unless the thread is in a case, whose end posts the next.
Heeded == mainThread.at \in {"wait", "woken"}
Asks(new) ==
    asked' = IF ~Heeded THEN asked
             ELSE IF new = "ICMP_PING" /\ Has("thread") /\ phase = "ready" THEN 1 .. LastHost
             ELSE {}

\* 0xD1 0x1C; nothing else that is written changes anything.
commanderWrite(u) ==
    /\ Up
    /\ file[u].at = "in"
    /\ setStateMachine("ICMP_PING")
    /\ Asks("ICMP_PING")
    /\ Use("commanderWrite", {"buffers"})
    /\ UNCHANGED <<charVars, rxVars, txVars, mainThread, phase, done, handle, failed, bad,
                   disorderly>>

\* Nothing raises the flag it waits for; a signal ends the wait, which is not
\* looked at, and the copy is made.
commanderRead(u) ==
    /\ Up
    /\ file[u].at = "in"
    /\ Use("commanderRead", {"buffers"})
    /\ fault' # fault
    /\ UNCHANGED <<charVars, rxVars, txVars, stmVars, phase, done, handle, failed, bad,
                   disorderly>>

\* As the disabled lines of networkInit do (x86network.c:106-109).
Post(new) ==
    /\ Up
    /\ phase = "ready" /\ new \in scene.posts
    /\ setStateMachine(new)
    /\ Asks(new)
    /\ UNCHANGED <<charVars, rxVars, txVars, mainThread, phase, done, handle, failed, bad,
                   fault, disorderly>>

\* A host answers late, again, or never.
Registered(k) ==
    IF Entry(k) = "communication" THEN Has("hooks") /\ ~Stopping("hooks")
    ELSE Has("packs") /\ ~Stopping("packs")

Packet(i) ==
    /\ fault = "none" /\ UNCHANGED scene
    /\ scene.arrivals > 0 => arrived < scene.arrivals
    /\ arrived' = IF scene.arrivals > 0 THEN arrived + 1 ELSE 0
    /\ \E p \in scene.packets :
         /\ Registered(p.kind)
         /\ p.kind = "echoReply" => p.from \in pinged
         /\ Arrive(i, p)
    /\ UNCHANGED <<charVars, txVars, stmVars, phase, done, handle, failed, bad, fault, disorderly>>

Handle(i) ==
    /\ Up
    /\ Receive(i)
    /\ UNCHANGED <<charVars, txVars, stmVars, phase, done, handle, failed, bad, fault, disorderly>>

Discovery(i) ==
    /\ Up
    /\ \E memory \in BOOLEAN :
         /\ memory \/ MayFail("memory")
         /\ AddHost(i, memory)
         /\ failed' = IF memory THEN failed ELSE failed \cup {"memory"}
    /\ Use("addActiveHost", {"list"})
    /\ UNCHANGED <<charVars, txVars, stmVars, phase, done, handle, bad, disorderly>>

-----------------------------------------------------------------------------
Thread == Wake \/ GetState \/ Ping \/ Transmission \/ EndCase \/ CaseDone
Calls(u) == OpenOrClose(u) \/ commanderWrite(u) \/ commanderRead(u) \/ \E d \in Devices : open(u, d)
Network(i) == Packet(i) \/ Handle(i) \/ Discovery(i)

Next ==
    \/ Load \/ rmmod \/ Unload \/ Thread
    \/ \E u \in Users : Calls(u)
    \/ \E new \in mainThreadStateType : Post(new)
    \/ \E i \in Interfaces : Network(i)

\* modprobe and rmmod go on, the thread runs, a handler that has begun ends.
Spec ==
    /\ Init /\ [][Next]_vars
    /\ WF_vars(Load \/ Unload)
    /\ WF_vars(Thread)
    /\ \A i \in Interfaces : WF_vars(Handle(i) \/ Discovery(i))

-----------------------------------------------------------------------------
(* Properties.                                                             *)

\* Every variable keeps its type.
TypeOK ==
    /\ RxTypeOK /\ TxTypeOK
    /\ phase \in {"loading", "ready", "unloading", "unloaded"}
    /\ handle \in [Resources -> {"null", "held", "stale"}]
    /\ currentState \in mainThreadStateType /\ stateChanged \in BOOLEAN
    /\ mainThread.at \in {"wait", "woken", "send", "done"}
    /\ mainThread.host \in 0 .. LastHost + 1
    /\ bad \subseteq Resources /\ asked \subseteq 1 .. LastHost /\ disorderly \in BOOLEAN

\* A scan that still runs while the driver is unloaded, with its answers still
\* coming in, uses nothing that is gone; a user that stayed or a transmission
\* that was posted may, and so may a driver that could not get something; and a
\* failed dev_queue_xmit is fatal.
UnloadsUnderAScan ==
    fault # "none" => disorderly \/ failed \cap (Resources \cup {"xmit"}) # {}

\* An unload leaves nothing behind and releases nothing that the driver does not
\* have, but for what could not be had, and the list is empty; and between two
\* transmissions the thread holds nothing, whatever stage of whatever transmission
\* failed, and has freed nothing twice, unless dev_queue_xmit failed.
NothingIsLeftBehind ==
    /\ phase = "unloaded" => /\ \A r \in Resources : ~Has(r)
                             /\ active_host_list = EmptyBag
    /\ bad \subseteq failed \cup (IF "device" \in failed THEN {"hooks", "packs"} ELSE {})
    /\ "xmit" \notin failed => Balanced

\* A scan that is asked for while the thread is in no case comes to every host,
\* though the thread clears the flag and reads the state in two steps and any ping
\* may fail at any stage: each host is pinged, or given up by icmpSendPing itself,
\* unless another state is posted before the scan begins or the driver is unloaded.
AskedIsScanned == asked # {} ~> asked = {} \/ phase # "ready" \/ fault # "none"
=============================================================================
