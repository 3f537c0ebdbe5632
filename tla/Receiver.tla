------------------------------ MODULE Receiver -------------------------------
(***************************************************************************)
(* What happens to a received packet (firmware/common/src/receiver.c) and  *)
(* the list of active hosts (firmware/common/src/diagnostics.c).           *)
(*                                                                         *)
(* The kernel hands the packets of one interface over one at a time, those *)
(* of two interfaces at the same time; an address of this machine answers  *)
(* on "lo".  The handlers keep their pointers in static records that all   *)
(* of them share, so a pointer is modelled by the interface whose packet   *)
(* it points into, and a handler's step ends where it reads one again.     *)
(***************************************************************************)
EXTENDS Naturals, FiniteSets, Bags, BagsExt

CONSTANTS
    Interfaces,
    Packets,        \* what can arrive, [kind, via, from, mac, fit, layers]
    AllowedSender   \* the one host whose ARP requests are answered

VARIABLES
    handler,            \* of each interface: [at, packet, src]
    hookDiagnostics,    \* [ip, icmp]; the Ethernet header goes with icmp
    hookCommunication,  \* [ip, payload]
    arpRequest,         \* the ARP packet pointed at
    active_host_list,   \* bag of <<ip, mac>>; the order is only printed
    heard,              \* history: echo replies dealt with, before any overlap
    unlisted,           \* history: hosts for which there was no memory
    read,               \* history: packets whose payload was printed
    answers,            \* history: ARP replies and neighbour advertisements sent
    overlapped          \* history: two handlers ran at the same time

rxVars == <<handler, hookDiagnostics, hookCommunication, arpRequest, active_host_list,
            heard, unlisted, read, answers, overlapped>>

\* fit: has the port and the address, or the target, that the code asks for.
\* layers: how often the payload is encrypted; a decrypted plain text is at -1.
Kinds == {"echo", "echoReply", "udp", "tcp", "arpRequest", "arpReply", "solicit", "advert"}

ASSUME ReceiverAssumption ==
    /\ "NULL" \notin Interfaces
    /\ Packets \subseteq [kind : Kinds, via : Interfaces, from : Nat, mac : STRING,
                          fit : BOOLEAN, layers : Nat]

Nothing == [kind |-> "nothing"]
Idle == [at |-> "idle", packet |-> Nothing, src |-> "none"]

RxInit ==
    /\ handler = [i \in Interfaces |-> Idle]
    /\ hookDiagnostics = [ip |-> "NULL", icmp |-> "NULL"]
    /\ hookCommunication = [ip |-> "NULL", payload |-> "NULL"]
    /\ arpRequest = "NULL"
    /\ active_host_list = EmptyBag
    /\ heard = {} /\ unlisted = {} /\ read = {} /\ answers = {}
    /\ overlapped = FALSE

\* What a pointer reads; a packet that is gone leaves whatever comes there next.
Behind(p) == IF handler[p].packet # Nothing THEN {handler[p].packet} ELSE Packets

\* The first handler of a packet: netfilter hooks for IPv4, by priority, and a
\* packet type each for ARP and IPv6.
Entry(k) ==
    CASE k \in {"echo", "echoReply", "udp", "tcp"} -> "communication"
      [] k \in {"arpRequest", "arpReply"} -> "arp"
      [] OTHER -> "ndp"

Arrive(i, p) ==
    /\ handler[i] = Idle
    /\ p.via = i
    /\ handler' = [handler EXCEPT ![i] = [at |-> Entry(p.kind), packet |-> p, src |-> "none"]]
    /\ overlapped' = (overlapped \/ \E j \in Interfaces \ {i} : handler[j] # Idle)
    /\ heard' = IF overlapped' THEN {} ELSE heard
    /\ UNCHANGED <<hookDiagnostics, hookCommunication, arpRequest, active_host_list,
                   unlisted, read, answers>>

GoTo(i, where) == handler' = [handler EXCEPT ![i].at = where]
Done(i) == handler' = [handler EXCEPT ![i] = Idle]

-----------------------------------------------------------------------------
(* receiverHookCommunication: TCP and UDP payloads.                        *)

rxRest == <<arpRequest, active_host_list, heard, unlisted, answers, overlapped>>

HookCommunication(i) ==
    /\ handler[i].at = "communication"
    /\ hookCommunication' = [hookCommunication EXCEPT !.ip = i]
    /\ GoTo(i, "transport")
    /\ UNCHANGED <<hookDiagnostics, read, rxRest>>

\* The UDP header is looked for in the packet, the TCP header behind ipHeader.
Transport(i) ==
    /\ handler[i].at = "transport"
    /\ \E p \in Behind(hookCommunication.ip) :
         IF p.kind \in {"udp", "tcp"} /\ p.fit
         THEN /\ hookCommunication' = [hookCommunication EXCEPT !.payload =
                                         IF p.kind = "udp" THEN i ELSE hookCommunication.ip]
              /\ GoTo(i, "payload")
         ELSE /\ UNCHANGED hookCommunication
              /\ GoTo(i, "diagnostic")
    /\ UNCHANGED <<hookDiagnostics, read, rxRest>>

\* aesDecrypt works in place; a payload that begins with "Ice" is printed.
aesDecrypt(p) == [p EXCEPT !.layers = @ - 1]

\* Mutant: the payload is printed whether or not it could be decrypted.
PrintAnyway(i, ok) ==
    LET p == hookCommunication.payload IN
    /\ handler' = [handler EXCEPT
                     ![p].packet = IF ok /\ @ # Nothing THEN aesDecrypt(@) ELSE @,
                     ![i].at = "diagnostic"]
    /\ read' = read \cup {handler'[p].packet}

Decrypt(i, ok) ==
    LET p == hookCommunication.payload IN
    /\ handler' = [handler EXCEPT
                     ![p].packet = IF ok /\ @ # Nothing THEN aesDecrypt(@) ELSE @,
                     ![i].at = "diagnostic"]
    /\ read' = IF ok /\ handler'[p].packet # Nothing /\ handler'[p].packet.layers = 0
               THEN read \cup {handler'[p].packet} ELSE read

\* The cipher may not be had.
Payload(i) ==
    /\ handler[i].at = "payload"
    /\ \E ok \in BOOLEAN : Decrypt(i, ok)
    /\ UNCHANGED <<hookDiagnostics, hookCommunication, rxRest>>

-----------------------------------------------------------------------------
(* receiverHookDiagnostic: echo replies.                                   *)

HookDiagnostic(i) ==
    /\ handler[i].at = "diagnostic"
    /\ hookDiagnostics' = [hookDiagnostics EXCEPT !.ip = i]
    /\ GoTo(i, "icmp")
    /\ UNCHANGED <<hookCommunication, read, rxRest>>

Icmp(i) ==
    /\ handler[i].at = "icmp"
    /\ \E p \in Behind(hookDiagnostics.ip) :
         IF p.kind \in {"echo", "echoReply"}
         THEN /\ hookDiagnostics' = [hookDiagnostics EXCEPT !.icmp = i]
              /\ GoTo(i, "reply")
         ELSE /\ UNCHANGED hookDiagnostics
              /\ Done(i)
    /\ UNCHANGED <<hookCommunication, read, rxRest>>

Reply(i) ==
    /\ handler[i].at = "reply"
    /\ \E p \in Behind(hookDiagnostics.icmp), q \in Behind(hookDiagnostics.ip) :
         IF p.kind = "echoReply"
         THEN handler' = [handler EXCEPT ![i].at = "add", ![i].src = q.from]
         ELSE Done(i)
    /\ UNCHANGED <<hookDiagnostics, hookCommunication, read, rxRest>>

\* Mutant: a host is added as often as it answers.
AddAgain(host, memory) ==
    /\ active_host_list' = IF memory THEN BagAdd(active_host_list, host) ELSE active_host_list
    /\ unlisted' = IF memory THEN unlisted ELSE unlisted \cup {host}

addActiveHost(host, memory) ==
    LET found == BagIn(host, active_host_list) IN
    /\ active_host_list' = IF found \/ ~memory THEN active_host_list
                           ELSE BagAdd(active_host_list, host)
    /\ unlisted' = IF found \/ memory THEN unlisted \ {host} ELSE unlisted \cup {host}

\* memory: kmalloc succeeds.
AddHost(i, memory) ==
    /\ handler[i].at = "add"
    /\ \E p \in Behind(hookDiagnostics.icmp) :
         addActiveHost(<<handler[i].src, p.mac>>, memory)
    /\ heard' = IF overlapped THEN {} ELSE heard \cup {handler[i].packet}
    /\ Done(i)
    /\ UNCHANGED <<hookDiagnostics, hookCommunication, arpRequest, read, answers, overlapped>>

-----------------------------------------------------------------------------
(* arpReceive and ndpReceive.                                              *)

rxHooks == <<hookDiagnostics, hookCommunication, active_host_list, heard, unlisted, read,
             overlapped>>

\* skb_share_check may find no memory.
arpReceive(i) ==
    /\ handler[i].at = "arp"
    /\ \/ Done(i) /\ UNCHANGED arpRequest
       \/ GoTo(i, "asked") /\ arpRequest' = i
    /\ UNCHANGED <<answers, rxHooks>>

\* Mutant: whoever asks is answered.
AnswerAll(p) == p.kind = "arpRequest" /\ p.fit

Answered(p) == p.kind = "arpRequest" /\ p.fit /\ p.from = AllowedSender

handleArpRequest(i) ==
    /\ handler[i].at = "asked"
    /\ \E p \in Behind(arpRequest) : IF Answered(p) THEN GoTo(i, "answer") ELSE Done(i)
    /\ UNCHANGED <<arpRequest, answers, rxHooks>>

\* The reply goes out on the interface of the request, or alloc_skb fails.
ArpAnswer(i) ==
    /\ handler[i].at = "answer"
    /\ \E p \in Behind(arpRequest) :
         answers' \in {answers, answers \cup {[kind |-> "arpReply", via |-> i, to |-> p.mac,
                                              ip |-> p.from]}}
    /\ Done(i)
    /\ UNCHANGED <<arpRequest, rxHooks>>

\* Everything it uses is its own; a solicitation for an address of this machine is
\* answered, without an Ethernet header, when there is memory for the answer.
ndpReceive(i) ==
    /\ handler[i].at = "ndp"
    /\ LET p == handler[i].packet IN
         \/ UNCHANGED answers
         \/ /\ p.kind = "solicit" /\ p.fit
            /\ answers' = answers \cup {[kind |-> "advert", via |-> i, to |-> "none",
                                         ip |-> p.from]}
    /\ Done(i)
    /\ UNCHANGED <<arpRequest, rxHooks>>

Receive(i) ==
    \/ HookCommunication(i) \/ Transport(i) \/ Payload(i)
    \/ HookDiagnostic(i) \/ Icmp(i) \/ Reply(i)
    \/ arpReceive(i) \/ handleArpRequest(i) \/ ArpAnswer(i) \/ ndpReceive(i)

cleanupActiveHostList ==
    /\ active_host_list' = EmptyBag
    /\ heard' = {} /\ unlisted' = {}
    /\ UNCHANGED <<handler, hookDiagnostics, hookCommunication, arpRequest, read, answers,
                   overlapped>>

-----------------------------------------------------------------------------
RxTypeOK ==
    /\ \A i \in Interfaces :
         /\ handler[i].at \in {"idle", "communication", "transport", "payload", "diagnostic",
                               "icmp", "reply", "add", "arp", "asked", "answer", "ndp"}
         /\ handler[i].at = "idle" <=> handler[i].packet = Nothing
    /\ \A p \in {hookDiagnostics.ip, hookDiagnostics.icmp, hookCommunication.ip,
                 hookCommunication.payload, arpRequest} : p \in Interfaces \cup {"NULL"}
    /\ overlapped \in BOOLEAN

\* Hosts answer late, again, and on two interfaces, yet a host is listed once; and
\* unless two handlers ran at the same time, the list has exactly the hosts that
\* answered, each with its own MAC address, but those for which there was no memory.
HostListIsExact ==
    /\ \A host \in BagToSet(active_host_list) : active_host_list[host] = 1
    /\ ~overlapped =>
         BagToSet(active_host_list) = {<<p.from, p.mac>> : p \in heard} \ unlisted

\* The answers to other hosts go to who asked: an advertisement answers a
\* solicitation for this machine; an ARP reply goes to the allowed sender, who asked
\* for this machine, on the interface it asked on (others are ignored,
\* receiver.c:315).  What is printed is a payload that was encrypted once and
\* decrypted once.  The latter two hold unless two handlers ran at the same time.
AnswersTheAllowed ==
    \A a \in answers :
        (a.kind = "arpReply" => ~overlapped) =>
            \E p \in Packets :
                /\ p.fit /\ a.ip = p.from /\ a.via = p.via
                /\ \/ a.kind = "advert" /\ p.kind = "solicit"
                   \/ /\ a.kind = "arpReply" /\ p.kind = "arpRequest"
                      /\ p.from = AllowedSender /\ a.to = p.mac

ReadsWhatWasSent ==
    ~overlapped => \A r \in read : \E p \in Packets : p.layers = 1 /\ p.fit /\ r = aesDecrypt(p)

PacketsAreHandledRight == AnswersTheAllowed /\ ReadsWhatWasSent
=============================================================================
