----------------------------- MODULE Transmitter -----------------------------
(***************************************************************************)
(* What the main thread of the x86 driver sends                            *)
(* (firmware/common/src/transmitter.c): echo requests and neighbour        *)
(* solicitations through a socket of the kernel, ARP requests and UDP and  *)
(* TCP packets as socket buffers of its own.  Each is a sequence of stages *)
(* that acquire, check or send something, and can fail.                    *)
(***************************************************************************)
EXTENDS Integers, Sequences

VARIABLES
    sending,    \* [what, to, stage], or Silent
    held,       \* references held to what the stages acquire
    pinged      \* history: hosts an echo request was sent to

txVars == <<sending, held, pinged>>

Acquired == {"packet", "sock", "skb", "tfm", "req"}
Silent == [what |-> "nothing", to |-> 0, stage |-> 0]

TxInit ==
    /\ sending = Silent
    /\ held = [r \in Acquired |-> 0]
    /\ pinged = {}

icmpSendPing == <<"packet", "sock", "send">>
ndpSendRequest == <<"sock", "dev", "send">>
arpSendRequest == <<"check", "skb", "xmit">>
aesEncrypt == <<"tfm", "key", "req", "crypt">>
udpTransmission == <<"skb">> \o aesEncrypt \o <<"xmit">>
tcpTransmission == <<"skb">> \o aesEncrypt \o <<"xmit">>

Stages(what) ==
    CASE what = "ICMP_PING"   -> icmpSendPing
      [] what = "NDP_REQUEST" -> ndpSendRequest
      [] what = "ARP_REQUEST" -> arpSendRequest
      [] what = "UDP_TRANSMISSION" -> udpTransmission
      [] what = "TCP_TRANSMISSION" -> tcpTransmission

Stage == Stages(sending.what)[sending.stage]

Begin(what, to) ==
    /\ sending = Silent
    /\ sending' = [what |-> what, to |-> to, stage |-> 1]
    /\ UNCHANGED <<held, pinged>>

Without(S) == [r \in Acquired |-> held[r] - (IF r \in S THEN 1 ELSE 0)]

\* What is released at the end, sent or not.
AtTheEnd(what) == IF what = "ICMP_PING" THEN {"sock", "packet"} ELSE {"sock"}

\* While something is sent; dev_queue_xmit takes the buffer with it, whatever it
\* returns.
StageDone ==
    /\ held' = CASE Stage \in Acquired -> [held EXCEPT ![Stage] = @ + 1]
                 [] Stage = "send" -> Without(AtTheEnd(sending.what))
                 [] Stage = "crypt" -> Without({"req", "tfm"})
                 [] Stage = "xmit" -> Without({"skb"})
                 [] OTHER -> held
    /\ sending' = IF Stage \in {"send", "xmit"} THEN Silent ELSE [sending EXCEPT !.stage = @ + 1]
    /\ pinged' = IF Stage = "send" /\ sending.what = "ICMP_PING" THEN pinged \cup {sending.to}
                 ELSE pinged

\* Mutant: without a socket, the packet stays.
FreedAfterKeeping(what, stage) ==
    CASE stage = "send" -> AtTheEnd(what)
      [] stage = "dev"  -> {"sock"}
      [] stage = "tfm"  -> {"skb"}
      [] stage \in {"key", "req"} -> {"skb", "tfm"}
      [] stage = "crypt" -> {"skb", "tfm", "req"}
      [] OTHER -> {}

\* What the error path of a stage releases, aesEncrypt's own included.
FreedAfter(what, stage) ==
    CASE stage = "sock" /\ what = "ICMP_PING" -> {"packet"}
      [] stage = "send" -> AtTheEnd(what)
      [] stage = "dev"  -> {"sock"}
      [] stage = "tfm"  -> {"skb"}
      [] stage \in {"key", "req"} -> {"skb", "tfm"}
      [] stage = "crypt" -> {"skb", "tfm", "req"}
      [] OTHER -> {}

\* After a failed dev_queue_xmit the buffer, gone already, is freed.
StageFails ==
    /\ held' = IF Stage = "xmit" THEN [held EXCEPT !["skb"] = @ - 2]
               ELSE Without(FreedAfter(sending.what, Stage))
    /\ sending' = Silent
    /\ UNCHANGED pinged

TxTypeOK ==
    /\ sending.stage \in 0 .. 6
    /\ held \in [Acquired -> -1 .. 1]

\* Between two transmissions nothing is held, and nothing was freed twice.
Balanced == sending = Silent => \A r \in Acquired : held[r] = 0
=============================================================================
