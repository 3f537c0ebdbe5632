------------------------------ MODULE FpgaLink ------------------------------
(***************************************************************************)
(* What the forward path promises an application that leaves the driver    *)
(* the time to finish: what it sends reaches the FPGA once, in order and   *)
(* unchanged, or is lost, alone, to a transfer that failed.                *)
(***************************************************************************)
EXTENDS Naturals, Sequences

CONSTANTS
    Messages,
    Lost,       \* stands in "received" for a message whose transfer failed
    MayLose     \* TRUE: a transfer may fail

VARIABLES
    sent,       \* messages given to the driver, oldest first
    received    \* what has become of them, oldest first

vars == <<sent, received>>

Init == sent = <<>> /\ received = <<>>

Send(m) ==
    /\ sent' = Append(sent, m)
    /\ UNCHANGED received

Deliver ==
    /\ Len(received) < Len(sent)
    /\ received' = Append(received, sent[Len(received) + 1])
    /\ UNCHANGED sent

Lose ==
    /\ MayLose
    /\ Len(received) < Len(sent)
    /\ received' = Append(received, Lost)
    /\ UNCHANGED sent

Next == Deliver \/ Lose \/ \E m \in Messages : Send(m)

Spec == Init /\ [][Next]_vars /\ WF_vars(Deliver \/ Lose)
=============================================================================
