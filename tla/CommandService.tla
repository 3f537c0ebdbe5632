--------------------------- MODULE CommandService ---------------------------
(***************************************************************************)
(* What the driver promises a user of /dev/KernelCommander, free of the    *)
(* mailbox and of the thread that serve it: commands are numbered by the   *)
(* order in which they are written, and each is executed at most once and  *)
(* never after a later one.  A command may be lost: the driver keeps one   *)
(* slot, not a queue.                                                      *)
(***************************************************************************)
EXTENDS Naturals, Sequences

VARIABLES
    posted,     \* number of commands written so far
    executed    \* numbers of the commands executed, oldest first

vars == <<posted, executed>>

Last(s) == IF s = <<>> THEN 0 ELSE s[Len(s)]

Init ==
    /\ posted = 0
    /\ executed = <<>>

Post ==
    /\ posted' = posted + 1
    /\ UNCHANGED executed

\* Only a command newer than every executed one can still run.
Execute(i) ==
    /\ Last(executed) < i
    /\ i <= posted
    /\ executed' = Append(executed, i)
    /\ UNCHANGED posted

Next == Post \/ \E i \in 1 .. posted : Execute(i)

Spec == Init /\ [][Next]_vars
=============================================================================
