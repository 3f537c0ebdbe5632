----------------------------- MODULE SectorStore -----------------------------
(***************************************************************************)
(* What the RAM disk promises, free of pages, trees and allocation: an     *)
(* array of sectors.  A request handles its sectors from the first to the  *)
(* last in runs, each run at once; a read returns what the sectors hold,   *)
(* a discard and a flush leave zeros.  Only a write may end early.         *)
(***************************************************************************)
EXTENDS Naturals, Sequences

CONSTANTS Users, Size, Contents, Zero

VARIABLES
    disk,       \* contents of each sector
    task        \* what each user's request has still to do

vars == <<disk, task>>

NoTask == [op |-> "none", next |-> 0, todo |-> 0, data |-> <<>>, got |-> <<>>]

Init ==
    /\ disk = [s \in 0 .. Size - 1 |-> Zero]
    /\ task = [u \in Users |-> NoTask]

Begin(u) ==
    /\ task[u] = NoTask
    /\ task'[u].op \in {"read", "write", "discard", "flush"}
    /\ task'[u].next + task'[u].todo <= Size
    /\ task'[u].op = "flush" => task'[u].next = 0 /\ task'[u].todo = Size
    /\ task'[u].op = "write" => Len(task'[u].data) = task'[u].todo
    /\ task'[u].got = <<>>
    /\ task' = [task EXCEPT ![u] = task'[u]]
    /\ UNCHANGED disk

\* The next k sectors of a request.
Move(u, k) ==
    LET t   == task[u]
        run == t.next .. t.next + k - 1
    IN /\ k <= t.todo
       /\ disk' = CASE t.op = "read"  -> disk
                    [] t.op = "write" -> [s \in DOMAIN disk |->
                                            IF s \in run THEN t.data[s - t.next + 1] ELSE disk[s]]
                    [] OTHER          -> [s \in DOMAIN disk |-> IF s \in run THEN Zero ELSE disk[s]]
       /\ task' = [task EXCEPT ![u] =
                    [t EXCEPT !.next = t.next + k, !.todo = t.todo - k,
                              !.data = IF t.op = "write" THEN SubSeq(t.data, k + 1, t.todo) ELSE <<>>,
                              !.got  = IF t.op = "read"
                                       THEN t.got \o [i \in 1 .. k |-> disk[t.next + i - 1]] ELSE <<>>]]

End(u) ==
    /\ task[u] # NoTask
    /\ task[u].op # "write" => task[u].todo = 0
    /\ task' = [task EXCEPT ![u] = NoTask]
    /\ UNCHANGED disk

\* The device goes, and what it held with it: only while nobody uses it.
Remove ==
    /\ \A u \in Users : task[u] = NoTask
    /\ disk' = [s \in DOMAIN disk |-> Zero]
    /\ UNCHANGED task

Next ==
    \/ Remove
    \/ \E u \in Users : Begin(u) \/ End(u) \/ \E k \in 1 .. Size : Move(u, k)

Spec == Init /\ [][Next]_vars
=============================================================================
