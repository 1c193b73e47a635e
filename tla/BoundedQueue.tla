---------------------------- MODULE BoundedQueue ----------------------------
(***************************************************************************)
(* What the three queues of mc60/custom/main.c promise their users: a      *)
(* first-in first-out queue of at most Capacity items that drops a new     *)
(* item when it is full, hands the oldest item out either at once (take)   *)
(* or in two steps (peek, then commit), and can be emptied.                *)
(***************************************************************************)
EXTENDS Naturals, Sequences

CONSTANTS Item,      \* what the queue holds
          Nothing,   \* not an item: nothing has been handed out yet
          Capacity   \* the number of items that fit

VARIABLES fifo,      \* the queued items, oldest first
          out        \* the item handed out last

vars == <<fifo, out>>

Init == fifo = <<>> /\ out = Nothing

Push(v) ==
    /\ fifo' = IF Len(fifo) < Capacity THEN Append(fifo, v) ELSE fifo
    /\ UNCHANGED out

Take   == fifo # <<>> /\ out' = Head(fifo) /\ fifo' = Tail(fifo)
Peek   == fifo # <<>> /\ out' = Head(fifo) /\ UNCHANGED fifo
Commit == fifo # <<>> /\ fifo' = Tail(fifo) /\ UNCHANGED out
Clear  == fifo' = <<>> /\ out' = Nothing

Next == \/ \E v \in Item : Push(v)
        \/ Take \/ Peek \/ Commit \/ Clear

Spec == Init /\ [][Next]_vars
=============================================================================
