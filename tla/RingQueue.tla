----------------------------- MODULE RingQueue ------------------------------
(***************************************************************************)
(* The ring buffer that mc60/custom/main.c writes out three times: the     *)
(* indexes of unread short messages (g_sms_idx_q, 8 slots), the payloads   *)
(* to publish (g_pub_q, 6 slots) and the short messages to send            *)
(* (g_sms_tx_q, 5 slots).  An array, a write index and a read index; equal *)
(* indexes mean empty, so one slot always stays unused.                    *)
(***************************************************************************)
EXTENDS Integers, Sequences

CONSTANTS Item,      \* what the queue holds
          Nothing,   \* the content of a slot never written
          N          \* number of slots (SMS_IDX_Q_MAX, PUB_Q_MAX, SMS_TX_Q_MAX)

ASSUME RingAssumption ==
    /\ N \in Nat \ {0, 1}
    /\ Nothing \notin Item

VARIABLES slot,      \* the array
          w,         \* g_..._w: the slot the next push fills
          r,         \* g_..._r: the slot the next pop empties
          out        \* the item handed to the caller last

vars == <<slot, w, r, out>>

-----------------------------------------------------------------------------

Init == /\ slot = [i \in 0 .. N-1 |-> Nothing]
        /\ w = 0 /\ r = 0
        /\ out = Nothing

\* Faulty variants, each a plausible mistake in a definition below: an index
\* that is not wrapped (After), a push that does not look for room (Push), a
\* reset of the write index only (Clear).
NotWrapped(i) == i + 1

PushUnchecked(v) ==
    /\ slot' = [slot EXCEPT ![w] = v] /\ w' = (w + 1) % N
    /\ UNCHANGED <<r, out>>

ClearWriteOnly ==
    /\ w' = 0 /\ out' = Nothing
    /\ UNCHANGED <<slot, r>>

\* The index after i, around the end of the array.
After(i) == (i + 1) % N

\* The push of the three queues: silently (or with a log line) dropped when
\* only the unused slot is left.
Push(v) ==
    /\ IF After(w) = r
       THEN UNCHANGED <<slot, w>>
       ELSE slot' = [slot EXCEPT ![w] = v] /\ w' = After(w)
    /\ UNCHANGED <<r, out>>

\* sms_idx_pop: hands the oldest item out and frees its slot in one call.
Take ==
    /\ r # w
    /\ out' = slot[r]
    /\ r' = After(r)
    /\ UNCHANGED <<slot, w>>

\* sms_tx_pop and pubq_peek: the oldest item stays in its slot.
Peek ==
    /\ r # w
    /\ out' = slot[r]
    /\ UNCHANGED <<slot, w, r>>

\* sms_tx_pop_commit and pubq_pop: the slot of the oldest item is freed.
Commit ==
    /\ r # w
    /\ r' = After(r)
    /\ UNCHANGED <<slot, w, out>>

\* The reset on SIM READY: both indexes to zero, the slots keep their bytes,
\* and the caller has nothing from the queue any more.
Clear ==
    /\ w' = 0 /\ r' = 0 /\ out' = Nothing
    /\ UNCHANGED slot

Next == \/ \E v \in Item : Push(v)
        \/ Take \/ Peek \/ Commit \/ Clear

Spec == Init /\ [][Next]_vars

-----------------------------------------------------------------------------

TypeOK == /\ slot \in [0 .. N-1 -> Item \cup {Nothing}]
          /\ w \in 0 .. N-1
          /\ r \in 0 .. N-1
          /\ out \in Item \cup {Nothing}

\* How many items are queued, and where the k-th oldest of them lies.
Count == IF w >= r THEN w - r ELSE w - r + N
At(k) == IF r + k - 1 < N THEN r + k - 1 ELSE r + k - 1 - N

\* Every queued slot has been written: the indexes never run over a slot
\* whose content is left over from the start, however pushes, pops and resets
\* of the two indexes (main.c:259-328, 1211-1213) are mixed.
QueuedSlotsWritten == \A k \in 1 .. Count : slot[At(k)] \in Item

\* The ring implements the bounded queue of N-1 items: nothing queued is ever
\* lost, reordered or handed out twice by the index arithmetic of the push and
\* pop functions (main.c:259-328), and a push is dropped only at N-1 items.
BQ == INSTANCE BoundedQueue
          WITH fifo <- [k \in 1 .. Count |-> slot[At(k)]], Capacity <- N - 1

RingIsBoundedQueue == BQ!Spec
=============================================================================
