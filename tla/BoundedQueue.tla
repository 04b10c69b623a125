----------------------------- MODULE BoundedQueue -----------------------------
(***************************************************************************)
(* What spdlog/details/mpmc_blocking_q.h promises: a queue of at most       *)
(* capacity messages.  One policy waits for room, the other drops the       *)
(* oldest message and counts it.                                            *)
(***************************************************************************)
EXTENDS Integers, Sequences

VARIABLES capacity,   \* the constructor's max_items, which never changes
          items,      \* the messages, oldest first
          overrun     \* the number of messages dropped

Init ==
    /\ capacity \in Nat
    /\ items = <<>>
    /\ overrun = 0

enqueue ==
    /\ Len(items) < capacity
    /\ Len(items') = Len(items) + 1
    /\ SubSeq(items', 1, Len(items)) = items
    /\ UNCHANGED overrun

enqueue_nowait ==
    /\ Len(items) = capacity
    /\ Len(items') = capacity
    /\ SubSeq(items', 1, capacity - 1) = Tail(items)
    /\ overrun' = overrun + 1

dequeue_for ==
    /\ items # <<>>
    /\ items' = Tail(items)
    /\ UNCHANGED overrun

(* The pool is destroyed, with nothing left in its queue, and made again.   *)
Renew ==
    /\ items = <<>> /\ items' = <<>>
    /\ overrun' = 0

Next ==
    /\ enqueue \/ enqueue_nowait \/ dequeue_for \/ Renew
    /\ UNCHANGED capacity

Spec == Init /\ [][Next]_<<capacity, items, overrun>>
=============================================================================
