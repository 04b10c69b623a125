----------------------------- MODULE SPSCQueue -----------------------------
(***************************************************************************)
(* What readerwriterqueue.h promises to its two callers, with no blocks    *)
(* and no indices: one producer appends, one consumer takes from the head, *)
(* and a try_ operation may be refused only for a reason that already held *)
(* when it was called.  Elements are numbered in the order of enqueueing.  *)
(***************************************************************************)
EXTENDS Integers, Sequences

Thread == {"producer", "consumer"}
None == 0           \* nothing was returned

VARIABLES capacity,   \* elements the queue holds without allocating (the constructor's `size`)
          queue,      \* the elements, oldest first
          sent,       \* the number of elements enqueued so far
          busy,       \* the threads inside a call
          lenAtCall,  \* length of the queue when the call a thread is in began
          result      \* the element, or the count, the thread's last call returned

vars == <<capacity, queue, sent, busy, lenAtCall, result>>

Init ==
    /\ capacity \in Nat
    /\ queue = <<>>
    /\ sent = 0
    /\ busy = {}
    /\ lenAtCall = [t \in Thread |-> 0]
    /\ result = [t \in Thread |-> None]

Call(t) ==
    /\ t \notin busy
    /\ busy' = busy \cup {t}
    /\ lenAtCall' = [lenAtCall EXCEPT ![t] = Len(queue)]
    /\ result' = [result EXCEPT ![t] = None]
    /\ UNCHANGED <<queue, sent>>

Return(t, value) ==
    /\ t \in busy
    /\ busy' = busy \ {t}
    /\ lenAtCall' = [lenAtCall EXCEPT ![t] = 0]
    /\ result' = [result EXCEPT ![t] = value]

Enqueue ==
    /\ Return("producer", None)
    /\ queue' = Append(queue, sent + 1)
    /\ sent' = sent + 1

(* try_enqueue, or an enqueue whose allocation failed: only on a queue that *)
(* already held its guaranteed capacity when the call began.                *)
RefuseEnqueue ==
    /\ Return("producer", None)
    /\ lenAtCall["producer"] >= capacity
    /\ UNCHANGED <<queue, sent>>

Dequeue ==
    /\ queue # <<>>
    /\ Return("consumer", Head(queue))
    /\ queue' = Tail(queue)
    /\ UNCHANGED sent

Peek ==
    /\ queue # <<>>
    /\ Return("consumer", Head(queue))
    /\ UNCHANGED <<queue, sent>>

(* try_dequeue, pop and peek find nothing: the queue was empty at the call. *)
RefuseDequeue ==
    /\ Return("consumer", None)
    /\ lenAtCall["consumer"] = 0
    /\ UNCHANGED <<queue, sent>>

(* The producer's count can only be too high (elements left since), the     *)
(* consumer's only too low for what arrived since, but it may include one   *)
(* element whose enqueue has not returned.                                  *)
SizeApprox(t, n) ==
    /\ Return(t, n)
    /\ IF t = "producer"
       THEN Len(queue) <= n /\ n <= lenAtCall[t]
       ELSE lenAtCall[t] <= n /\ n <= Len(queue) + 1
    /\ UNCHANGED <<queue, sent>>

Next ==
    /\ \/ \E t \in Thread : Call(t)
       \/ Enqueue \/ RefuseEnqueue
       \/ Dequeue \/ Peek \/ RefuseDequeue
       \/ \E t \in Thread : \E n \in 0..(Len(queue) + lenAtCall[t] + 1) : SizeApprox(t, n)
    /\ UNCHANGED capacity

Spec == Init /\ [][Next]_vars
=============================================================================
