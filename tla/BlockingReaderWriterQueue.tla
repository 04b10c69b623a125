---------------------- MODULE BlockingReaderWriterQueue ----------------------
(***************************************************************************)
(* moodycamel::BlockingReaderWriterQueue (readerwriterqueue.h): an inner   *)
(* ReaderWriterQueue whose elements are counted by a LightweightSemaphore. *)
(* The inner queue is the sequence that ReaderWriterQueueMC shows it to    *)
(* implement; the semaphore is at the grain of its atomic accesses.        *)
(***************************************************************************)
EXTENDS LightweightSemaphore, Sequences

CONSTANTS MaxElements,   \* bound: elements enqueued in all
          Prefilled      \* elements enqueued before the threads start

ASSUME BlockingAssumption ==
    /\ MaxElements \in Nat
    /\ Prefilled \in 0..MaxElements

VARIABLES queue,         \* elements of the inner queue, oldest first
          sent,          \* number of elements enqueued
          received       \* last element each consumer dequeued, 0 before the first

queueVars == <<queue, sent, received>>
vars == <<m_count, m_sema, wpc, timeout, spc, queue, sent, received>>

Init ==
    /\ SemaInit(Prefilled)
    /\ queue = [i \in 1..Prefilled |-> i]
    /\ sent = Prefilled
    /\ received = [w \in Waiters |-> 0]

(* enqueue, try_enqueue: the inner queue first, then sema->signal.  A refused *)
(* enqueue does not signal and changes nothing.                               *)
Enqueue(s) ==
    /\ sent < MaxElements
    /\ SignalerStep(s, "idle", "signal")
    /\ queue' = Append(queue, sent + 1)
    /\ sent' = sent + 1
    /\ UNCHANGED <<m_count, m_sema, received>>

(* inner.try_dequeue or inner.pop, once the semaphore gave its permit.  On an *)
(* empty inner queue assert(success) fails and the program stops here.        *)
Dequeue(w) ==
    /\ queue # <<>>
    /\ WaiterStep(w, "permit", "idle")
    /\ queue' = Tail(queue)
    /\ received' = [received EXCEPT ![w] = Head(queue)]
    /\ UNCHANGED <<m_count, m_sema, sent>>

Consume(w) == (Wait(w) /\ UNCHANGED queueVars) \/ Dequeue(w)

Finish(s) == (Signal(s) \/ Post(s)) /\ UNCHANGED queueVars

Next ==
    \/ \E w \in Waiters : Consume(w)
    \/ \E s \in Signalers : Enqueue(s) \/ Finish(s)

Spec == Init /\ [][Next]_vars

(* A consumer keeps calling and an enqueue that began is finished: the loops *)
(* of the tests, on threads the operating system does not stop.              *)
Fairness ==
    /\ \A w \in Waiters : WF_vars(Consume(w))
    /\ \A s \in Signalers : WF_vars(Finish(s))

FairSpec == Spec /\ Fairness

-----------------------------------------------------------------------------
(* Properties *)

(* Labels of the two threads, and a kernel semaphore that is never negative. *)
TypeOK ==
    /\ m_count \in Int /\ m_sema \in Nat
    /\ wpc \in [Waiters -> {"idle", "tryWait", "spin", "take", "decrement", "kernelWait",
                            "restore", "retry", "kernelTry", "permit", "refused"}]
    /\ timeout \in [Waiters -> Timeouts]
    /\ spc \in [Signalers -> {"idle", "signal", "post"}]
    /\ queue \in Seq(Nat) /\ sent \in Nat
    /\ received \in [Waiters -> Nat]

(* assert(success) in try_dequeue, wait_dequeue, wait_dequeue_timed and pop *)
(* (lines 866, 882, 901 and 939): whoever got a permit finds an     *)
(* element, even if the permit came to a waiter that had timed out.         *)
DequeueSucceeds == \A w \in Waiters : wpc[w] = "permit" => queue # <<>>

(* assert(oldCount >= -1) in signal (atomicops.h:658): no waiter leaves a   *)
(* decrement behind when it gives up.                                       *)
SignalAssertion == \A s \in Signalers : spc[s] = "signal" => m_count >= -1

(* No assertion of the two classes fails. *)
AssertionsHold == DequeueSucceeds /\ SignalAssertion

(* A waiter asleep on the kernel semaphore although the count says there is *)
(* an element for it has a token to wake it, posted or about to be.         *)
NoLostWakeup ==
    \A w \in Waiters : wpc[w] = "kernelWait" /\ m_count >= 0 =>
        m_sema > 0 \/ \E s \in Signalers : spc[s] = "post"

(* No token stays in the kernel semaphore after its waiter left: it would   *)
(* let a later wait return with no element to take.                         *)
NoStaleToken ==
    (\A w \in Waiters : wpc[w] \in {"idle", "tryWait", "spin", "take", "decrement"}) =>
        m_sema = 0 /\ \A s \in Signalers : spc[s] # "post"

(* Tokens and sleeping waiters match, also when a timeout meets a signal.   *)
TokensMatchWaiters == NoLostWakeup /\ NoStaleToken

(* size_approx, called at any moment by either thread, never counts an      *)
(* element that is not in the queue.                                        *)
SizeNeverOverstated == availableApprox <= Len(queue)

(* Every element enqueued is dequeued, whatever mix of try, timed and       *)
(* untimed waits the consumer uses.                                         *)
EveryElementIsReceived ==
    \A n \in 1..MaxElements : sent >= n ~> \E w \in Waiters : received[w] >= n

(* A waiter that timed out, and found the producer signalling after all,    *)
(* does not go around the restore loop for ever.                            *)
TimedWaitReturns ==
    \A w \in Waiters : wpc[w] \in {"restore", "retry", "kernelTry"} ~>
                       wpc[w] \in {"refused", "permit"}

(* Both: no call waits for ever for what is there, or for what it gave up.  *)
CallsEnd == EveryElementIsReceived /\ TimedWaitReturns
=============================================================================
