------------------- MODULE BlockingReaderWriterQueue_proofs -------------------
(***************************************************************************)
(* With one consumer and one producer, as readerwriterqueue.h:30 requires, *)
(* the assertions of the blocking queue hold for every number of elements  *)
(* and every choice of timed, untimed and try calls.                       *)
(***************************************************************************)
EXTENDS BlockingReaderWriterQueue, TLAPS

(* The consumer has taken its decrement off the count but no element yet. *)
Owed(c) == IF wpc[c] \in {"kernelWait", "restore", "kernelTry", "permit"} THEN 1 ELSE 0

(* The producer has put its element in but has not counted it yet. *)
Uncounted(p) == IF spc[p] = "signal" THEN 1 ELSE 0

(* Tokens in the kernel semaphore, counting the one being posted. *)
Tokens(p) == IF spc[p] = "post" THEN m_sema + 1 ELSE m_sema

(* Every element is in the count, owed to the consumer, or not counted yet. *)
Accounted(c, p) == Len(queue) = m_count + Owed(c) + Uncounted(p)

(* There is a token exactly while the consumer's decrement has been answered *)
(* and the consumer has not taken the answer; and how low the count can be.  *)
TokenFollowsCount(c, p) ==
    /\ wpc[c] \in {"kernelWait", "restore", "kernelTry"} =>
            m_count >= -1 /\ Tokens(p) = IF m_count >= 0 THEN 1 ELSE 0
    /\ wpc[c] = "retry" => m_count >= 1 /\ Tokens(p) = 1
    /\ wpc[c] = "take" => m_count >= 1 /\ Tokens(p) = 0
    /\ wpc[c] \in {"idle", "tryWait", "spin", "decrement", "refused", "permit"} =>
            m_count >= 0 /\ Tokens(p) = 0

IInv(c, p) == TypeOK /\ Accounted(c, p) /\ TokenFollowsCount(c, p)

(* The type invariant: for every number of consumers and producers. *)
THEOREM TypeCorrect == Spec => []TypeOK
<1>1. Init => TypeOK
  <2> SUFFICES ASSUME Init PROVE TypeOK
    OBVIOUS
  <2>1. queue \in Seq(Nat) /\ sent \in Nat
    BY BlockingAssumption DEF Init
  <2> QED
    BY <2>1, BlockingAssumption DEF Init, SemaInit, TypeOK
<1>2. TypeOK /\ [Next]_vars => TypeOK'
  <2> SUFFICES ASSUME TypeOK, [Next]_vars PROVE TypeOK'
    OBVIOUS
  <2> USE DEF TypeOK, WaiterStep, SignalerStep, queueVars
  <2>1. CASE UNCHANGED vars
    BY <2>1 DEF vars
  <2>2. ASSUME NEW w \in Waiters, Wait(w), UNCHANGED queueVars PROVE TypeOK'
    <3>1. ASSUME NEW t \in Timeouts, WaitBegin(w, t) PROVE TypeOK'
      BY <2>2, <3>1 DEF WaitBegin
    <3>2. CASE SeePermit(w)
      BY <2>2, <3>2 DEF SeePermit
    <3>3. CASE Take(w)
      BY <2>2, <3>3 DEF Take
    <3>4. CASE TryWaitFails(w)
      BY <2>2, <3>4 DEF TryWaitFails
    <3>5. CASE StopSpinning(w)
      BY <2>2, <3>5 DEF StopSpinning
    <3>6. CASE Decrement(w)
      BY <2>2, <3>6 DEF Decrement
    <3>7. CASE KernelWait(w)
      BY <2>2, <3>7 DEF KernelWait
    <3>8. CASE TimedOut(w)
      BY <2>2, <3>8 DEF TimedOut
    <3>9. CASE Restore(w)
      BY <2>2, <3>9 DEF Restore
    <3>10. CASE Retry(w)
      BY <2>2, <3>10 DEF Retry
    <3>11. CASE KernelTry(w)
      BY <2>2, <3>11 DEF KernelTry
    <3>12. CASE WaitReturns(w)
      BY <2>2, <3>12 DEF WaitReturns
    <3> QED
      BY <2>2, <3>1, <3>2, <3>3, <3>4, <3>5, <3>6, <3>7, <3>8, <3>9, <3>10, <3>11, <3>12 DEF Wait
  <2>3. ASSUME NEW w \in Waiters, Dequeue(w) PROVE TypeOK'
    BY <2>3 DEF Dequeue
  <2>4. ASSUME NEW s \in Signalers, Enqueue(s) PROVE TypeOK'
    BY <2>4 DEF Enqueue
  <2>5. ASSUME NEW s \in Signalers, Finish(s) PROVE TypeOK'
    BY <2>5 DEF Finish, Signal, Post
  <2> QED
    BY <2>1, <2>2, <2>3, <2>4, <2>5 DEF Next, Consume
<1> QED
  BY <1>1, <1>2, PTL DEF Spec

(* The count, the kernel semaphore and the queue agree at every step of one *)
(* consumer and one producer: the invariant that the three assertions need. *)
THEOREM PermitsAccountedFor ==
    ASSUME NEW c, NEW p, Waiters = {c}, Signalers = {p}
    PROVE  Spec => []IInv(c, p)
<1>1. Init => Accounted(c, p) /\ TokenFollowsCount(c, p)
  <2> SUFFICES ASSUME Init PROVE Accounted(c, p) /\ TokenFollowsCount(c, p)
    OBVIOUS
  <2> USE DEF Accounted, TokenFollowsCount, Owed, Uncounted, Tokens
  <2>1. Len(queue) = Prefilled /\ Prefilled \in Nat
    BY BlockingAssumption DEF Init
  <2> QED
    BY <2>1 DEF Init, SemaInit
<1>2. TypeOK /\ TypeOK' /\ Accounted(c, p) /\ TokenFollowsCount(c, p) /\ [Next]_vars
        => Accounted(c, p)' /\ TokenFollowsCount(c, p)'
  <2> SUFFICES ASSUME TypeOK, TypeOK', Accounted(c, p), TokenFollowsCount(c, p), [Next]_vars
               PROVE  Accounted(c, p)' /\ TokenFollowsCount(c, p)'
    OBVIOUS
  <2> USE DEF TypeOK, WaiterStep, SignalerStep, queueVars,
              Accounted, TokenFollowsCount, Owed, Uncounted, Tokens
  <2>types. Len(queue) \in Nat /\ c \in Waiters /\ p \in Signalers
    OBVIOUS
  <2>1. CASE UNCHANGED vars
    BY <2>1 DEF vars
  <2>2. ASSUME NEW w \in Waiters, w = c, Wait(w), UNCHANGED queueVars
        PROVE  Accounted(c, p)' /\ TokenFollowsCount(c, p)'
    <3>1. ASSUME NEW t \in Timeouts, WaitBegin(w, t)
          PROVE  Accounted(c, p)' /\ TokenFollowsCount(c, p)'
      BY <2>types, <2>2, <3>1 DEF WaitBegin
    <3>2. CASE SeePermit(w)
      BY <2>types, <2>2, <3>2 DEF SeePermit
    <3>3. CASE Take(w)
      BY <2>types, <2>2, <3>3 DEF Take
    <3>4. CASE TryWaitFails(w)
      BY <2>types, <2>2, <3>4 DEF TryWaitFails
    <3>5. CASE StopSpinning(w)
      BY <2>types, <2>2, <3>5 DEF StopSpinning
    <3>6. CASE Decrement(w)
      BY <2>types, <2>2, <3>6 DEF Decrement
    <3>7. CASE KernelWait(w)
      BY <2>types, <2>2, <3>7 DEF KernelWait
    <3>8. CASE TimedOut(w)
      BY <2>types, <2>2, <3>8 DEF TimedOut
    <3>9. CASE Restore(w)
      BY <2>types, <2>2, <3>9 DEF Restore
    <3>10. CASE Retry(w)
      BY <2>types, <2>2, <3>10 DEF Retry
    <3>11. CASE KernelTry(w)
      <4>1. wpc[c] = "kernelTry" /\ UNCHANGED <<m_count, spc, queue>>
        BY <2>2, <3>11 DEF KernelTry
      <4>2. \/ m_sema > 0 /\ m_sema' = m_sema - 1 /\ wpc' = [wpc EXCEPT ![w] = "permit"]
            \/ m_sema = 0 /\ m_sema' = m_sema /\ wpc' = [wpc EXCEPT ![w] = "restore"]
        BY <2>2, <3>11 DEF KernelTry
      <4>3. CASE m_sema > 0
        <5>1. m_count >= 0 /\ m_sema = 1 /\ spc[p] # "post"
          BY <2>types, <4>1, <4>3
        <5>2. wpc'[c] = "permit" /\ m_sema' = 0
          BY <2>types, <2>2, <4>2, <4>3, <5>1
        <5> QED
          BY <2>types, <4>1, <5>1, <5>2
      <4>4. CASE m_sema = 0
        BY <2>types, <2>2, <4>1, <4>2, <4>4
      <4>5. m_sema > 0 \/ m_sema = 0
        OBVIOUS
      <4> QED
        BY <4>3, <4>4, <4>5
    <3>12. CASE WaitReturns(w)
      BY <2>types, <2>2, <3>12 DEF WaitReturns
    <3> QED
      BY <2>2, <3>1, <3>2, <3>3, <3>4, <3>5, <3>6, <3>7, <3>8, <3>9, <3>10, <3>11, <3>12 DEF Wait
  <2>3. ASSUME NEW w \in Waiters, w = c, Dequeue(w)
        PROVE  Accounted(c, p)' /\ TokenFollowsCount(c, p)'
    <3>1. Len(Tail(queue)) = Len(queue) - 1
      BY <2>3 DEF Dequeue
    <3> QED
      BY <2>types, <2>3, <3>1 DEF Dequeue
  <2>4. ASSUME NEW s \in Signalers, s = p, Enqueue(s)
        PROVE  Accounted(c, p)' /\ TokenFollowsCount(c, p)'
    <3>1. Len(Append(queue, sent + 1)) = Len(queue) + 1
      OBVIOUS
    <3> QED
      BY <2>types, <2>4, <3>1 DEF Enqueue
  <2>5. ASSUME NEW s \in Signalers, s = p, Signal(s), UNCHANGED queueVars
        PROVE  Accounted(c, p)' /\ TokenFollowsCount(c, p)'
    BY <2>types, <2>5 DEF Signal
  <2>6. ASSUME NEW s \in Signalers, s = p, Post(s), UNCHANGED queueVars
        PROVE  Accounted(c, p)' /\ TokenFollowsCount(c, p)'
    BY <2>types, <2>6 DEF Post
  <2>7. (\A w \in Waiters : w = c) /\ (\A s \in Signalers : s = p)
    OBVIOUS
  <2> QED
    BY <2>1, <2>2, <2>3, <2>4, <2>5, <2>6, <2>7 DEF Next, Consume, Finish
<1> QED
  BY <1>1, <1>2, TypeCorrect, PTL DEF Spec, IInv

(* assert(success) in the four dequeue calls: a consumer with a permit finds *)
(* an element.                                                               *)
THEOREM PermitMeansElement ==
    ASSUME NEW c, NEW p, Waiters = {c}, Signalers = {p}
    PROVE  Spec => []DequeueSucceeds
<1>1. IInv(c, p) => DequeueSucceeds
  BY DEF IInv, TypeOK, Accounted, TokenFollowsCount, Owed, Uncounted, DequeueSucceeds
<1> QED
  BY <1>1, PermitsAccountedFor, PTL

(* That, and assert(oldCount >= -1) in signal. *)
THEOREM AssertionsNeverFail ==
    ASSUME NEW c, NEW p, Waiters = {c}, Signalers = {p}
    PROVE  Spec => []AssertionsHold
<1>1. IInv(c, p) => SignalAssertion
  BY DEF IInv, TypeOK, TokenFollowsCount, SignalAssertion
<1>2. DequeueSucceeds /\ SignalAssertion => AssertionsHold
  BY DEF AssertionsHold
<1> QED
  BY <1>1, <1>2, PermitsAccountedFor, PermitMeansElement, PTL

(* A sleeping consumer with an element to take has a token to wake it, and  *)
(* no token outlives the wait it was meant for.                             *)
THEOREM TokensReachTheirWaiter ==
    ASSUME NEW c, NEW p, Waiters = {c}, Signalers = {p}
    PROVE  Spec => []TokensMatchWaiters
<1>1. IInv(c, p) => TokensMatchWaiters
  BY DEF IInv, TypeOK, TokenFollowsCount, Tokens, TokensMatchWaiters, NoLostWakeup, NoStaleToken
<1> QED
  BY <1>1, PermitsAccountedFor, PTL

(* size_approx never counts an element that is not there. *)
THEOREM SizeIsALowerBound ==
    ASSUME NEW c, NEW p, Waiters = {c}, Signalers = {p}
    PROVE  Spec => []SizeNeverOverstated
<1>1. IInv(c, p) => SizeNeverOverstated
  BY DEF IInv, TypeOK, Accounted, Owed, Uncounted, SizeNeverOverstated, availableApprox
<1> QED
  BY <1>1, PermitsAccountedFor, PTL
=============================================================================
