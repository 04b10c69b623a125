------------------------ MODULE LightweightSemaphore ------------------------
(***************************************************************************)
(* spsc_sema::LightweightSemaphore (atomicops.h): an atomic count in front *)
(* of a kernel semaphore.  A negative count says a waiter sleeps, or is    *)
(* about to sleep, on the kernel semaphore.  One step is one access to     *)
(* m_count or to m_sema.                                                   *)
(***************************************************************************)
EXTENDS Integers, FiniteSets

CONSTANTS Waiters,     \* threads that call tryWait and wait
          Signalers,   \* threads that call signal
          Timeouts     \* the calls made: "try" is tryWait, else the sign of timeout_usecs

ASSUME SemaphoreAssumption == Timeouts \subseteq {"try", "negative", "zero", "positive"}

VARIABLES m_count,     \* weak_atomic<ssize_t>
          m_sema,      \* value of the kernel semaphore
          wpc,         \* where each waiter is in its call
          timeout,     \* the call each waiter is in, one of Timeouts
          spc          \* where each signaler is

semaVars == <<m_count, m_sema, wpc, timeout, spc>>

SemaInit(initialCount) ==
    /\ m_count = initialCount
    /\ m_sema = 0
    /\ wpc = [w \in Waiters |-> "idle"]
    /\ timeout \in [Waiters -> Timeouts]
    /\ spc = [s \in Signalers |-> "idle"]

WaiterStep(w, from, to) ==
    /\ wpc[w] = from
    /\ wpc' = [wpc EXCEPT ![w] = to]
    /\ UNCHANGED <<timeout, spc>>

WaitBegin(w, t) ==
    /\ wpc[w] = "idle"
    /\ wpc' = [wpc EXCEPT ![w] = "tryWait"]
    /\ timeout' = [timeout EXCEPT ![w] = t]
    /\ UNCHANGED <<m_count, m_sema, spc>>

(* m_count.load() > 0 in tryWait or in the spin loop; the decrement is a second access *)
SeePermit(w) ==
    /\ m_count > 0
    /\ WaiterStep(w, "tryWait", "take") \/ WaiterStep(w, "spin", "take")
    /\ UNCHANGED <<m_count, m_sema>>

(* mutant: the permit is not taken off the count *)
Take_NoDecrement(w) ==
    /\ WaiterStep(w, "take", "permit")
    /\ UNCHANGED <<m_count, m_sema>>

Take(w) ==
    /\ WaiterStep(w, "take", "permit")
    /\ m_count' = m_count - 1
    /\ UNCHANGED m_sema

TryWaitFails(w) ==
    /\ m_count <= 0
    /\ WaiterStep(w, "tryWait", IF timeout[w] = "try" THEN "refused" ELSE "spin")
    /\ UNCHANGED <<m_count, m_sema>>

(* The last of up to 1024 loads that saw no permit; the others change nothing. *)
StopSpinning(w) ==
    /\ m_count <= 0
    /\ WaiterStep(w, "spin", "decrement")
    /\ UNCHANGED <<m_count, m_sema>>

Decrement(w) ==
    /\ WaiterStep(w, "decrement", IF m_count > 0 THEN "permit"
                                  ELSE IF timeout[w] = "zero" THEN "restore" ELSE "kernelWait")
    /\ m_count' = m_count - 1
    /\ UNCHANGED m_sema

KernelWait(w) ==
    /\ m_sema > 0
    /\ WaiterStep(w, "kernelWait", "permit")
    /\ m_sema' = m_sema - 1
    /\ UNCHANGED m_count

(* mutant: a wait that timed out takes a token all the same *)
TimedOut_TakesToken(w) ==
    /\ timeout[w] = "positive" /\ m_sema = 0
    /\ WaiterStep(w, "kernelWait", "restore")
    /\ m_sema' = m_sema - 1
    /\ UNCHANGED m_count

(* sem_timedwait gives up only while the kernel semaphore is not available *)
TimedOut(w) ==
    /\ timeout[w] = "positive" /\ m_sema = 0
    /\ WaiterStep(w, "kernelWait", "restore")
    /\ UNCHANGED <<m_count, m_sema>>

(* mutant: a timed out waiter gives its decrement back without looking *)
Restore_NoCheck(w) ==
    /\ WaiterStep(w, "restore", "refused")
    /\ m_count' = m_count + 1
    /\ UNCHANGED m_sema

(* mutant: a timed out waiter does not give its decrement back *)
Restore_NoIncrement(w) ==
    /\ WaiterStep(w, "restore", IF m_count < 0 THEN "refused" ELSE "retry")
    /\ UNCHANGED <<m_count, m_sema>>

Restore(w) ==
    /\ WaiterStep(w, "restore", IF m_count < 0 THEN "refused" ELSE "retry")
    /\ m_count' = m_count + 1
    /\ UNCHANGED m_sema

Retry(w) ==
    /\ WaiterStep(w, "retry", IF m_count > 0 THEN "kernelTry" ELSE "restore")
    /\ m_count' = m_count - 1
    /\ UNCHANGED m_sema

(* mutant: the permit is claimed without taking the token the signaler posted *)
KernelTry_LeavesToken(w) ==
    /\ WaiterStep(w, "kernelTry", "permit")
    /\ UNCHANGED <<m_count, m_sema>>

(* mutant: the kernel semaphore is not asked again *)
KernelTry_NotAsked(w) ==
    /\ WaiterStep(w, "kernelTry", "restore")
    /\ UNCHANGED <<m_count, m_sema>>

KernelTry(w) ==
    /\ UNCHANGED m_count
    /\ \/ /\ m_sema > 0
          /\ WaiterStep(w, "kernelTry", "permit")
          /\ m_sema' = m_sema - 1
       \/ /\ m_sema = 0
          /\ WaiterStep(w, "kernelTry", "restore")
          /\ UNCHANGED m_sema

WaitReturns(w) ==
    /\ WaiterStep(w, "refused", "idle")
    /\ UNCHANGED <<m_count, m_sema>>

(* tryWait and waitWithPartialSpinning, up to their return *)
Wait(w) ==
    \/ \E t \in Timeouts : WaitBegin(w, t)
    \/ SeePermit(w) \/ Take(w) \/ TryWaitFails(w) \/ StopSpinning(w) \/ Decrement(w)
    \/ KernelWait(w) \/ TimedOut(w)
    \/ Restore(w) \/ Retry(w) \/ KernelTry(w)
    \/ WaitReturns(w)

SignalerStep(s, from, to) ==
    /\ spc[s] = from
    /\ spc' = [spc EXCEPT ![s] = to]
    /\ UNCHANGED <<wpc, timeout>>

(* mutant: the signaler takes a sleeping waiter (-1) for none *)
Signal_MissesSleeper(s) ==
    /\ SignalerStep(s, "signal", IF m_count < -1 THEN "post" ELSE "idle")
    /\ m_count' = m_count + 1
    /\ UNCHANGED m_sema

Signal(s) ==
    /\ SignalerStep(s, "signal", IF m_count < 0 THEN "post" ELSE "idle")
    /\ m_count' = m_count + 1
    /\ UNCHANGED m_sema

Post(s) ==
    /\ SignalerStep(s, "post", "idle")
    /\ m_sema' = m_sema + 1
    /\ UNCHANGED m_count

availableApprox == IF m_count > 0 THEN m_count ELSE 0
=============================================================================
