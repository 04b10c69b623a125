----------------------------- MODULE ThreadPool -----------------------------
(***************************************************************************)
(* threadpool/ThreadPool.h: a fixed set of workers, a queue of tasks, one  *)
(* mutex and one condition variable.  The owner (main) enqueues and then   *)
(* destroys the pool; a running task may enqueue more tasks, also while    *)
(* the destructor is waiting for it.                                       *)
(***************************************************************************)
EXTENDS Integers, Sequences, FiniteSets

CONSTANTS Workers,       \* the worker threads; the constructor's argument is their number
          Owner,         \* the thread that constructs, uses and destroys the pool
          Nobody,        \* the holder of a free mutex
          MaxTasks,      \* bound: calls of enqueue
          MaxSpurious    \* bound: spurious wakeups of the condition variable

ASSUME ThreadPoolAssumption ==
    /\ IsFiniteSet(Workers) /\ Owner \notin Workers
    /\ Nobody \notin Workers \cup {Owner}
    /\ MaxTasks \in Nat /\ MaxSpurious \in Nat

Threads == Workers \cup {Owner}
NoTask == 0

VARIABLES tasks,         \* the task queue; tasks are numbered 1, 2, ... by their enqueue
          queue_mutex,   \* its holder, or Nobody
          waiting,       \* the threads blocked in condition.wait
          stop,
          pc,            \* where each thread is
          task,          \* the task each worker has taken off the queue
          calls,         \* calls of enqueue so far
          accepted,      \* how many tasks enqueue put in the queue: 1..accepted
          done,          \* the tasks that have run
          spurious       \* spurious wakeups so far

vars == <<tasks, queue_mutex, waiting, stop, pc, task, calls, accepted, done, spurious>>
history == <<calls, accepted, done, spurious>>

Init ==
    /\ tasks = <<>>
    /\ queue_mutex = Nobody
    /\ waiting = {}
    /\ stop = FALSE
    /\ pc = [t \in Threads |-> IF t = Owner THEN "main" ELSE "wantLock"]
    /\ task = [w \in Workers |-> NoTask]
    /\ calls = 0
    /\ accepted = 0 /\ done = {}
    /\ spurious = 0

Goto(t, from, to) == pc[t] = from /\ pc' = [pc EXCEPT ![t] = to]

Acquire(t) == queue_mutex = Nobody /\ queue_mutex' = t
Release(t) == queue_mutex = t /\ queue_mutex' = Nobody

-----------------------------------------------------------------------------
(* The loop of a worker *)

LockQueue(w) ==
    /\ Goto(w, "wantLock", "predicate")
    /\ Acquire(w)
    /\ UNCHANGED <<tasks, waiting, stop, task, history>>

(* the predicate of condition.wait, evaluated with the mutex held *)
TestPredicate(w) ==
    /\ queue_mutex = w
    /\ Goto(w, "predicate", IF stop \/ tasks # <<>> THEN "leaveWait" ELSE "block")
    /\ UNCHANGED <<tasks, queue_mutex, waiting, stop, task, history>>

(* the wait itself: release the mutex and block in one step *)
Block(w) ==
    /\ Goto(w, "block", "asleep")
    /\ Release(w)
    /\ waiting' = waiting \cup {w}
    /\ UNCHANGED <<tasks, stop, task, history>>

WakeUp(w) ==
    /\ w \notin waiting
    /\ Goto(w, "asleep", "wantLock")
    /\ UNCHANGED <<tasks, queue_mutex, waiting, stop, task, history>>

SpuriousWakeUp(w) ==
    /\ w \in waiting /\ spurious < MaxSpurious
    /\ waiting' = waiting \ {w}
    /\ spurious' = spurious + 1
    /\ UNCHANGED <<tasks, queue_mutex, stop, pc, task, calls, accepted, done>>

(* mutant: a stopped pool is left at once, whatever is queued *)
Exit_WithoutDraining(w) ==
    /\ stop
    /\ Goto(w, "leaveWait", "exited")
    /\ Release(w)
    /\ UNCHANGED <<tasks, waiting, stop, task, history>>

Exit(w) ==
    /\ stop /\ tasks = <<>>
    /\ Goto(w, "leaveWait", "exited")
    /\ Release(w)
    /\ UNCHANGED <<tasks, waiting, stop, task, history>>

(* mutant: the task is copied but not popped *)
TakeTask_NotPopped(w) ==
    /\ tasks # <<>>
    /\ Goto(w, "leaveWait", "run")
    /\ task' = [task EXCEPT ![w] = Head(tasks)]
    /\ Release(w)
    /\ UNCHANGED <<tasks, waiting, stop, history>>

TakeTask(w) ==
    /\ tasks # <<>>
    /\ Goto(w, "leaveWait", "run")
    /\ task' = [task EXCEPT ![w] = Head(tasks)]
    /\ tasks' = Tail(tasks)
    /\ Release(w)
    /\ UNCHANGED <<waiting, stop, history>>

(* task() returns; an exception it threw is kept in its future *)
FinishTask(w) ==
    /\ Goto(w, "run", "wantLock")
    /\ done' = done \cup {task[w]}
    /\ task' = [task EXCEPT ![w] = NoTask]
    /\ UNCHANGED <<tasks, queue_mutex, waiting, stop, calls, accepted, spurious>>

Worker(w) ==
    \/ LockQueue(w) \/ TestPredicate(w) \/ Block(w) \/ WakeUp(w)
    \/ Exit(w) \/ TakeTask(w) \/ FinishTask(w)

-----------------------------------------------------------------------------
(* enqueue, called by the owner or from a running task *)

Caller(t) == IF t = Owner THEN "main" ELSE "run"

EnqueueBegin(t) ==
    /\ calls < MaxTasks
    /\ calls' = calls + 1
    /\ Goto(t, Caller(t), "enqLock")
    /\ UNCHANGED <<tasks, queue_mutex, waiting, stop, task, accepted, done, spurious>>

EnqueueLock(t) ==
    /\ Goto(t, "enqLock", "enqBody")
    /\ Acquire(t)
    /\ UNCHANGED <<tasks, waiting, stop, task, history>>

(* mutant: enqueueing after stop is allowed *)
EnqueueAccept_AfterStop(t) ==
    /\ Goto(t, "enqBody", "notifyOne")
    /\ accepted' = accepted + 1
    /\ tasks' = Append(tasks, accepted + 1)
    /\ Release(t)
    /\ UNCHANGED <<waiting, stop, task, calls, done, spurious>>

EnqueueAccept(t) ==
    /\ ~stop
    /\ Goto(t, "enqBody", "notifyOne")
    /\ accepted' = accepted + 1
    /\ tasks' = Append(tasks, accepted + 1)
    /\ Release(t)
    /\ UNCHANGED <<waiting, stop, task, calls, done, spurious>>

(* "enqueue on stopped ThreadPool" *)
EnqueueThrow(t) ==
    /\ stop
    /\ Goto(t, "enqBody", Caller(t))
    /\ Release(t)
    /\ UNCHANGED <<tasks, waiting, stop, task, history>>

(* mutant: enqueue goes to the worker's loop instead of its caller *)
NotifyOne_ToLoop(t) ==
    /\ Goto(t, "notifyOne", "wantLock")
    /\ IF waiting = {} THEN UNCHANGED waiting
       ELSE \E w \in waiting : waiting' = waiting \ {w}
    /\ UNCHANGED <<tasks, queue_mutex, stop, task, history>>

NotifyOne(t) ==
    /\ Goto(t, "notifyOne", Caller(t))
    /\ IF waiting = {} THEN UNCHANGED waiting
       ELSE \E w \in waiting : waiting' = waiting \ {w}
    /\ UNCHANGED <<tasks, queue_mutex, stop, task, history>>

EnqueueStep(t) == EnqueueLock(t) \/ EnqueueAccept(t) \/ EnqueueThrow(t) \/ NotifyOne(t)

-----------------------------------------------------------------------------
(* the destructor *)

(* mutant: stop is set without holding the mutex *)
StopLock_Unlocked ==
    /\ Goto(Owner, "main", "notifyAll")
    /\ stop' = TRUE
    /\ UNCHANGED <<tasks, queue_mutex, waiting, task, history>>

StopLock ==
    /\ Goto(Owner, "main", "setStop")
    /\ Acquire(Owner)
    /\ UNCHANGED <<tasks, waiting, stop, task, history>>

SetStop ==
    /\ Goto(Owner, "setStop", "notifyAll")
    /\ stop' = TRUE
    /\ Release(Owner)
    /\ UNCHANGED <<tasks, waiting, task, history>>

(* mutant: one worker is notified rather than all *)
NotifyAll_One ==
    /\ Goto(Owner, "notifyAll", "join")
    /\ IF waiting = {} THEN UNCHANGED waiting
       ELSE \E w \in waiting : waiting' = waiting \ {w}
    /\ UNCHANGED <<tasks, queue_mutex, stop, task, history>>

NotifyAll ==
    /\ Goto(Owner, "notifyAll", "join")
    /\ waiting' = {}
    /\ UNCHANGED <<tasks, queue_mutex, stop, task, history>>

(* mutant: the destructor does not wait for its workers *)
Join_Detached ==
    /\ Goto(Owner, "join", "destroyed")
    /\ UNCHANGED <<tasks, queue_mutex, waiting, stop, task, history>>

Join ==
    /\ \A w \in Workers : pc[w] = "exited"
    /\ Goto(Owner, "join", "destroyed")
    /\ UNCHANGED <<tasks, queue_mutex, waiting, stop, task, history>>

Destructor == StopLock \/ SetStop \/ NotifyAll \/ Join

-----------------------------------------------------------------------------
Next ==
    \/ \E w \in Workers : Worker(w) \/ SpuriousWakeUp(w)
    \/ \E t \in Threads : EnqueueBegin(t) \/ EnqueueStep(t)
    \/ Destructor

Spec == Init /\ [][Next]_vars

(* Threads run, and a task returns.  The owner may enqueue for ever but, as in *)
(* simple.cpp and with_return.cpp, it reaches the end of main.                 *)
Fairness ==
    /\ \A w \in Workers : WF_vars(Worker(w))
    /\ \A t \in Threads : WF_vars(EnqueueStep(t))
    /\ WF_vars(Destructor)

FairSpec == Spec /\ Fairness

-----------------------------------------------------------------------------
(* Properties *)

OwnerLabels == {"main", "enqLock", "enqBody", "notifyOne",
                "setStop", "notifyAll", "join", "destroyed"}
WorkerLabels == {"wantLock", "predicate", "block", "asleep", "leaveWait", "exited",
                 "run", "enqLock", "enqBody", "notifyOne"}

(* The mutex has at most one holder, only workers wait, and each thread is at *)
(* a point of its own code.                                                   *)
TypeOK ==
    /\ tasks \in Seq(Nat \ {0}) /\ queue_mutex \in Threads \cup {Nobody}
    /\ waiting \subseteq Workers /\ stop \in BOOLEAN
    /\ pc \in [Threads -> OwnerLabels \cup WorkerLabels]
    /\ pc[Owner] \in OwnerLabels /\ \A w \in Workers : pc[w] \in WorkerLabels
    /\ task \in [Workers -> Nat] /\ calls \in Nat /\ spurious \in Nat
    /\ accepted \in Nat /\ done \subseteq Nat

Running == {task[w] : w \in Workers} \ {NoTask}

(* Every accepted task is in exactly one place - queued, with one worker, or *)
(* done - so none is lost and none runs twice; and tasks are started in the  *)
(* order they were accepted.                                                 *)
EachTaskOnce ==
    /\ \A i \in 1..Len(tasks) : tasks[i] = accepted - Len(tasks) + i
    /\ Running \cup done = 1..(accepted - Len(tasks))
    /\ Running \cap done = {}
    /\ \A v, w \in Workers : task[v] = task[w] /\ task[v] # NoTask => v = w

(* Once a worker has seen the stopped queue empty and left, no task can be  *)
(* accepted any more (ThreadPool.h:76-78): it might have nobody to run it.  *)
NothingAfterAnExit == (\E w \in Workers : pc[w] = "exited") => tasks = <<>>

(* When the destructor of a pool with workers returns, every accepted task  *)
(* has run and no worker uses the pool's members again.                     *)
DestroyedIsQuiet ==
    pc[Owner] = "destroyed" /\ Workers # {} =>
        done = 1..accepted /\ \A w \in Workers : pc[w] = "exited"

(* The destructor's join ends. *)
DestructorReturns == pc[Owner] = "notifyAll" ~> pc[Owner] = "destroyed"

(* Every accepted task runs. *)
EveryTaskRuns == \A n \in 1..MaxTasks : accepted >= n ~> n \in done
=============================================================================
