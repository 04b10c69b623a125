------------------------- MODULE ThreadPool_proofs -------------------------
(***************************************************************************)
(* For every number of workers and of tasks: an accepted task is never     *)
(* lost and never run twice, and the destructor leaves nothing unrun.      *)
(***************************************************************************)
EXTENDS ThreadPool, TLAPS

Critical == {"predicate", "block", "leaveWait", "enqBody", "setStop"}

(* A thread inside a critical section holds the mutex. *)
MutexHeld == \A t \in Threads : pc[t] \in Critical => queue_mutex = t

(* stop is set exactly once the destructor has set it. *)
StopSet == stop <=> pc[Owner] \in {"notifyAll", "join", "destroyed"}

(* A worker holds a task exactly while it runs it, enqueueing included. *)
HoldsTask == \A w \in Workers :
    task[w] # NoTask <=> pc[w] \in {"run", "enqLock", "enqBody", "notifyOne"}

(* A worker leaves only a stopped pool whose queue is empty. *)
ExitedDrained == \A w \in Workers : pc[w] = "exited" => stop /\ tasks = <<>>

(* The destructor returns after its workers. *)
JoinedAll == pc[Owner] = "destroyed" => \A w \in Workers : pc[w] = "exited"

Control == MutexHeld /\ StopSet /\ HoldsTask /\ ExitedDrained /\ JoinedAll

(* The type invariant, for any number of workers, none included. *)
THEOREM TypeCorrect == Spec => []TypeOK
<1>1. Init => TypeOK
  <2> SUFFICES ASSUME Init PROVE TypeOK
    OBVIOUS
  <2>1. pc \in [Threads -> OwnerLabels \cup WorkerLabels] /\ task \in [Workers -> Nat]
    BY DEF Init, NoTask, OwnerLabels, WorkerLabels
  <2>2. pc[Owner] = "main" /\ \A w \in Workers : pc[w] = "wantLock"
    BY ThreadPoolAssumption DEF Init, Threads
  <2>3. tasks \in Seq(Nat \ {0})
    BY DEF Init
  <2>7. queue_mutex \in Threads \cup {Nobody} /\ stop \in BOOLEAN
    BY DEF Init
  <2>4. waiting \subseteq Workers /\ calls \in Nat /\ spurious \in Nat
    BY DEF Init
  <2>5. accepted \in Nat /\ done \subseteq Nat
    BY DEF Init
  <2>6. pc[Owner] \in OwnerLabels /\ \A w \in Workers : pc[w] \in WorkerLabels
    BY <2>2 DEF OwnerLabels, WorkerLabels
  <2> QED
    BY <2>1, <2>3, <2>4, <2>5, <2>6, <2>7 DEF TypeOK
<1>2. TypeOK /\ [Next]_vars => TypeOK'
  <2> SUFFICES ASSUME TypeOK, [Next]_vars PROVE TypeOK'
    OBVIOUS
  <2> USE ThreadPoolAssumption DEF TypeOK, Goto, Acquire, Release, Threads, Caller, history, NoTask,
              OwnerLabels, WorkerLabels
  <2>0. CASE UNCHANGED vars
    BY <2>0 DEF vars, history
  <2>1. ASSUME NEW w \in Workers, LockQueue(w) PROVE TypeOK'
    BY <2>1 DEF LockQueue
  <2>2. ASSUME NEW w \in Workers, TestPredicate(w) PROVE TypeOK'
    BY <2>2 DEF TestPredicate
  <2>3. ASSUME NEW w \in Workers, Block(w) PROVE TypeOK'
    BY <2>3 DEF Block
  <2>4. ASSUME NEW w \in Workers, WakeUp(w) PROVE TypeOK'
    BY <2>4 DEF WakeUp
  <2>5. ASSUME NEW w \in Workers, Exit(w) PROVE TypeOK'
    BY <2>5 DEF Exit
  <2>6. ASSUME NEW w \in Workers, TakeTask(w) PROVE TypeOK'
    BY <2>6 DEF TakeTask
  <2>7. ASSUME NEW w \in Workers, FinishTask(w) PROVE TypeOK'
    <3>1. pc' \in [Threads -> OwnerLabels \cup WorkerLabels] /\ task' \in [Workers -> Nat] /\ done' \subseteq Nat
      BY <2>7 DEF FinishTask
    <3> QED
      BY <2>7, <3>1 DEF FinishTask
  <2>8. ASSUME NEW w \in Workers, SpuriousWakeUp(w) PROVE TypeOK'
    BY <2>8 DEF SpuriousWakeUp
  <2>9. ASSUME NEW t \in Threads, EnqueueBegin(t) PROVE TypeOK'
    BY <2>9 DEF EnqueueBegin
  <2>10. ASSUME NEW t \in Threads, EnqueueLock(t) PROVE TypeOK'
    BY <2>10 DEF EnqueueLock
  <2>11. ASSUME NEW t \in Threads, EnqueueAccept(t) PROVE TypeOK'
    BY <2>11 DEF EnqueueAccept
  <2>12. ASSUME NEW t \in Threads, EnqueueThrow(t) PROVE TypeOK'
    BY <2>12 DEF EnqueueThrow
  <2>13. ASSUME NEW t \in Threads, NotifyOne(t) PROVE TypeOK'
    BY <2>13 DEF NotifyOne
  <2>14. CASE StopLock
    BY <2>14 DEF StopLock
  <2>15. CASE SetStop
    BY <2>15 DEF SetStop
  <2>16. CASE NotifyAll
    BY <2>16 DEF NotifyAll
  <2>17. CASE Join
    BY <2>17 DEF Join
  <2> QED
    BY <2>0, <2>1, <2>2, <2>3, <2>4, <2>5, <2>6, <2>7, <2>8, <2>9, <2>10, <2>11, <2>12, <2>13, <2>14, <2>15, <2>16, <2>17
       DEF Next, Worker, EnqueueStep, Destructor
<1> QED
  BY <1>1, <1>2, PTL DEF Spec

(* Who is where: the mutex, the stop flag and the position of every thread. *)
THEOREM ControlHolds == Spec => []Control
<1>1. Init => Control
  <2> SUFFICES ASSUME Init PROVE Control
    OBVIOUS
  <2>1. pc[Owner] = "main" /\ \A w \in Workers : pc[w] = "wantLock" /\ task[w] = NoTask
    BY ThreadPoolAssumption DEF Init, Threads
  <2>2. \A t \in Threads : pc[t] \notin Critical
    BY <2>1 DEF Threads, Critical
  <2> QED
    BY <2>1, <2>2 DEF Init, Control, MutexHeld, StopSet, HoldsTask, ExitedDrained, JoinedAll
<1>2. TypeOK /\ TypeOK' /\ Control /\ [Next]_vars => Control'
  <2> SUFFICES ASSUME TypeOK, TypeOK', Control, [Next]_vars PROVE Control'
    OBVIOUS
  <2> USE ThreadPoolAssumption DEF TypeOK, Goto, Acquire, Release, Threads, Caller, history,
              NoTask, OwnerLabels, WorkerLabels,
              Control, MutexHeld, StopSet, HoldsTask, ExitedDrained, JoinedAll, Critical
  <2>0. CASE UNCHANGED vars
    BY <2>0 DEF vars, history
  <2>1. ASSUME NEW w \in Workers, LockQueue(w) PROVE Control'
    BY <2>1 DEF LockQueue
  <2>2. ASSUME NEW w \in Workers, TestPredicate(w) PROVE Control'
    BY <2>2 DEF TestPredicate
  <2>3. ASSUME NEW w \in Workers, Block(w) PROVE Control'
    BY <2>3 DEF Block
  <2>4. ASSUME NEW w \in Workers, WakeUp(w) PROVE Control'
    BY <2>4 DEF WakeUp
  <2>5. ASSUME NEW w \in Workers, Exit(w) PROVE Control'
    BY <2>5 DEF Exit
  <2>6. ASSUME NEW w \in Workers, TakeTask(w) PROVE Control'
    BY <2>6 DEF TakeTask
  <2>7. ASSUME NEW w \in Workers, FinishTask(w) PROVE Control'
    BY <2>7 DEF FinishTask
  <2>8. ASSUME NEW w \in Workers, SpuriousWakeUp(w) PROVE Control'
    BY <2>8 DEF SpuriousWakeUp
  <2>9. ASSUME NEW t \in Threads, EnqueueBegin(t) PROVE Control'
    BY <2>9 DEF EnqueueBegin
  <2>10. ASSUME NEW t \in Threads, EnqueueLock(t) PROVE Control'
    BY <2>10 DEF EnqueueLock
  <2>11. ASSUME NEW t \in Threads, EnqueueAccept(t) PROVE Control'
    BY <2>11 DEF EnqueueAccept
  <2>12. ASSUME NEW t \in Threads, EnqueueThrow(t) PROVE Control'
    BY <2>12 DEF EnqueueThrow
  <2>13. ASSUME NEW t \in Threads, NotifyOne(t) PROVE Control'
    BY <2>13 DEF NotifyOne
  <2>14. CASE StopLock
    BY <2>14 DEF StopLock
  <2>15. CASE SetStop
    BY <2>15 DEF SetStop
  <2>16. CASE NotifyAll
    BY <2>16 DEF NotifyAll
  <2>17. CASE Join
    BY <2>17 DEF Join
  <2> QED
    BY <2>0, <2>1, <2>2, <2>3, <2>4, <2>5, <2>6, <2>7, <2>8, <2>9, <2>10, <2>11, <2>12, <2>13, <2>14, <2>15, <2>16, <2>17
       DEF Next, Worker, EnqueueStep, Destructor
<1> QED
  BY <1>1, <1>2, TypeCorrect, PTL DEF Spec

(* Every accepted task is queued, running or done, and in one of them only. *)
THEOREM EachTaskRunsOnce == Spec => []EachTaskOnce
<1>1. Init => EachTaskOnce
  BY DEF Init, EachTaskOnce, Running, NoTask
<1>2. TypeOK /\ TypeOK' /\ Control /\ EachTaskOnce /\ [Next]_vars => EachTaskOnce'
  <2> SUFFICES ASSUME TypeOK, TypeOK', Control, EachTaskOnce, [Next]_vars PROVE EachTaskOnce'
    OBVIOUS
  <2> USE DEF TypeOK, Goto, history, EachTaskOnce, Running, NoTask
  <2>0. CASE UNCHANGED vars
    BY <2>0 DEF vars, history
  <2>1. ASSUME NEW w \in Workers, LockQueue(w) PROVE EachTaskOnce'
    BY <2>1 DEF LockQueue
  <2>2. ASSUME NEW w \in Workers, TestPredicate(w) PROVE EachTaskOnce'
    BY <2>2 DEF TestPredicate
  <2>3. ASSUME NEW w \in Workers, Block(w) PROVE EachTaskOnce'
    BY <2>3 DEF Block
  <2>4. ASSUME NEW w \in Workers, WakeUp(w) PROVE EachTaskOnce'
    BY <2>4 DEF WakeUp
  <2>5. ASSUME NEW w \in Workers, Exit(w) PROVE EachTaskOnce'
    BY <2>5 DEF Exit
  <2>6. ASSUME NEW w \in Workers, TakeTask(w) PROVE EachTaskOnce'
    <3> DEFINE n == accepted - Len(tasks) + 1
    <3>1. /\ tasks # <<>> /\ tasks' = Tail(tasks) /\ pc[w] = "leaveWait"
          /\ task' = [task EXCEPT ![w] = Head(tasks)]
          /\ accepted' = accepted /\ done' = done
      BY <2>6 DEF TakeTask
    <3>2. task[w] = NoTask
      BY <3>1 DEF Control, HoldsTask
    <3>3. Len(tasks) \in Nat /\ Len(tasks) > 0 /\ Head(tasks) = tasks[1]
      BY <3>1
    <3>4. Head(tasks) = n /\ n \in Nat /\ n # NoTask
      <4>1. tasks[1] = accepted - Len(tasks) + 1
        BY <3>3
      <4>2. tasks[1] \in Nat \ {0}
        BY <3>3
      <4> QED
        BY <3>3, <4>1, <4>2
    <3>5. Len(tasks') = Len(tasks) - 1 /\ \A i \in 1..Len(tasks') : tasks'[i] = tasks[i + 1]
      BY <3>1, <3>3
    <3>6. \A i \in 1..Len(tasks') : tasks'[i] = accepted' - Len(tasks') + i
      BY <3>1, <3>3, <3>5
    <3>7. task'[w] = n /\ \A v \in Workers : v # w => task'[v] = task[v]
      BY <3>1, <3>4
    <3>8. Running' = Running \cup {n}
      BY <3>2, <3>4, <3>7
    <3>9. n \notin Running \cup done
      BY <3>3, <3>4
    <3>10. accepted' - Len(tasks') = n
      BY <3>1, <3>3, <3>5
    <3>11. 1..n = 1..(n - 1) \cup {n} /\ n - 1 = accepted - Len(tasks)
      BY <3>3, <3>4
    <3>12. Running' \cup done' = 1..(accepted' - Len(tasks')) /\ Running' \cap done' = {}
      <4>1. Running \cup done = 1..(n - 1) /\ Running \cap done = {}
        BY <3>11
      <4>2. Running' \cup done' = (Running \cup done) \cup {n}
        BY <3>1, <3>8
      <4>3. Running' \cup done' = 1..n
        BY <4>1, <4>2, <3>11
      <4>4. Running' \cap done' = {}
        <5>1. done' = done
          BY <3>1
        <5>2. \A R, D : R \cap D = {} /\ n \notin R \cup D => (R \cup {n}) \cap D = {}
          OBVIOUS
        <5>3. (Running \cup {n}) \cap done = {}
          BY <4>1, <5>2, <3>9, Zenon
        <5> QED
          BY <5>1, <5>3, <3>8, Zenon
      <4> QED
        BY <3>10, <4>3, <4>4
    <3>13. \A v \in Workers : v # w => task[v] # n
      BY <3>4, <3>9
    <3>14. \A u, v \in Workers : task'[u] = task'[v] /\ task'[u] # NoTask => u = v
      BY <3>7, <3>13
    <3> QED
      BY <3>6, <3>12, <3>14
  <2>7. ASSUME NEW w \in Workers, FinishTask(w) PROVE EachTaskOnce'
    <3>1. /\ pc[w] = "run" /\ task' = [task EXCEPT ![w] = NoTask]
          /\ done' = done \cup {task[w]} /\ accepted' = accepted /\ tasks' = tasks
      BY <2>7 DEF FinishTask
    <3>2. task[w] # NoTask
      BY <3>1 DEF Control, HoldsTask
    <3>3. task'[w] = NoTask /\ \A v \in Workers : v # w => task'[v] = task[v]
      BY <3>1
    <3>4. \A v \in Workers : v # w => task[v] # task[w]
      BY <3>2
    <3>5. task[w] \in Running /\ Running' = Running \ {task[w]}
      BY <3>2, <3>3, <3>4
    <3>6. Running' \cup done' = Running \cup done /\ Running' \cap done' = {}
      BY <3>1, <3>5
    <3>7. \A u, v \in Workers : task'[u] = task'[v] /\ task'[u] # NoTask => u = v
      BY <3>3
    <3> QED
      BY <3>1, <3>6, <3>7
  <2>8. ASSUME NEW w \in Workers, SpuriousWakeUp(w) PROVE EachTaskOnce'
    BY <2>8 DEF SpuriousWakeUp
  <2>9. ASSUME NEW t \in Threads, EnqueueBegin(t) PROVE EachTaskOnce'
    BY <2>9 DEF EnqueueBegin
  <2>10. ASSUME NEW t \in Threads, EnqueueLock(t) PROVE EachTaskOnce'
    BY <2>10 DEF EnqueueLock
  <2>11. ASSUME NEW t \in Threads, EnqueueAccept(t) PROVE EachTaskOnce'
    BY <2>11 DEF EnqueueAccept
  <2>12. ASSUME NEW t \in Threads, EnqueueThrow(t) PROVE EachTaskOnce'
    BY <2>12 DEF EnqueueThrow
  <2>13. ASSUME NEW t \in Threads, NotifyOne(t) PROVE EachTaskOnce'
    BY <2>13 DEF NotifyOne
  <2>14. CASE StopLock
    BY <2>14 DEF StopLock
  <2>15. CASE SetStop
    BY <2>15 DEF SetStop
  <2>16. CASE NotifyAll
    BY <2>16 DEF NotifyAll
  <2>17. CASE Join
    BY <2>17 DEF Join
  <2> QED
    BY <2>0, <2>1, <2>2, <2>3, <2>4, <2>5, <2>6, <2>7, <2>8, <2>9, <2>10, <2>11, <2>12, <2>13, <2>14, <2>15, <2>16, <2>17
       DEF Next, Worker, EnqueueStep, Destructor
<1> QED
  BY <1>1, <1>2, TypeCorrect, ControlHolds, PTL DEF Spec

(* No task is accepted after a worker has left for good. *)
THEOREM NoTaskAfterAnExit == Spec => []NothingAfterAnExit
<1>1. Control => NothingAfterAnExit
  BY DEF Control, ExitedDrained, NothingAfterAnExit
<1> QED
  BY <1>1, ControlHolds, PTL

(* The destructor returns to a pool whose every accepted task has run. *)
THEOREM DestructorDrains == Spec => []DestroyedIsQuiet
<1>1. TypeOK /\ Control /\ EachTaskOnce => DestroyedIsQuiet
  <2> SUFFICES ASSUME TypeOK, Control, EachTaskOnce,
                      pc[Owner] = "destroyed", Workers # {}
               PROVE  done = 1..accepted /\ \A w \in Workers : pc[w] = "exited"
    BY DEF DestroyedIsQuiet
  <2>1. \A w \in Workers : pc[w] = "exited"
    BY DEF Control, JoinedAll
  <2>2. tasks = <<>>
    BY <2>1 DEF Control, ExitedDrained
  <2>3. Running = {}
    BY <2>1 DEF Control, HoldsTask, Running
  <2> QED
    BY <2>1, <2>2, <2>3 DEF EachTaskOnce, TypeOK
<1> QED
  BY <1>1, TypeCorrect, ControlHolds, EachTaskRunsOnce, PTL

=============================================================================
