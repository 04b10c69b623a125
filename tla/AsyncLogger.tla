----------------------------- MODULE AsyncLogger -----------------------------
(***************************************************************************)
(* spdlog's asynchronous logger over a monthly or periodical file sink:     *)
(* threads stamp a message and post it to the pool's bounded queue          *)
(* (async_logger-inl.h, mpmc_blocking_q.h), workers take it out and sink it *)
(* (thread_pool-inl.h), and the sink chooses the file by the message's time *)
(* and the next rotation by the clock (module FileSink).                    *)
(*                                                                         *)
(* The pool lives as long as the registry or a thread that is posting holds *)
(* it; the last one to let go runs the destructor.                          *)
(***************************************************************************)
EXTENDS FileSink, FiniteSetsExt

CONSTANTS Loggers,         \* threads that log
          Workers,         \* threads the pool may have
          Main,            \* the thread that makes the sink and shuts down
          Configurations,  \* how the program sets up the sink and the pool, and the days it runs on
          MaxCalls         \* bound: a program calls log and flush no more often

ASSUME AsyncLoggerAssumption ==
    /\ IsFiniteSet(Loggers) /\ IsFiniteSet(Workers)
    /\ Main \notin Loggers \cup Workers
    /\ MaxCalls \in Nat
    /\ \A c \in Configurations :
          /\ c.queue_size \in Nat \ {0}
          /\ c.loggers \subseteq Loggers /\ c.workers \subseteq Workers /\ c.workers # {}
          /\ c.kinds \subseteq {"log", "flush"}
          /\ c.calls \in 0..MaxCalls
          /\ c.days \subseteq 0..(MonthStart[LastMonth] - 1) /\ c.days # {}
          /\ c.max_files \in Nat
          /\ \A t \in c.days : c.max_files <= t /\ MonthStart[FirstMonth + 7] <= t
          /\ c.existing \subseteq Months

VARIABLES
    conf,        \* one of Configurations
    clock,       \* log_clock::now()
    files,       \* the directory
    sink,        \* the fields of the sink
    failures,    \* file operations that may still fail
    q,           \* the pool's queue
    pc,          \* where each logging thread, and Main, is
    posting,     \* the message each of them is posting
    wpc,         \* where each worker is
    incoming,    \* the message each worker took out
    calls,       \* the number of log and flush calls made
    starts,      \* the number of times the program was started again
    toStop,      \* terminate messages the destructor has still to post
    entered,     \* history: the messages that entered the queue, in order
    done,        \* history: the messages a worker has dealt with
    sunk         \* history: the messages written, and where

poolVars == <<q, pc, posting, entered>>
workVars == <<wpc, incoming, done>>
sinkVars == <<files, sink, failures, sunk>>
vars     == <<conf, clock, poolVars, workVars, sinkVars, calls, starts, toStop>>

None == [kind |-> "none", id |-> 0, time |-> 0]

Msg(kind, id, time) == [kind |-> kind, id |-> id, time |-> time]

Posters == Loggers \cup {Main}

(* The threads that hold a shared_ptr to the pool while they post.          *)
Holders == {l \in Loggers : pc[l] \in {"enqueue", "waiting", "notify"}}

Running == {w \in Workers : wpc[w] # "absent"}

-----------------------------------------------------------------------------
(* The sink *)

NewSink(now) ==
    [open |-> TRUE, file |-> MonthOf(now), stamp |-> now, late |-> FALSE, rotation |-> 0,
     names |-> circular_q(0), opened |-> <<MonthOf(now)>>]

(* The constructor reads the clock for the name of the first file ...       *)
(* `stamp` is the time a file was named after, `late` a history variable:   *)
(* another month had begun when the next rotation was set.                  *)
OpenFirst ==
    /\ pc[Main] = "start"
    /\ files' = Opened(files, MonthOf(clock), conf.truncate)
    /\ sink' = NewSink(clock)
    /\ pc' = [pc EXCEPT ![Main] = "opened"]
    /\ UNCHANGED <<conf, clock, q, posting, entered, workVars, failures, sunk, calls, starts, toStop>>

(* ... and again for the first rotation and the names of the old files.     *)
ConstructSink ==
    /\ pc[Main] = "opened"
    /\ sink' = [sink EXCEPT !.rotation = next_rotation_tp(clock),
                            !.late = MonthOf(clock) # sink.file,
                            !.names = IF conf.max_files > 0
                                      THEN init_filenames_q(files, conf.max_files, clock)
                                      ELSE circular_q(0)]
    /\ files' = IF conf.periodical
                THEN Removed(files, MonthOf(before_7_month(sink.stamp)))
                ELSE files
    /\ pc' = [pc EXCEPT ![Main] = "up"]
    /\ UNCHANGED <<conf, clock, q, posting, entered, workVars, failures, sunk, calls, starts, toStop>>

(* mutant: a message rotates if it is not older than the file *)
Rotates_EveryTime(m) == m.time >= sink.stamp

Rotates(m) == m.time >= sink.rotation

(* mutant: the next rotation is set although the file did not open *)
RotationFails_Rotated(m) ==
    /\ Rotates(m)
    /\ failures > 0
    /\ failures' = failures - 1
    /\ sink' = [sink EXCEPT !.open = FALSE, !.file = MonthOf(m.time),
                            !.rotation = next_rotation_tp(clock)]
    /\ UNCHANGED <<files, sunk>>

(* file_helper::open gives up after five tries: the sink is left without a  *)
(* file, and the message is lost with the exception.                        *)
RotationFails(m) ==
    /\ Rotates(m)
    /\ failures > 0
    /\ failures' = failures - 1
    /\ sink' = [sink EXCEPT !.open = FALSE, !.file = MonthOf(m.time)]
    /\ UNCHANGED <<files, sunk>>

Record(m) ==
    [id |-> m.id, file |-> sink'.file, month |-> MonthOf(m.time),
     prompt |-> MonthOf(m.time) = MonthOf(clock) /\ ~sink'.late]

(* The new file is named after the message; the next rotation is set by the *)
(* clock.  The periodical sink deletes before the message is written, both  *)
(* delete the file max_files rotations ago after it.                        *)
Rotate(m) ==
    LET name   == MonthOf(m.time)
        opened == Opened(files, name, conf.truncate)
        kept   == IF conf.periodical THEN Removed(opened, MonthOf(before_7_month(m.time))) ELSE opened
        fresh  == Written(kept, name, m.id)
        old    == delete_old(fresh, sink.names, name)
    IN  /\ Rotates(m)
        /\ files' = IF conf.max_files > 0 THEN old.files ELSE fresh
        /\ sink' = [open |-> TRUE, file |-> name, stamp |-> m.time, late |-> MonthOf(clock) # name,
                    rotation |-> next_rotation_tp(clock),
                    names |-> IF conf.max_files > 0 THEN old.names ELSE sink.names,
                    opened |-> Append(sink.opened, name)]
        /\ sunk' = sunk \cup {Record(m)}
        /\ UNCHANGED failures

Write(m) ==
    /\ ~Rotates(m)
    /\ sink.open
    /\ files' = Written(files, sink.file, m.id)
    /\ UNCHANGED <<sink, failures>>
    /\ sunk' = sunk \cup {Record(m)}

-----------------------------------------------------------------------------
(* log and flush *)

(* The message is stamped before the pool is looked for. *)
Stamp(l, kind) ==
    /\ pc[l] = "idle"
    /\ calls < conf.calls
    /\ calls' = calls + 1
    /\ posting' = [posting EXCEPT ![l] = Msg(kind, calls', clock)]
    /\ pc' = [pc EXCEPT ![l] = "stamped"]
    /\ UNCHANGED <<conf, clock, q, entered, workVars, sinkVars, starts, toStop>>

PoolIsAlive == pc[Main] = "up" \/ Holders # {}

(* thread_pool_.lock(), or an exception: log() catches it, flush() leaves it *)
(* to its caller.                                                           *)
LockPool(l) ==
    /\ pc[l] = "stamped"
    /\ pc' = [pc EXCEPT ![l] = IF PoolIsAlive THEN "enqueue" ELSE "idle"]
    /\ posting' = [posting EXCEPT ![l] = IF PoolIsAlive THEN @ ELSE None]
    /\ UNCHANGED <<conf, clock, q, entered, workVars, sinkVars, calls, starts, toStop>>

-----------------------------------------------------------------------------
(* mpmc_blocking_queue.  A wait on a condition variable with its test, and  *)
(* the push or pop that follows, are under queue_mutex_; notify is not.     *)

(* mutant: the destructor's messages do not wait for room *)
Blocks_NotMain(p) == p # Main /\ conf.policy = "block"

Blocks(p) == p = Main \/ conf.policy = "block"

(* pop_cv_.wait *)
WaitForRoom(p) ==
    /\ pc[p] = "enqueue"
    /\ Blocks(p) /\ full(q)
    /\ pc' = [pc EXCEPT ![p] = "waiting"]
    /\ UNCHANGED <<conf, clock, q, posting, entered, workVars, sinkVars, calls, starts, toStop>>

(* enqueue and enqueue_nowait *)
Enqueue(p) ==
    /\ pc[p] = "enqueue"
    /\ ~(Blocks(p) /\ full(q))
    /\ q' = push_back(q, posting[p])
    /\ entered' = IF p = Main THEN entered ELSE Append(entered, posting[p].id)
    /\ pc' = [pc EXCEPT ![p] = "notify"]
    /\ UNCHANGED <<conf, clock, posting, workVars, sinkVars, calls, starts, toStop>>

Sleepers == {w \in Workers : wpc[w] = "sleeping"}

(* push_cv_.notify_one *)
WakeWorker ==
    IF Sleepers = {} THEN UNCHANGED wpc
    ELSE \E w \in Sleepers : wpc' = [wpc EXCEPT ![w] = "dequeue"]

(* After the notify the thread lets go of the pool; Main posts the next     *)
(* terminate message, or joins.                                             *)
Notify(p) ==
    /\ pc[p] = "notify"
    /\ WakeWorker
    /\ pc' = [pc EXCEPT ![p] = IF p = Main THEN "destroy" ELSE "idle"]
    /\ posting' = [posting EXCEPT ![p] = IF p = Main THEN @ ELSE None]
    /\ UNCHANGED <<conf, clock, q, entered, incoming, done, sinkVars, calls, starts, toStop>>

(* push_cv_.wait_for, on an empty queue *)
WaitForMessage(w) ==
    /\ wpc[w] = "dequeue"
    /\ empty(q)
    /\ wpc' = [wpc EXCEPT ![w] = "sleeping"]
    /\ UNCHANGED <<conf, clock, poolVars, incoming, done, sinkVars, calls, starts, toStop>>

(* Ten seconds have passed, or the wakeup was spurious: worker_loop_ asks   *)
(* again.                                                                   *)
WaitTimesOut(w) ==
    /\ wpc[w] = "sleeping"
    /\ wpc' = [wpc EXCEPT ![w] = "dequeue"]
    /\ UNCHANGED <<conf, clock, poolVars, incoming, done, sinkVars, calls, starts, toStop>>

(* mutant: the newest message is taken *)
Dequeue_Newest(w) ==
    LET last == (q.tail + q.max_items - 1) % q.max_items
    IN  /\ wpc[w] = "dequeue"
        /\ ~empty(q)
        /\ incoming' = [incoming EXCEPT ![w] = q.v[last]]
        /\ q' = [q EXCEPT !.tail = last, !.v[last] = Moved]
        /\ wpc' = [wpc EXCEPT ![w] = "notify"]
        /\ UNCHANGED <<conf, clock, pc, posting, entered, done, sinkVars, calls, starts, toStop>>

Dequeue(w) ==
    /\ wpc[w] = "dequeue"
    /\ ~empty(q)
    /\ incoming' = [incoming EXCEPT ![w] = front(q)]
    /\ q' = pop_front(q)
    /\ wpc' = [wpc EXCEPT ![w] = "notify"]
    /\ UNCHANGED <<conf, clock, pc, posting, entered, done, sinkVars, calls, starts, toStop>>

WaitingForRoom == {p \in Posters : pc[p] = "waiting"}

(* mutant: room is not announced *)
WakePoster_Nobody == UNCHANGED pc

(* pop_cv_.notify_one *)
WakePoster ==
    IF WaitingForRoom = {} THEN UNCHANGED pc
    ELSE \E p \in WaitingForRoom : pc' = [pc EXCEPT ![p] = "enqueue"]

NotifyRoom(w) ==
    /\ wpc[w] = "notify"
    /\ WakePoster
    /\ wpc' = [wpc EXCEPT ![w] = "process"]
    /\ UNCHANGED <<conf, clock, q, posting, entered, incoming, done, sinkVars, calls, starts, toStop>>

-----------------------------------------------------------------------------
(* process_next_msg_ *)

Process(w, kind, next) ==
    /\ wpc[w] = "process"
    /\ incoming[w].kind = kind
    /\ wpc' = [wpc EXCEPT ![w] = next]
    /\ incoming' = [incoming EXCEPT ![w] = None]
    /\ done' = IF kind = "terminate" THEN done ELSE done \cup {incoming[w].id}
    /\ UNCHANGED <<conf, clock, q, posting, entered, calls, starts, toStop>>

(* backend_sink_it_: the sink's mutex is held throughout. *)
SinkIt(w) ==
    /\ Process(w, "log", "dequeue")
    /\ RotationFails(incoming[w]) \/ Rotate(incoming[w]) \/ Write(incoming[w])
    /\ UNCHANGED pc

(* fwrite to the null pointer a failed open left. *)
WriteToNoFile(w) ==
    /\ Process(w, "log", "dequeue")
    /\ ~Rotates(incoming[w]) /\ ~sink.open
    /\ pc' = [p \in Posters |-> "crashed"]
    /\ UNCHANGED sinkVars

Flush(w) ==
    /\ Process(w, "flush", "dequeue")
    /\ UNCHANGED <<pc, sinkVars>>

LeaveLoop(w) ==
    /\ Process(w, "terminate", "exited")
    /\ UNCHANGED <<pc, sinkVars>>

-----------------------------------------------------------------------------
(* shutdown, the pool's destructor, and the next start of the program       *)

Shutdown ==
    /\ pc[Main] = "up"
    /\ pc' = [pc EXCEPT ![Main] = "destroy"]
    /\ UNCHANGED <<conf, clock, q, posting, entered, workVars, sinkVars, calls, starts, toStop>>

(* One terminate message for each worker, posted by whoever held the pool   *)
(* last: Main stands for it.                                                *)
TerminateNext ==
    /\ pc[Main] = "destroy"
    /\ Holders = {}
    /\ toStop' = IF toStop > 0 THEN toStop - 1 ELSE 0
    /\ pc' = [pc EXCEPT ![Main] = IF toStop > 0 THEN "enqueue" ELSE "join"]
    /\ UNCHANGED <<conf, clock, q, posting, entered, workVars, sinkVars, calls, starts>>

(* mutant: the workers are not waited for *)
Join_Detached ==
    /\ pc[Main] = "join"
    /\ pc' = [pc EXCEPT ![Main] = "gone"]
    /\ UNCHANGED <<conf, clock, q, posting, entered, workVars, sinkVars, calls, starts, toStop>>

Join ==
    /\ pc[Main] = "join"
    /\ \A w \in Running : wpc[w] = "exited"
    /\ pc' = [pc EXCEPT ![Main] = "gone"]
    /\ UNCHANGED <<conf, clock, q, posting, entered, workVars, sinkVars, calls, starts, toStop>>

FreshPool ==
    /\ q' = circular_q(conf.queue_size)
    /\ pc' = [p \in Posters |-> IF p = Main THEN "start" ELSE "idle"]
    /\ posting' = [p \in Posters |-> IF p = Main THEN Msg("terminate", 0, 0) ELSE None]
    /\ wpc' = [w \in Workers |-> IF wpc[w] = "absent" THEN "absent" ELSE "dequeue"]
    /\ incoming' = [w \in Workers |-> None]
    /\ toStop' = Cardinality(Running)
    /\ entered' = <<>> /\ done' = {} /\ sunk' = {}

(* main returns, and the program is run again over the same directory. *)
Restart ==
    /\ pc[Main] = "gone"
    /\ starts < conf.restarts
    /\ starts' = starts + 1
    /\ FreshPool
    /\ UNCHANGED <<conf, clock, files, sink, failures, calls>>

-----------------------------------------------------------------------------
Init ==
    /\ conf \in Configurations
    /\ clock = Min(conf.days)
    /\ files = [m \in conf.existing |-> {}]
    /\ sink = NewSink(clock)
    /\ failures = conf.failures
    /\ q = circular_q(conf.queue_size)
    /\ pc = [p \in Posters |-> IF p = Main THEN "start" ELSE "idle"]
    /\ posting = [p \in Posters |-> IF p = Main THEN Msg("terminate", 0, 0) ELSE None]
    /\ wpc = [w \in Workers |-> IF w \in conf.workers THEN "dequeue" ELSE "absent"]
    /\ incoming = [w \in Workers |-> None]
    /\ toStop = Cardinality(conf.workers)
    /\ calls = 0 /\ starts = 0
    /\ entered = <<>> /\ done = {} /\ sunk = {}

Advance ==
    /\ clock < Max(conf.days)
    /\ clock' = Min({t \in conf.days : t > clock})
    /\ UNCHANGED <<conf, poolVars, workVars, sinkVars, calls, starts, toStop>>

(* Threads log while the logger exists: after its sink is made. *)
Log(l) ==
    /\ l \in conf.loggers
    /\ pc[Main] \notin {"start", "opened", "gone"}
    /\ \E kind \in conf.kinds : Stamp(l, kind)

Post(p) == WaitForRoom(p) \/ Enqueue(p) \/ Notify(p)

Logger(l) == LockPool(l) \/ Post(l)

MainThread == OpenFirst \/ ConstructSink \/ Post(Main) \/ TerminateNext \/ Join

worker_loop(w) ==
    \/ WaitForMessage(w) \/ WaitTimesOut(w) \/ Dequeue(w) \/ NotifyRoom(w)
    \/ SinkIt(w) \/ WriteToNoFile(w) \/ Flush(w) \/ LeaveLoop(w)

Next ==
    \/ Advance \/ Shutdown \/ Restart \/ MainThread
    \/ \E l \in Loggers : Log(l) \/ Logger(l)
    \/ \E w \in Workers : worker_loop(w)

Spec == Init /\ [][Next]_vars

(* Threads are scheduled; a sleeping worker wakes after ten seconds. *)
FairSpec ==
    /\ Spec
    /\ WF_vars(MainThread)
    /\ \A l \in Loggers : WF_vars(Logger(l))
    /\ \A w \in Workers : WF_vars(worker_loop(w))

-----------------------------------------------------------------------------
(* Properties *)

Places == {"idle", "stamped", "enqueue", "waiting", "notify", "start", "opened", "up",
           "destroy", "join", "gone", "crashed"}

(* The type invariant. *)
TypeOK ==
    /\ conf \in Configurations /\ clock \in conf.days
    /\ DOMAIN files \subseteq Months
    /\ sink.file \in Months /\ sink.open \in BOOLEAN
    /\ q.head \in 0..conf.queue_size /\ q.tail \in 0..conf.queue_size
    /\ pc \in [Posters -> Places]
    /\ wpc \in [Workers -> {"absent", "dequeue", "sleeping", "notify", "process", "exited"}]
    /\ calls \in 0..MaxCalls /\ toStop \in 0..Cardinality(Workers)

Queued   == {i \in 1..MaxCalls : \E k \in 1..size(q) : Items(q)[k].id = i}
InHand   == {i \in 1..MaxCalls : \E w \in Workers : incoming[w].id = i}
Entered  == {entered[k] : k \in DOMAIN entered}

(* Every message that entered the queue is there, in a worker's hands, or   *)
(* dealt with, and in one of these places only; overrun_counter() is        *)
(* exactly the number of the others, and zero if the policy is to block.    *)
(* The destructor returns only when nothing is queued or in hand.           *)
EveryMessageAccounted ==
    LET kept == Queued \cup InHand \cup done
    IN  /\ kept \subseteq Entered
        /\ Queued \cap InHand = {} /\ Queued \cap done = {} /\ InHand \cap done = {}
        /\ q.overrun_counter = Cardinality(Entered \ kept)
        /\ conf.policy = "block" => q.overrun_counter = 0
        /\ pc[Main] = "gone" => empty(q) /\ InHand = {} /\ Holders = {}

(* A flush is a barrier for a pool of one thread: when it is processed, no  *)
(* message that entered before it is still on its way.                      *)
FlushIsABarrier ==
    Cardinality(conf.workers) = 1 =>
        \A w \in conf.workers : wpc[w] = "process" /\ incoming[w].kind = "flush" =>
            \A i, j \in DOMAIN entered :
                i < j /\ entered[j] = incoming[w].id => entered[i] \notin Queued

(* rotation_tp_ is a midnight at which a month begins, and not the one that *)
(* ends more than a month from now: leap years and the turn of the year     *)
(* included.                                                                *)
RotatesAtTheTurn ==
    pc[Main] \notin {"start", "opened"} =>
        \E m \in Months : sink.rotation = MonthStart[m] /\ m <= MonthOf(clock) + 1

(* A message that is sunk in the month in which it was stamped is in that   *)
(* month's file, unless the file was opened by a message of an earlier      *)
(* month.                                                                   *)
PromptMessageInItsFile ==
    \A r \in sunk : r.prompt => r.file = r.month

(* Only a start of the program truncates: a rotation never opens a file     *)
(* this run has written to.  What was written is in its file as long as the *)
(* file exists.                                                             *)
NothingOverwritten ==
    \A r \in sunk : r.file \in DOMAIN files => r.id \in files[r.file]

(* The file turns with the month, and a message is where it belongs. *)
MessagesInTheirFiles == RotatesAtTheTurn /\ PromptMessageInItsFile /\ NothingOverwritten

(* The file that is being written is never deleted.                         *)
CurrentFileExists ==
    pc[Main] # "start" /\ sink.open => sink.file \in DOMAIN files

Last(n) == {sink.opened[k] : k \in {j \in DOMAIN sink.opened : j > Len(sink.opened) - n}}

(* "retain only the last max_files and delete previous", for the files that *)
(* were opened by a rotation: no more of them than max_files exist.         *)
NoMoreThanMaxFiles ==
    conf.max_files > 0 =>
        Cardinality(Last(Len(sink.opened) - 1) \cap DOMAIN files) <= conf.max_files

(* Once as many rotations have happened as files are kept, the last         *)
(* max_files files are there, but for those the periodical sink deletes     *)
(* because of their age.                                                    *)
LastFilesKept ==
    conf.max_files > 0 /\ Len(sink.opened) > conf.max_files =>
        \A m \in Last(conf.max_files) :
            m \in DOMAIN files \/ (conf.periodical /\ m + 6 <= MonthOf(sink.stamp))

(* The periodical sink deletes the file of seven months ago, if it opens    *)
(* the new one on one of the first 28 days of a month, and if it does not   *)
(* count files it keeps the later ones.                                     *)
SevenMonthsKept ==
    LET month == MonthOf(sink.stamp)
    IN  conf.periodical /\ pc[Main] \notin {"start", "opened"} /\ DayOf(sink.stamp) <= 28 =>
            /\ month - 7 \notin DOMAIN files
            /\ conf.max_files = 0 => conf.existing \cap ((month - 6)..month) \subseteq DOMAIN files

(* Deletion takes the files it should, and no other. *)
TheRightFilesKept == CurrentFileExists /\ NoMoreThanMaxFiles /\ LastFilesKept /\ SevenMonthsKept

(* A thread alone writes only to a file that is open: after a failed open   *)
(* its next message opens the file again.                                   *)
WritesToAnOpenFile ==
    Cardinality(conf.loggers) = 1 /\ Cardinality(conf.workers) = 1 => pc[Main] # "crashed"

(* shutdown returns: every thread that posts is let in or through, and each *)
(* worker gets its message to terminate.                                    *)
ShutdownReturns == pc[Main] = "destroy" ~> pc[Main] \in {"gone", "crashed"}

Abstract == INSTANCE BoundedQueue WITH
    capacity <- conf.queue_size,
    items <- Items(q),
    overrun <- q.overrun_counter

(* The circular queue, with its indices, is the bounded queue.              *)
ImplementsBoundedQueue == Abstract!Spec

-----------------------------------------------------------------------------
(* What the class comment says, and the code does not do *)

(* "If max_files > 0, retain only the last max_files": also the first ones. *)
RetainsTheLast ==
    conf.max_files > 0 /\ pc[Main] = "up" => Last(conf.max_files) \subseteq DOMAIN files
=============================================================================
