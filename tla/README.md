# Verification of memo-opensource

The repository is a collection of notes on open-source libraries: one directory per library, most
of them vendored headers with small programs that call them. A few directories hold programs with a
logic of their own and with concurrency. Those are what this project models, checks with TLC and
proves with TLAPS:

* `readerwriterqueue`: a lock-free single-producer single-consumer queue, a semaphore, and a
  blocking queue made of the two, with test programs of the repository's own;
* `threadpool`: a thread pool;
* `libdoip/hello`: a diagnostics-over-IP server, client and simulator;
* `spdlog`: the asynchronous logger, with the two file sinks the repository adds to it;
* `curl/02_download`: a downloader that fetches the slices of a file with many threads.

Paths below are relative to the root of the repository.

## 1. Inventory

### The components that carry logic

| component | state | operations | who calls whom |
|---|---|---|---|
| ReaderWriterQueue (`src/readerwriterqueue/readerwriterqueue.h`) | ring of blocks, each with `front`, `tail` and the local copies of them; `frontBlock`, `tailBlock` | enqueue, try_enqueue, try_dequeue, pop, peek, size_approx, constructor, destructor | one producer thread, one consumer thread, no lock |
| LightweightSemaphore (`src/readerwriterqueue/atomicops.h`) | `m_count`, the kernel semaphore `m_sema` | tryWait, wait (untimed and timed), signal, availableApprox | the blocking queue |
| BlockingReaderWriterQueue (same header) | inner queue and semaphore | the queue's operations, wait_dequeue, wait_dequeue_timed | producer: queue then semaphore; consumer: semaphore then queue |
| ThreadPool (`src/threadpool/ThreadPool.h`) | `tasks`, `workers`, `stop`, mutex, condition variable | constructor, worker loop, enqueue, destructor | owner, workers, and tasks that enqueue |
| DoIP messages (`libdoipcommon`, `RoutingActivationHandler.cpp`) | none | parseGenericHeader, createGenericHeader, parseRoutingActivation, checkSourceAddress | server and client |
| DoIP TCP server (`DoIPConnection.cpp`, `AliveCheckTimer.cpp`, `DoIPServer.cpp`, `DoIPSimulator.cpp`) | `connection_`, `tcpSocket`, `routedClientAddress`, timer flags, descriptors | listenTcp, receiveTcpMessage, reactOnReceivedTcpMessage, aliveCheckTimeout, waitForResponse | a receiving thread and a timer thread share DoIPConnection; callbacks into the simulator |
| DoIP UDP server (`DoIPServer.cpp`) | `serverAddress`, `clientAddress`, `data` | receiveUdpMessage, sendUdpMessage, sendVehicleAnnouncement | a listener thread and main share one DoIPServer |
| DoIP client (`DoIPClient.cpp`) | socket, `emptyMessageCounter` | receiveMessage, reconnectServer, send functions | one thread |
| spdlog (`mpmc_blocking_q.h`, `circular_q.h`, `thread_pool-inl.h`, `async_logger-inl.h`) | ring of messages, mutex, two condition variables, overrun counter, worker threads | log, flush, post, worker loop, pool destructor | any thread posts, the workers call the sink |
| spdlog file sinks (`monthly_file_sink.h`, `periodical_file_sink.h`, `file_helper-inl.h`) | the open file, the next rotation time, the queue of old file names; the files on the disk | construct, sink_it, rotate, delete_old | the workers, under the sink's mutex |
| curl downloader (`src/curl/02_download/main.c`) | slices, one shared `FILE`, two mutexes | slice_file, thread_func, write_callback | threads through libcurl's callbacks |
| md5, sha256 (`src/md5`, `src/md5-optimisation`, `src/sha256`) | block buffer and length | init, update, final | sequential |

All other directories are listed in `PROJECT.json` with the reason for leaving them out: documents
without a program, vendored or generated code, or sequential examples of calling a library.

### What is hard in them

* *Interleaving without locks*: both threads of the queue read what the other writes, and the
  consumer leaves a block it found empty a moment ago (`readerwriterqueue.h:327`).
* *A count and a kernel object that must agree* although they are changed in separate steps, while
  a timed wait gives up (`atomicops.h:611`).
* *A condition variable, a stop flag and a destructor*: enqueue from a task, spurious wakeups and
  the join (`ThreadPool.h:47`, `:77`, `:93`).
* *Two threads that close one descriptor*, whose number the kernel gives away again
  (`DoIPConnection.cpp:21`), and an object replaced while its timer thread runs
  (`DoIPConnection.h:48`).
* *Messages in an order the handler does not expect*, and fields that survive a connection.
* *An address shared field by field* between a reply and an announcement (`DoIPServer.cpp:121`).
* *A bounded queue with two overflow policies* that workers empty, loggers fill and a destructor waits
  for, with notifications after the unlock (`mpmc_blocking_q.h:36`, `circular_q.h:56`).
* *Two clocks*: the rotation is decided by the time stamp of a message, the next one computed from
  the clock (`monthly_file_sink.h:153`); and months that are not equally long
  (`periodical_file_sink.h:230`).
* *One `FILE` for all threads*: fseek and fwrite must stay together, and several threads may open it
  (`main.c:248`, `:483`).

`PROJECT.json` lists every hazard at its line with the properties that cover it, or the reason why
none does yet.

## 2. Modules and code

| module | models | grain of a step |
|---|---|---|
| `SPSCQueue` | what the queue promises: a sequence with enqueue, dequeue, peek, refusals and an approximate size | one operation |
| `ReaderWriterQueue` | the lock-free queue | at most one access to memory the other thread writes |
| `ReaderWriterQueueMapping` | the refinement mapping to `SPSCQueue` | |
| `ReaderWriterQueueMC` | two queues to check | |
| `LightweightSemaphore` | the semaphore over the kernel's | one access to `m_count` or `m_sema` |
| `BlockingReaderWriterQueue` | extends it with the inner queue as the sequence `SPSCQueue` describes | as the semaphore |
| `ThreadPool` | the pool | one critical section boundary, wait or notify |
| `DoIPMessage` | headers and routing activation as functions | |
| `DoIPServer` | the TCP server, its timer thread, the descriptor table, and DoIPClient programs as its clients | one access to a field both threads use, or one system call |
| `DoIPServerMC` | the scripts clients play | |
| `DoIPUdp`, `DoIPUdpMC` | the UDP listener and the announcing main thread, and what a client reads of their datagrams | one field of `clientAddress`, or one system call |
| `BoundedQueue` | what the logger's queue promises: a sequence that loses only its oldest item, and only to an overrun | one operation |
| `CircularQueue` | `circular_q` as functions on a record | |
| `FileSink` | the calendar and the two file sinks as functions on a record of the sink and its files | one message |
| `AsyncLogger` | loggers, workers, the blocking queue, the pool's destructor, the sink under its mutex | one critical section, wait or notify |
| `AsyncLoggerMC` | the programs to check | |
| `Downloader` | the downloader's threads | one access to what the threads share |
| `..._proofs` | the theorems and lemmas about the module (or modules) before `_proofs` | |

Composition. `BlockingReaderWriterQueue` composes the semaphore with the *abstract* queue: the run
`rwq` shows that the concrete queue implements it, so the semaphore's interleavings are not multiplied
with those of the ring. `DoIPServer` and `DoIPUdp` both extend `DoIPMessage`; the first composes the
server with clients, the second with the parser of a client (`ReadByClient`). `AsyncLogger` composes
`CircularQueue`, which holds the messages, with `FileSink`, which the workers call.

Definitions carry the names of the code. A local variable, a register or a return address is the
value of a `pc`; a `Block*` is an index into a sequence, 0 for `nullptr`. Definitions whose name ends
in `_Something` and that say "mutant" in their comment are plausible bugs of the definition before
the underscore; no specification uses them, they show that a property can fail. Some properties are
conjunctions of named parts that answer one question (`TheRightFilesKept`, `MessagesInTheirFiles`,
`FileIsRight`, `SlicesDealtOut`, `CallsEnd`, `EachToItsAddress`, ...); each part has its own comment.

Several modules take their parameters from a record chosen in `Init` (`conf \in Configurations`):
one run then checks several programs, and no behaviour changes its program.

### ReaderWriterQueue

`Init` is the constructor (`:105-162`), with its two ways of sizing the first block. The producer's
steps are `EnqueueBegin` to `Link` (`inner_enqueue`, `:532-645`): load front, construct in the slot,
publish the tail, or go to the next block, or allocate one and link it in. The consumer's are
`DequeueBegin` to `Release` (`:280-377`), the same for `pop` and `peek`. `SizeBegin` to `SizeNext` is
the walk of `size_approx`. When both threads are idle the destructor may walk the ring (`:205`).
Elements are numbered in the order they are enqueued; `Raw` marks a slot without a live object.
Memory is sequentially consistent: the fences of the code are taken to work, and a missing fence is
out of the model's reach. `CeilToPow2` is the least of the powers of two (`Power`, a recursive
function) that is not below its argument. `SlotsExclusive` says of the slot that is read not only that
its element lives but that it is the first one not taken yet: the queue is first in, first out.

### LightweightSemaphore and the blocking queue

A waiter tries (`tryWait`), spins, decrements, sleeps in the kernel, times out, restores the count,
or finds it was signalled after all and tries the kernel once more (`:585-626`). The load of the spin
loop and the decrement after it are two steps. The spin count of 1024 is any number of turns.
`Dequeue` has no action for an empty queue: there the code's `assert(success)` stops the program.

### ThreadPool

`LockQueue`, `TestPredicate`, `Block`, `WakeUp` are `condition.wait` with its predicate; a spurious
wakeup is a step of the environment. `EnqueueBegin` may be called by the owner and by a running
task. `Destructor` sets `stop` under the lock, notifies and joins.

### DoIPServer

`connection` is the object `connection_` points to. The receiving thread goes accept, replace
`connection_` (three steps: the callbacks of the old one are destroyed, its timer is disabled, and
joined), test `isSocketActive`, receive header and payload, reset the timer, react, and close in two
steps. The timer thread tests, expires, runs `closeSocket` with its read, its close and its assignment
apart, and calls `close_connection`. The members of `DoIPConnection` are destroyed in reverse order, so
`close_connection` goes (`DoIPConnection.h:50`) before `~AliveCheckTimer` (`:48`) disables and joins.
What it calls (`DoIPSimulator.cpp:41`) is larger than the buffer inside a `std::function` and therefore on
the heap: a timer that calls back after that (`DoIPConnection.cpp:14`) calls a freed functor.
`TimerCallsBack` leaves open whether that works or crashes (`pc = "crashed"`).

The kernel is modelled as far as the code depends on it: `accept` takes the lowest free number when
it is *called*; `close` frees a number at once, but a `recv` that sleeps keeps the socket, so a client
is connected as long as a number or a sleeping `recv` refers to it; `write` to a peer that has answered
with RST raises SIGPIPE. This is how Linux behaves. The clock is abstract: `idle` says that
`maxSeconds` have passed since the last reset.

A message reaches the server in its two parts, and a `recv` may return a fragment of a part, after
which the loop reads `tcpSocket` anew. The clients are programs over `DoIPClient`: a script of the
messages its send functions make and of calls of `receiveMessage`, which peeks at a header with
MSG_PEEK, reads one message, and exits when the server has closed. A patient client plays its script
to the end; another may leave after any part (`SendPart` records in `halfSent` that it is between the
two). A reply reaches the client in one piece: of a reply that
is split `receiveMessage` would see a short header and exit, which here is a client that leaves.

What the server promises to one client about another (`DeliveredWasActivated`, `NothingLeftOpen`) is
stated for `Undisturbed` states: there is no timer, or it has not closed descriptor 0 yet. The
condition was found by trying the proof without it. Once the timer of an ended connection has closed
descriptor 0, a second client is accepted on 0, taken for closed and left unserved; a third one
activates routing; if its own timer then sets `tcpSocket` to 0 between its header and its payload,
the payload is read from the *second* client's socket and delivered as the third one's. It takes three
clients and a timer, more than `doip_sessions` has; `doip_ready` shows the cause.

### DoIPUdp

`CopyPort` and `CopyAddress` are the two assignments of `sendUdpMessage`, `BroadcastPort` and
`BroadcastAddress` those of `sendVehicleAnnouncement`. A datagram that is too short for a header yields
an indeterminate action, one of those the stack may hold. What the server sends carries the header
`createGenericHeader` makes, so that `ClientsUnderstand` can ask what the client's
`parseGenericHeader` makes of it.

### AsyncLogger

`Log` begins a call of `log` or `flush`: the message is stamped. `LockPool` takes hold of the pool,
`WaitForRoom` and `Enqueue` are `enqueue` and `enqueue_nowait` under the queue's mutex; `Notify`, after the
unlock, is a step of its own. Workers wait for a message, take it, and process it: a log message
goes to the sink under the sink's mutex, a flush is a barrier, a terminate ends the worker. The main
thread is the last holder of the pool: its destructor posts one terminate message for each worker and
joins them. A call that finds the pool gone raises the exception that `log` reports to the error
handler and `flush` passes to its caller. A program may be started a second time on the files the
first run left (`conf.restarts`).

The unit of time is a day. `MonthStart` is the Gregorian calendar from `FirstMonth` to `LastMonth` in
closed form: the days of the years before, corrected by the leap days, and those of the months before.
The sinks' own rule for leap years treats 3200, and every multiple of it, as a common year
(`Leap`); the assumption `LastMonth < 12 * 3200` ends the calendar before the two differ, and makes
`next_rotation_tp` agree with the calendar (lemma `RotationAtTheTurn`). `FileSink` is a set of
functions on one record: the current file or none, the next rotation, the queue of names to delete and
the files on the disk with what they hold. A sink's rotation is part of the step that sinks the message,
as in the code, where both happen under the sink's mutex. Opening a file may fail, `conf.failures`
times; then the current file is NULL, and a message written to it crashes the program
(`pc = "crashed"`).

### Downloader

One thread after another is created, and creation may fail. A thread tests `g_pFile`, opens the file, takes `g_mutex_index`, looks for a slice, and asks for its range;
what arrives goes through `write_callback` with its lock, seek and write, and with the branch for a
piece that is longer than what is left of the slice. `streams` holds every FILE that `fopen` has
returned, each with its own position; `disk` is what each path holds at each position. A transfer may
time out.

## 3. Runs

Passing runs:

| run | bounds | states | shows |
|---|---|---|---|
| `rwq` | two queues: 5 reserved blocks of 2 slots with one allocated, 8 elements; and a block of 2, then one of 4, 6 elements, both threads calling size_approx | 431,025 | no data race on a slot, ring intact, no element lost, doubled or reordered, the one read is the first not taken, every live element destroyed once, the constructor reserves what it promises; refinement of `SPSCQueue` |
| `brwq_spsc` | 1 producer, 1 consumer, 5 elements, all kinds of wait | 1,096 | permits mean elements; no lost wakeup, no stale token; calls end and every element arrives |
| `threadpool_three` | 3 workers, 3 tasks, 1 spurious wakeup | 30,630 | no task lost or run twice; the destructor returns |
| `doip_sessions` | 2 clients; 8 patient scripts in every pair without the timer, 3 impatient ones in every pair with it | 391,009 | every branch of the handler; each patient client served to the end and its socket released; what holds although two threads close one socket |
| `doip_udp_quiet` | 2 testers, 3 datagrams of 8 kinds, 3 announcements | 63,109 | replies reach their sender, name the first fault, and are understood; announcements are not answered |
| `log_async` | 8 programs: queues of 1 and 2, both policies, 1 or 2 loggers and workers, 2 or 3 calls, up to 4 days at the ends of February and March 2024, both sinks, 0 to 2 files to keep, one failed open, one restart | 267,200 | every message is written, overrun or refused, and counted; a flush is a barrier; messages are in the file of their month; the right files are kept; the queue implements `BoundedQueue`; the program ends |
| `downloader` | 3 threads, two created before the file is open; files of 1, 4 and 5 bytes | 396,544 | each slice is taken once and the slices cover the file; with one FILE the bytes are where they belong; the threads end |

Why the bounds are enough.

* *Queue.* The ring needs three blocks for the producer to go around it while the consumer is inside
  (five are the fewest the constructor reserves once it reserves several), a block to allocate in the
  middle of it, and more elements than slots to wrap in each block. The constructor's other way, one
  block that may be smaller than `MAX_BLOCK_SIZE`, is the second queue.
* *Semaphore.* With one waiter the count is -1 or more, and five elements let the consumer go through
  all kinds of wait with signals left over.
* *Pool.* Three workers allow one that runs a task which enqueues, one that leaves and one that sleeps.
* *TCP.* The server serves one client at a time, so two clients show everything a connection may
  inherit from the one before. Clients are interchangeable, so each pair of scripts is played in one
  assignment. `doip_ready` needs three, since descriptor 0 is closed after the second `accept` was
  called.
* *UDP.* Two testers are enough to confuse two addresses, three announcements to have one before, one
  during and one after a reply, and the datagrams have each pair of faults.
* *Logger.* A queue of one makes every post wait or overrun, one of two lets the ring's head move
  while it is not empty; two threads post and two workers take. The four days are the last and first
  days around a short month and a long one, in a leap year, so that every rotation is one day or one
  month away and seven months back meets February. Three calls rotate twice, which a sink that keeps
  two files needs to delete one.
* *Downloader.* Three threads are the fewest with a first, a middle and a last slice. With 3 threads a
  file of 5 has a rest in its last slice, one of 4 an empty last slice, and one of 1 is shorter than
  the number of slices. `Racing` bounds the threads that are created while none has opened the file; more
  than two do nothing two cannot do, and the theorems hold without the bound.

Runs that end in a violation, each against a sentence of a document, comment or assertion that
`PROJECT.json` quotes under `findings`:

* `brwq_forth`: `b_forth.cpp` reads a single-consumer queue from three threads; the queue's assertion fails.
* `doip_ready`: the timer of a connection that has ended closes descriptor 0; a later client is
  accepted on 0, which the code takes for "closed", and is never served.
* `doip_silent`: the timer closes the number while `recv` sleeps on the socket; the silent client is
  not disconnected and nobody else is served.
* `doip_udp_reply`: a reply and the announcements share one address, field by field; a reply goes to
  the broadcast address or port.
* `log_retains`: the monthly sink fills its queue of old files by going back one day at a time, so
  one month is queued `max_files` times; once the queue is full of it, the first rotation deletes a
  file that is among the last `max_files`.

Reading the code for the models showed more, for which there is no run because the same cause is
already shown, because no sentence of the repository promises otherwise, or because one message is
enough to see it:

* The timer thread runs `closeSocket` without a lock: it may close the next client's socket
  (`DoIPConnection.cpp:21`), make a reply go to descriptor 0 (`:186`), or call `close_connection`
  after it was freed (`:14`; section 2). All three steps are in `DoIPServer`, and `JoinReturns` says
  when the last one can end the program: only if the timer was expiring while the next client was
  accepted.
* A diagnostic message before any activation reads through a null pointer (`:262`; `pc = "crashed"`).
  One from an address that is not registered is acknowledged and then dropped (`:156`). After a
  negative acknowledgement the connection stays (`DoIPSimulator.cpp:102`), after a wrong version or
  length it does not (`DoIPConnection.cpp:111`); `消息.md` says the opposite of both (`:216`, `:37`).
  No property takes either for correct: `DeniedStaysDenied` speaks of denied activations only, for which
  `消息.md:57` and `:76` say what the code does.
* A write to a client that has left raises SIGPIPE, which nothing handles (`:186`; `pc = "killed"`).
* `parseGenericHeader` takes an acknowledgement with a payload that is too short for a good one
  (`DoIPGenericHeaderHandler.cpp:176`; `FallsThrough`), and returns an uninitialised result for fewer
  than eight bytes (`:206`).
* The address of the announcements is set once, before their loop (`DoIPServer.cpp:230`): after a
  reply in between, the remaining ones go to the tester.
* `DoIPClient::receiveMessage` calls `exit(-1)` on an empty read, so its counter of empty messages
  and `reconnectServer` are never reached.
* Sinks: with two loggers, a message stamped before the turn of the month may reach the sink after the
  new file failed to open, and is written to the NULL file. When the month turns while the sink is
  being constructed, the first messages go to the file of the month before. On March 31 the periodical
  sink deletes the file of six months ago, not of seven.
* Downloader: several threads that find `g_pFile` null each open the file for writing and truncate it;
  a thread whose `g_pFile` is exchanged between its fseek and its fwrite writes to the wrong position;
  a thread that opens a path which another one is still composing gets NULL, and all later writes
  crash or nothing is downloaded. A file shorter than `THREAD_NUM - 1` bytes is not downloaded at all,
  and one shorter than `(THREAD_NUM - 1) * (THREAD_NUM - 2)` (812 bytes for the program's 30 threads)
  loses its tail. `ok` is only set when the server sends more than the slice, and a slice whose
  transfer timed out is not asked for again.

Deadlock is not checked in the runs where the system stops by itself: every element, task, call or
slice is used up, every client has left, or the process has ended.

### Fairness

* Blocking queue: weak fairness of the consumer, which calls in a loop as the test programs do, and
  of a signal that has begun. Nothing obliges the producer to enqueue.
* Thread pool: weak fairness of each worker (tasks return), of an enqueue in progress and of the
  destructor once main has reached it.
* DoIP server: weak fairness of both threads, and strong fairness of the `recv` that completes a
  part: a message has finitely many bytes, so the fragments end. `LiveSpec` adds clients that go on
  with what they began; only `EverySessionEnds` needs it, because the server serves one client at a
  time.
* UDP: weak fairness of both threads.
* Logger: weak fairness of main, of every worker, and of every logger within a call: a mutex is
  released, a notified thread runs, and a sleeping worker wakes after ten seconds at the latest. No
  logger is obliged to log, and nothing obliges main to shut down or to start again.
* Downloader: weak fairness of every thread; a transfer ends, since libcurl is given a time limit.

The clock (`Elapse`, `Advance`), the pool's spurious wakeups, `Connect` and `Arrive` are never fair.

## 4. Proofs

`tlapm` checks every proof; each theorem holds for all values of the constants that satisfy the
assumptions named in the modules. Every invariant below was checked by TLC before it was proved. The
assumptions are about the constants alone: finite sets of threads, blocks of at least two slots, a
calendar of at least eight months before the year 3200, and, for what a program is configured with
(`conf \in Configurations`), that each configuration is of its type and the calendar goes as far back as
its sink looks.

**BlockingReaderWriterQueue_proofs.** `TypeCorrect` holds for any waiters and signalers. The other
theorems assume one waiter and at most one signaler, which is the contract of the class
(`readerwriterqueue.h:30`); `brwq_forth` shows that they fail without it. No property is inductive
alone: whether a permit means an element depends on the tokens in the kernel and on where each thread
is. The invariant `IInv` has two equations (theorem `PermitsAccountedFor`): `Accounted`, which says
the queue's length is the count, corrected by the element already queued but not yet signalled and
the permit already taken but not yet used; and `TokenFollowsCount`, which says how many kernel tokens
each position of the waiter allows. `PermitMeansElement`, `AssertionsNeverFail`,
`TokensReachTheirWaiter` and `SizeIsALowerBound` follow from it without induction.

**ThreadPool_proofs.** For every finite set of workers. `ControlHolds` first: the mutex is held
exactly by the thread inside a critical section, `stop` is set exactly after the destructor's step, a
worker holds a task exactly while it runs or enqueues, a worker that exited left a stopped and empty
pool, and a destroyed pool has joined all. With it `EachTaskRunsOnce` is inductive. `NoTaskAfterAnExit`
and `DestructorDrains` are consequences.

**DoIPUdp_proofs.** For any testers and any datagrams with a header of four fields. Two lemmas about
`parseGenericHeader` carry it: `FaultFound`, that a NACK for a whole header is one for its first fault,
and `NackRead`/`ResponseRead`, that the two headers this server makes are read as what they are, which
needs `LengthSurvives`: the four bytes hold every length below 2^32. The invariant follows a datagram
from the socket to the reply (`DatagramsTyped`, `ReplyMade`, `SentMade`); `TypeCorrect`,
`NacksNameTheFirstFault` and `ClientsReadEveryMessage` are read off it, with or without `Quiet`.
`EachIsSentToItsAddress` assumes `Quiet`, that no datagram arrives before the last announcement, and
adds `OneWriter`: until then the listener stays at `recvfrom`, so the fields of `clientAddress` have
one writer at a time. `doip_udp_reply` shows that the assumption is needed.

**CircularQueue_proofs.** `PushAppends`, `PopTakesFirst` and `PushOverruns` say what the operations of
`circular_q` do to the sequence the ring stands for: append, take the first, and, on a full ring, drop
the first and append. They rest on the ring being well-formed (head, tail and size agree), which each
operation preserves.

**AsyncLogger_proofs.** For any loggers, workers, queue sizes of at least one and programs, restarts
included. The invariant is built in layers.

* *Messages* (`MInv`). The history `entered` is cut in two by one number: what comes after it is
  still in the queue, in that order; what comes before has left it, and is with a worker, done or
  overrun (`Ordered`, `Counted`). `Ending` says that the pool's destructor posts one terminate for
  each worker, behind everything else. `MessagesAccounted` and `FlushWaits` are read off it, the
  second because a flush that is with a worker has everything before it on the other side of the
  cut.
* *Time stamps* (`Stamped`, `InSequence`). The messages under way were stamped in the order of their
  numbers and not in the future; those of a logger alone are also queued in that order.
* *The sink* (`OfSink`, `Reopens`). The rotation is due at the turn of a month and not before the
  end of the month the open file is named after, so no message goes back to a file, which is
  `RightFiles`; after a failed open the next message is late enough to try again when one logger and
  one worker are alone, which is `OpenFileWritten`.
* *Which files are kept* (`Retention`, for `FilesKept`). Each rotation opens the file of a later
  month (`InOrder`). The queue of names holds the last files opened, or older ones as long as it is
  not full of those (`ByCount`: `Rising`, `Holding`, `Enough`); so the name that falls out of it is
  never one of the last `max_files` (`OldestLeft`, `DeletedOld`, `AtMostMaxFiles`). `ByAge` and
  `NoneYounger` say which file the periodical sink deletes, and that it deletes no younger one; they
  rest on `SevenMonthsBack`, what seven steps of `before_7_month` come to.
* *The calendar.* `MonthOfDay`: a day has one month. `RotationAtTheTurn`: `next_rotation_tp` is the
  first day of the next month (`NextMonth`: the sinks' lengths of the months are those of the
  calendar). `MonthBack`: what one step of `before_7_month` comes to, with the days after the 28th
  apart.

`QueueImplemented`: the ring under its mutex, with its two policies, implements `BoundedQueue`. The
mapping is the ring's sequence; each action of the logger is one operation of `BoundedQueue` or a
stutter, and a new pool starts with an empty queue because the old one is left empty
(`NothingLeftQueued`).

Two properties were corrected by these proofs, since programs outside the run's eight violate what
was stated before. A periodical sink that is told to keep `max_files` files also deletes by age, so
it may keep fewer than "the last max_files" (`periodical_file_sink.h:64`); `LastFilesKept` now
excepts the files older than that. After a rotation that failed to open its file nothing is deleted,
so `SevenMonthsKept` speaks of the month the sink's file is named after, not of today's.

**DoIPServer_proofs.** For any number of clients, every script and any inactivity time. `IInv` is
`TypeOK` and nine named parts. The first six hold whatever the timer does: who has which descriptor
(`Descriptors`), that a new client is unknown to the server (`Newcomers`), that a timer thread runs
exactly while a connection is active (`Threads`, for `TimerThreadIsJoined`), that `tcpSocket` is the
accepted number or 0 (`OwnSocket`), that whoever is read from or answered has no other descriptor
(`Peer`), and that a client the server turned away, by a denial or after an unusable header, has none
but the one about to be closed (`Refusals`, from which `DenialIsFinal` takes the denials). None of the
six needs the callback to work: a crash leaves them true. The other three are conditional on descriptor 0 being open: data was delivered
only for an activated address (`Delivered`), the routed address was activated by the client of this
connection (`Routes`), and the accepted socket is the only one (`Released`). `Untimed` is a second
invariant: without an inactivity time nothing closes descriptor 0. `DataNeedsActivation` and
`SocketsAreReleased` follow from the two.

**Downloader_proofs.** For any number of threads from two, any lengths and any number of racing
threads. `Partition` is arithmetic: a file that is long enough is cut into adjacent slices that
cover it without overlap. `SlicesAreDealtOut` adds that no two threads take one slice: the invariant
(`Dealt`) says that the slice of every thread that has one is marked as in use, and that only the
holder of `g_mutex_index` is between its search and its mark. `TypeCorrect` needs `Called`: a thread
that stores the result of `fopen` has called it. `FileRight` needs `FInv`: with one opener there is
one stream (`Opening`) and the path it opens is final (`Paths`); a thread asks for the rest of its
slice and receives no more than that (`Ranges`); between fseek and fwrite the stream stands where
the slice goes on (`Positions`); what a thread has written is on the disk (`OnDisk`). At the end
every byte is in a slice, and every slice was taken by the pigeonhole principle (`EverySliceTaken`).

**ReaderWriterQueue_proofs.** For every queue size, block size and number of elements, and both ways
the constructor sizes its blocks. `IInv` is eight parts. `Ring` states the ring of blocks without a
walk: no two blocks have one successor, no proper part of the linked blocks is closed under `next`,
and the blocks in use (`InUse`) are a stretch from the front block to the tail block, with empty
ones outside. `Order` keeps the local copies of `front` and `tail` behind what they copy;
`ProducerAt` and `ConsumerAt` say what each thread knows at each of its steps, such as that a front
block found empty stays empty once the producer was seen to have left it. `Filled`, `Inside` and
`Chain` are about elements: a slot holds a live one exactly between front and tail, their numbers
are consecutive within a block, and from one block to the next. `ThreadsKeepApart` (the two threads
never touch one slot, and the one read is the first not taken), `AssertionsNeverFail` and
`NothingLeaks` follow. `TheRingIsWhole` speaks of walking the ring with `next`; `Iteration` and
`RoundTrip` get it from that.

`FirstInFirstOut` reads the elements off the blocks: the concatenation of the segments from front to
tail is the sequence of the numbers from `taken + 1` to `sent` (`Unread`). `Segments` gives one
block from `Inside`, `ElementsRun` joins them by `Chain`, and `Numbers` puts back the element that a
dequeue has moved out and not yet released.

`QueueImplemented` is the refinement of `SPSCQueue`. What enters and leaves is settled by
`FirstInFirstOut`; what a call is refused for, and what `size_approx` returns, depends on how many
elements the blocks hold, and takes a second invariant, `RInv`:

* `Total`: the slots taken in the linked blocks are `sent - taken` in number, and one more while the
  next block is filled and not yet the tail block; `LengthAtCall`: during a call the length moves
  only the way the other thread moves it.
* `Full`: the blocks in use between the first and the last have no slot to spare, nor has the tail
  block once the producer looks for another; `Reserved`: the blocks the constructor made are all
  linked and none is smaller. The two give `NoRoom`: if the next block is the front block there were
  `size` elements at the call.
* `Refusals`: what the producer found at its load of `front`, and the consumer at its load of `tail`, still
  justifies the refusal at the end of the call.
* `ProducerTally`, `ConsumerTally`: the blocks `size_approx` has counted are a stretch of the ring
  (`Stretch`), which grows when the producer links a block into it. The producer's sum is not less
  than what that stretch holds, and with the rest not more than the length at the call; the
  consumer's is not more, and with the rest not less than the length at the call. When the walk is
  back the stretch is the ring (`AllCounted`).

`StepCounts` shows that each action keeps `RInv`, by how each store changes the number of slots
taken in any set of blocks (`OneMore`, `OneLess`, `SameAmounts`, from `OneMoreOrLess`). Then each
action is a step of `SPSCQueue` or a stutter (`StepIsAllowed`): the last store of an enqueue, the
store to `front` of a dequeue, the read of a peek, the returns of the refused calls and of `size_approx`.

Some of these speak of recursive functions (`Power`, `Hop`, `before_7_month`, `init_filenames_q`).
Where a fact about every argument is needed, it is proved from the least argument for which it would
fail (`LeastNumber`, from `WellFoundedInduction` or `FiniteSetTheorems`), or the recursion is unrolled a
fixed number of times (`SevenMonthsBack`).

Only model-checked is liveness (`CallsEnd`, `DestructorReturns`, `EveryTaskRuns`, `JoinReturns`,
`EverySessionEnds`, `EveryRequestIsAnswered`, `ShutdownReturns`, `ThreadsEnd`), which the prover does
not treat. Every other property of the passing runs is stated by a theorem.

## 5. Not modelled, and why

* Weak memory: the queue's fences. A module with store buffers is planned.
* Move construction and assignment of the queues, which the code calls not thread-safe.
* Number wrap-around of the queue's counters and of `m_count`: not reachable with the memory there is.
* Errors of `socket`, `bind`, `accept` and exhaustion of descriptors in libdoip: the code ignores them.
* The layout of DoIP payloads and everything printed.
* spdlog: daylight saving time, removals that fail, backtraces, the periodic flusher and the sinks
  that are spdlog's own; FILE buffers and crashes of the process (a flush is modelled as the barrier it
  is in the queue, not as what reaches the disk). A queue of size zero, which the ring's arithmetic
  does not allow.
* Downloader: the list of URLs, the request for the length with its error (`main.c:74`), an `fopen` that
  fails on anything but a directory (`:485`; the thread ends as it does there), main's `exit` after `sleep(20)` while
  transfers of up to ten seconds may still run, and FILE buffers. The server is assumed to honour
  ranges.
* The digests (`md5`, `sha256`): sequential code; the streaming update is in the plan.
* All vendored libraries (`sqlite_orm`, `nlohmann-json`, `mongoose`, `zip`, generated protobuf and
  others): more than nine tenths of the repository's lines. The share of those lines that is
  modelled is small for that reason.

## 6. Plan

The first seven groups are done.

1. Lock-free queue, its abstract specification and the refinement; semaphore; blocking queue and its
   theorems.
2. Thread pool and its theorems.
3. DoIP messages, TCP server and its clients, UDP server and its theorems.
4. spdlog: the bounded queue as a refinement, the pool, the sinks over a calendar.
5. curl downloader and its theorems.
6. Theorems for every safety invariant of the runs, and for the refinement of `BoundedQueue`.
7. `FirstInFirstOut` and the refinement of `SPSCQueue` as a theorem, with the invariant of the counts.
8. Streaming digests: update in any split gives the blocks and the padding of the whole message.
9. Store buffers for the queue's fences.
