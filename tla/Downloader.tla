------------------------------ MODULE Downloader ------------------------------
(***************************************************************************)
(* curl/02_download/main.c: main cuts a file into as many slices as there   *)
(* are threads, each thread takes a slice and lets libcurl fetch it, and    *)
(* libcurl's callback writes what arrives to one FILE all threads share.    *)
(* A step performs at most one access to what the threads share.            *)
(*                                                                         *)
(* A byte of the source is its position.  The server honours ranges; bytes  *)
(* leave the FILE's buffer at once (exit writes out the buffer anyway).     *)
(***************************************************************************)
EXTENDS Integers, Sequences, FiniteSets

CONSTANTS THREAD_NUM,    \* threads, and slices
          Lengths,       \* what the server may say the length of the file is
          Racing         \* bound: threads created before the file is open

ASSUME DownloaderAssumption ==
    /\ THREAD_NUM \in Nat /\ THREAD_NUM >= 2
    /\ Lengths \subseteq Nat
    /\ Racing \in Nat

Threads == 0..(THREAD_NUM - 1)
Slices  == 0..(THREAD_NUM - 1)

VARIABLES
    file_length,   \* what get_download_file_length returned
    g_interval,    \* the slices
    path,          \* g_full_download_path: how often the file's name follows the directory
    g_pFile,       \* the FILE all threads write to: an index into streams, 0 for NULL
    streams,       \* every FILE fopen returned
    disk,          \* for each path, what each position of the file holds
    g_mutex_index, \* the thread that holds it
    g_mutex,       \* the thread that holds it
    created,       \* the number of threads main has created
    pc,            \* where each thread is
    index,         \* the slice each thread takes
    opened,        \* what fopen returned to each thread, if it was called
    next,          \* the next byte the server sends to each thread
    last,          \* the last byte of the range it asked for
    chunk          \* the number of bytes in the callback's hands

shared == <<path, g_pFile, streams, disk>>
locks  == <<g_mutex_index, g_mutex>>
reply  == <<next, last, chunk>>
vars   == <<file_length, g_interval, shared, locks, created, pc, index, opened, reply>>

NULL   == 0
Nobody == -1
Empty  == -1        \* a position nothing was written to
NotCalled == -1

-----------------------------------------------------------------------------
(* slice_file *)

range(length) == length \div (THREAD_NUM - 1)

(* mutant: the end is the first byte of the next slice *)
end_iter_Next(length, i) ==
    LET size == i * range(length)
    IN  IF size + range(length) <= length THEN size + range(length) ELSE length - 1

end_iter(length, i) ==
    LET size == i * range(length)
    IN  IF size + range(length) <= length THEN size + range(length) - 1 ELSE length - 1

slice_file(length) ==
    [i \in Slices |-> [begin_iter |-> i * range(length), end_iter |-> end_iter(length, i),
                       use |-> 0, ok |-> 0]]

-----------------------------------------------------------------------------
(* create_threads *)

OpenedOnce == Cardinality({t \in Threads : opened[t] # NotCalled}) <= 1

FileIsOpen ==
    /\ g_pFile # NULL /\ OpenedOnce
    /\ \A t \in Threads : pc[t] \notin {"start", "name", "test", "open", "store"}

(* mutant: one thread more than there are slices *)
Create_OneMore ==
    /\ created <= THREAD_NUM
    /\ created < Racing \/ FileIsOpen
    /\ created' = created + 1
    /\ pc' = [pc EXCEPT ![created] = "start"]
    /\ UNCHANGED <<file_length, g_interval, shared, locks, index, opened, reply>>

Create ==
    /\ created < THREAD_NUM
    /\ created < Racing \/ FileIsOpen
    /\ created' = created + 1
    /\ pc' = [pc EXCEPT ![created] = "start"]
    /\ UNCHANGED <<file_length, g_interval, shared, locks, index, opened, reply>>

(* pthread_create may fail: create_threads returns, main goes on to sleep.  *)
CreateFails ==
    /\ created < THREAD_NUM
    /\ created' = THREAD_NUM
    /\ UNCHANGED <<file_length, g_interval, shared, locks, pc, index, opened, reply>>

-----------------------------------------------------------------------------
Step(t, from, to) == pc[t] = from /\ pc' = [pc EXCEPT ![t] = to]

(* download_to_what: strcpy of the directory, then strcat of the name, in   *)
(* one array for all threads.                                               *)
CopyDirectory(t) ==
    /\ Step(t, "start", "name")
    /\ path' = 0
    /\ UNCHANGED <<file_length, g_interval, g_pFile, streams, disk, locks, created, index, opened, reply>>

AppendName(t) ==
    /\ Step(t, "name", "test")
    /\ path' = path + 1
    /\ UNCHANGED <<file_length, g_interval, g_pFile, streams, disk, locks, created, index, opened, reply>>

(* if (!g_pFile), without a lock *)
TestFile(t) ==
    /\ Step(t, "test", IF g_pFile = NULL THEN "open" ELSE "lock index")
    /\ UNCHANGED <<file_length, g_interval, shared, locks, created, index, opened, reply>>

(* fopen(..., "wb+") truncates the file; a directory does not open. *)
Open(t) ==
    /\ Step(t, "open", "store")
    /\ IF path = 0
       THEN opened' = [opened EXCEPT ![t] = NULL] /\ UNCHANGED <<streams, disk>>
       ELSE /\ streams' = Append(streams, [path |-> path, pos |-> 0])
            /\ opened' = [opened EXCEPT ![t] = Len(streams')]
            /\ disk' = [disk EXCEPT ![path] = [b \in DOMAIN @ |-> Empty]]
    /\ UNCHANGED <<file_length, g_interval, path, g_pFile, locks, created, index, reply>>

StoreFile(t) ==
    /\ Step(t, "store", "check")
    /\ g_pFile' = opened[t]
    /\ UNCHANGED <<file_length, g_interval, path, streams, disk, locks, created, index, opened, reply>>

CheckFile(t) ==
    /\ Step(t, "check", IF g_pFile = NULL THEN "no file" ELSE "lock index")
    /\ UNCHANGED <<file_length, g_interval, shared, locks, created, index, opened, reply>>

-----------------------------------------------------------------------------
(* The choice of a slice, under g_mutex_index *)

(* mutant: the lock is not waited for *)
LockIndex_Unlocked(t) ==
    /\ Step(t, "lock index", "search")
    /\ g_mutex_index' = t
    /\ UNCHANGED <<file_length, g_interval, shared, g_mutex, created, index, opened, reply>>

LockIndex(t) ==
    /\ Step(t, "lock index", "search")
    /\ g_mutex_index = Nobody
    /\ g_mutex_index' = t
    /\ UNCHANGED <<file_length, g_interval, shared, g_mutex, created, index, opened, reply>>

(* The first slice that is not in use.  There is one for every thread. *)
Search(t) ==
    /\ Step(t, "search", "take")
    /\ \E i \in Slices :
          /\ g_interval[i].use = 0
          /\ \A j \in 0..(i - 1) : g_interval[j].use # 0
          /\ index' = [index EXCEPT ![t] = i]
    /\ UNCHANGED <<file_length, g_interval, shared, locks, created, opened, reply>>

TakeSlice(t) ==
    /\ Step(t, "take", "request")
    /\ g_interval' = [g_interval EXCEPT ![index[t]].use = 1]
    /\ g_mutex_index' = Nobody
    /\ UNCHANGED <<file_length, shared, g_mutex, created, index, opened, reply>>

-----------------------------------------------------------------------------
(* download_directly *)

Slice(t) == g_interval[index[t]]

(* A range that is no range is ignored by the server: it sends the file.    *)
Request(t) ==
    LET valid == Slice(t).begin_iter <= Slice(t).end_iter
    IN  /\ Step(t, "request", "perform")
        /\ next' = [next EXCEPT ![t] = IF valid THEN Slice(t).begin_iter ELSE 0]
        /\ last' = [last EXCEPT ![t] = IF valid THEN Slice(t).end_iter ELSE file_length - 1]
        /\ UNCHANGED <<file_length, g_interval, shared, locks, created, index, opened, chunk>>

(* Some bytes arrived: libcurl calls write_callback. *)
Arrive(t) ==
    /\ Step(t, "perform", "lock")
    /\ \E n \in 1..(last[t] - next[t] + 1) : chunk' = [chunk EXCEPT ![t] = n]
    /\ UNCHANGED <<file_length, g_interval, shared, locks, created, index, opened, next, last>>

(* All of them, or ten seconds have passed. *)
PerformEnds(t) ==
    /\ Step(t, "perform", IF next[t] > last[t] THEN "done" ELSE "timed out")
    /\ UNCHANGED <<file_length, g_interval, shared, locks, created, index, opened, reply>>

-----------------------------------------------------------------------------
(* write_callback, under g_mutex *)

(* mutant: the lock is not waited for *)
Lock_Unlocked(t) ==
    /\ Step(t, "lock", "seek")
    /\ g_mutex' = t
    /\ UNCHANGED <<file_length, g_interval, shared, g_mutex_index, created, index, opened, reply>>

Lock(t) ==
    /\ Step(t, "lock", "seek")
    /\ g_mutex = Nobody
    /\ g_mutex' = t
    /\ UNCHANGED <<file_length, g_interval, shared, g_mutex_index, created, index, opened, reply>>

(* mutant: the last piece of a slice does not fit *)
Fits_Less(t) ==
    LET rest == Slice(t).end_iter - Slice(t).begin_iter + 1
    IN  rest < 0 \/ chunk[t] < rest

(* The length of the slice is compared as an unsigned number. *)
Fits(t) ==
    LET rest == Slice(t).end_iter - Slice(t).begin_iter + 1
    IN  rest < 0 \/ chunk[t] <= rest

Seek(t) ==
    /\ Step(t, "seek", IF g_pFile = NULL THEN "crashed" ELSE "write")
    /\ streams' = IF g_pFile = NULL THEN streams
                  ELSE [streams EXCEPT ![g_pFile].pos = Slice(t).begin_iter]
    /\ UNCHANGED <<file_length, g_interval, path, g_pFile, disk, locks, created, index, opened, reply>>

(* fwrite: n bytes, from the next one of the source on, at the position of  *)
(* the FILE g_pFile now points to.                                          *)
Fwrite(t, n) ==
    LET f == streams[g_pFile]
    IN  /\ disk' = [disk EXCEPT ![f.path] =
                      [b \in DOMAIN @ |-> IF f.pos <= b /\ b < f.pos + n
                                          THEN next[t] + (b - f.pos) ELSE @[b]]]
        /\ streams' = [streams EXCEPT ![g_pFile].pos = @ + n]

(* mutant: the slice does not move on *)
Write_Stays(t) ==
    /\ Step(t, "write", "perform")
    /\ g_pFile # NULL /\ Fits(t)
    /\ Fwrite(t, chunk[t])
    /\ next' = [next EXCEPT ![t] = @ + chunk[t]]
    /\ g_mutex' = Nobody
    /\ UNCHANGED <<file_length, g_interval, path, g_pFile, g_mutex_index, created, index, opened, last, chunk>>

Write(t) ==
    /\ Step(t, "write", "perform")
    /\ g_pFile # NULL /\ Fits(t)
    /\ Fwrite(t, chunk[t])
    /\ g_interval' = [g_interval EXCEPT ![index[t]].begin_iter = @ + chunk[t]]
    /\ next' = [next EXCEPT ![t] = @ + chunk[t]]
    /\ g_mutex' = Nobody
    /\ UNCHANGED <<file_length, path, g_pFile, g_mutex_index, created, index, opened, last, chunk>>

(* mutant: the lock is kept on this path *)
WriteRest_KeepsLock(t) ==
    /\ Step(t, "write", "failed")
    /\ g_pFile # NULL /\ ~Fits(t)
    /\ Fwrite(t, Slice(t).end_iter - Slice(t).begin_iter + 1)
    /\ g_interval' = [g_interval EXCEPT ![index[t]].ok = 1]
    /\ UNCHANGED <<file_length, path, g_pFile, locks, created, index, opened, reply>>

(* More than the slice: the rest of it is written, and libcurl gives up     *)
(* since the callback took fewer bytes than it was given.                   *)
WriteRest(t) ==
    /\ Step(t, "write", "failed")
    /\ g_pFile # NULL /\ ~Fits(t)
    /\ Fwrite(t, Slice(t).end_iter - Slice(t).begin_iter + 1)
    /\ g_interval' = [g_interval EXCEPT ![index[t]].ok = 1]
    /\ g_mutex' = Nobody
    /\ UNCHANGED <<file_length, path, g_pFile, g_mutex_index, created, index, opened, reply>>

(* g_pFile was set to NULL since the fseek. *)
WriteToNull(t) ==
    /\ Step(t, "write", "crashed")
    /\ g_pFile = NULL
    /\ UNCHANGED <<file_length, g_interval, shared, locks, created, index, opened, reply>>

-----------------------------------------------------------------------------
Init ==
    /\ file_length \in Lengths
    /\ g_interval = slice_file(file_length)
    /\ path = 0 /\ g_pFile = NULL /\ streams = <<>>
    /\ disk = [p \in 1..THREAD_NUM |-> [b \in 0..(file_length - 1) |-> Empty]]
    /\ g_mutex_index = Nobody /\ g_mutex = Nobody
    /\ created = 0
    /\ pc = [t \in Threads |-> "absent"]
    /\ index = [t \in Threads |-> 0]
    /\ opened = [t \in Threads |-> NotCalled]
    /\ next = [t \in Threads |-> 0]
    /\ last = [t \in Threads |-> 0]
    /\ chunk = [t \in Threads |-> 0]

Crashed == \E t \in Threads : pc[t] = "crashed"

OpenFile(t) == CopyDirectory(t) \/ AppendName(t) \/ TestFile(t) \/ Open(t) \/ StoreFile(t) \/ CheckFile(t)

ChooseSlice(t) == LockIndex(t) \/ Search(t) \/ TakeSlice(t)

write_callback(t) == Lock(t) \/ Seek(t) \/ Write(t) \/ WriteRest(t) \/ WriteToNull(t)

download_directly(t) == Request(t) \/ Arrive(t) \/ PerformEnds(t) \/ write_callback(t)

thread_func(t) == ~Crashed /\ (OpenFile(t) \/ ChooseSlice(t) \/ download_directly(t))

Next == Create \/ CreateFails \/ \E t \in Threads : thread_func(t)

Spec == Init /\ [][Next]_vars

(* The threads are scheduled; bytes arrive or ten seconds pass. *)
FairSpec == Spec /\ \A t \in Threads : WF_vars(thread_func(t))

-----------------------------------------------------------------------------
(* Properties *)

Labels == {"absent", "start", "name", "test", "open", "store", "check", "lock index", "search", "take",
           "request", "perform", "lock", "seek", "write", "done", "no file", "timed out", "failed", "crashed"}

Interval == [begin_iter : Int, end_iter : Int, use : {0, 1}, ok : {0, 1}]

Stream == [path : Nat, pos : Int]

(* The type invariant. *)
TypeOK ==
    /\ file_length \in Lengths
    /\ g_interval \in [Slices -> Interval]
    /\ path \in Nat
    /\ streams \in Seq(Stream)
    /\ g_pFile \in 0..Len(streams)
    /\ opened \in [Threads -> NotCalled..Len(streams)]
    /\ g_mutex_index \in Threads \cup {Nobody} /\ g_mutex \in Threads \cup {Nobody}
    /\ created \in 0..THREAD_NUM
    /\ pc \in [Threads -> Labels]
    /\ index \in [Threads -> Slices]
    /\ next \in [Threads -> Int] /\ last \in [Threads -> Int] /\ chunk \in [Threads -> Int]

HasSlice(t) == pc[t] \in {"request", "perform", "lock", "seek", "write",
                          "done", "timed out", "failed", "crashed"}

(* No two threads take the same slice (the comment at line 492), not even   *)
(* one after the other.                                                     *)
OneThreadPerSlice ==
    \A t, u \in Threads : t # u /\ HasSlice(t) /\ HasSlice(u) => index[t] # index[u]

InSlice(b, i) == i * range(file_length) <= b /\ b <= end_iter(file_length, i)

(* The length is divided by one less than there are slices, and the last    *)
(* slice is no longer than the others: what a shorter file has left over    *)
(* does not fit into it, and is not downloaded.                             *)
LongEnough == file_length >= (THREAD_NUM - 1) * (THREAD_NUM - 2)

(* A long enough file is cut into slices without overlap that cover it.     *)
SlicesCoverTheFile ==
    LongEnough =>
        \A b \in 0..(file_length - 1) :
            \E i \in Slices : InSlice(b, i) /\ \A j \in Slices : InSlice(b, j) => j = i

(* Both: no byte is asked for twice, or by nobody. *)
SlicesDealtOut == OneThreadPerSlice /\ SlicesCoverTheFile

(* With one FILE, a byte is written to its own position only, and within    *)
(* the file: the lock keeps fseek and fwrite together.  (Without the        *)
(* condition it fails: g_pFile may change between the two.)                 *)
WrittenWhereItBelongs ==
    OpenedOnce => \A p \in DOMAIN disk : \A b \in DOMAIN disk[p] : disk[p][b] \in {b, Empty}

(* With one FILE, when every thread has got its slice the file is complete. *)
CompleteFile ==
    /\ OpenedOnce /\ LongEnough
    /\ \A t \in Threads : pc[t] \in {"done", "failed"}
    => \E p \in DOMAIN disk : \A b \in DOMAIN disk[p] : disk[p][b] = b

(* A download of its own slice fails only when the slice is empty.          *)
OnlyEmptySlicesFail ==
    range(file_length) > 0 =>
        \A t \in Threads : pc[t] = "failed" => index[t] * range(file_length) = file_length

(* The download: nothing is misplaced, missing or given up too early. *)
FileIsRight == WrittenWhereItBelongs /\ CompleteFile /\ OnlyEmptySlicesFail

(* Every thread that begins ends: no lock is left behind.                   *)
ThreadsEnd ==
    <>[](Crashed \/ \A t \in Threads :
                      pc[t] \in {"absent", "done", "no file", "timed out", "failed"})
=============================================================================
