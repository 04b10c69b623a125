-------------------------- MODULE Downloader_proofs --------------------------
(***************************************************************************)
(* Theorems about Downloader, for any number of threads, any lengths, and   *)
(* without the bound on the threads that race to open the file.             *)
(*                                                                         *)
(* That a slice has one thread follows from the lock: the thread between    *)
(* its search and its mark holds g_mutex_index, what it found is not in     *)
(* use, and what a thread has taken is.                                     *)
(*                                                                         *)
(* That the file is right needs both locks and the one fopen: FInv follows  *)
(* the bytes of a slice from the cut to the disk.                           *)
(***************************************************************************)
EXTENDS Downloader, SequenceTheorems, FiniteSetTheorems, TLAPS

USE DownloaderAssumption

-----------------------------------------------------------------------------
(* Arithmetic *)

LEMMA Division ==
    ASSUME NEW n \in Nat \ {0}, NEW a \in Nat
    PROVE  /\ a \div n \in Nat
           /\ (a \div n) * n <= a
           /\ a < (a \div n) * n + n
BY SMT

LEMMA Monotone ==
    ASSUME NEW i \in Nat, NEW j \in Nat, NEW r \in Nat, i <= j
    PROVE  i * r <= j * r
BY SMT

(* The length of a slice, and the rest that is left for the last one.       *)
LEMMA RangeOfLength ==
    ASSUME NEW length \in Nat
    PROVE  /\ range(length) \in Nat
           /\ (THREAD_NUM - 1) * range(length) <= length
           /\ length < (THREAD_NUM - 1) * range(length) + (THREAD_NUM - 1)
<1>1. THREAD_NUM - 1 \in Nat \ {0}
  BY SMT
<1> DEFINE n == THREAD_NUM - 1
<1>2. /\ length \div n \in Nat
      /\ (length \div n) * n <= length
      /\ length < (length \div n) * n + n
  BY <1>1, Division
<1>3. (length \div n) * n = n * (length \div n)
  BY <1>1, <1>2, SMT
<1> QED
  BY <1>1, <1>2, <1>3 DEF range

LEMMA SlicesTyped ==
    ASSUME NEW length \in Nat
    PROVE  slice_file(length) \in [Slices -> Interval]
<1> SUFFICES ASSUME NEW i \in Slices
             PROVE  [begin_iter |-> i * range(length), end_iter |-> end_iter(length, i),
                     use |-> 0, ok |-> 0] \in Interval
  BY DEF slice_file
<1>1. i \in Nat /\ range(length) \in Nat
  BY RangeOfLength DEF Slices
<1>2. i * range(length) \in Int
  BY <1>1, SMT
<1>3. end_iter(length, i) \in Int
  BY <1>1, <1>2, SMT DEF end_iter
<1> QED
  BY <1>2, <1>3 DEF Interval

(* A slice before the last one ends where the next begins; the last one is  *)
(* long enough for the rest.                                                *)
LEMMA EndOfSlice ==
    ASSUME NEW length \in Nat, NEW i \in Slices, length >= (THREAD_NUM - 1) * (THREAD_NUM - 2)
    PROVE  /\ i # THREAD_NUM - 1 => end_iter(length, i) = (i + 1) * range(length) - 1
           /\ i = THREAD_NUM - 1 => end_iter(length, i) = length - 1
<1> DEFINE r == range(length)
<1> DEFINE n == THREAD_NUM - 1
<1>1. /\ r \in Nat /\ n \in Nat \ {0} /\ i \in Nat /\ i <= n
      /\ n * r <= length /\ length < n * r + n
      /\ length >= n * (n - 1)
  BY RangeOfLength, SMT DEF Slices
<1>2. end_iter(length, i) = IF i * r + r <= length THEN i * r + r - 1 ELSE length - 1
  BY DEF end_iter
<1> HIDE DEF r, n
<1>3. i * r + r = (i + 1) * r
  BY <1>1, SMT
<1>4. ASSUME i # n PROVE i * r + r <= length
  <2>1. (i + 1) * r <= n * r
    BY <1>1, <1>4, Monotone
  <2> QED
    BY <2>1, <1>1, <1>3, SMT
<1>5. ASSUME i = n, n * r + r <= length PROVE n * r + r = length
  <2>1. r < n
    BY <1>1, <1>5, SMT
  <2>2. n - 1 <= r
    <3> SUFFICES ASSUME r + 1 <= n - 1 PROVE FALSE
      BY <1>1, SMT
    <3>1. (r + 1) * n <= (n - 1) * n
      BY <1>1, Monotone
    <3>2. (r + 1) * n = n * r + n /\ (n - 1) * n = n * (n - 1)
      BY <1>1, SMT
    <3> QED
      BY <3>1, <3>2, <1>1, SMT
  <2> QED
    BY <2>1, <2>2, <1>1, <1>5, SMT
<1>6. ASSUME i # n PROVE end_iter(length, i) = (i + 1) * r - 1
  <2>1. end_iter(length, i) = i * r + r - 1
    BY <1>2, <1>4, <1>6
  <2>2. i * r \in Int /\ (i + 1) * r \in Int
    BY <1>1, SMT
  <2> QED
    BY <1>1, <1>3, <2>1, <2>2, SMT
<1>7. i = n => end_iter(length, i) = length - 1
  BY <1>2, <1>5, <1>1, SMT
<1> QED
  BY <1>6, <1>7 DEF r, n

(* A long enough file is cut into slices that cover it without overlap.     *)
LEMMA Partition ==
    ASSUME file_length \in Nat
    PROVE  SlicesCoverTheFile
<1> SUFFICES ASSUME LongEnough, NEW b \in 0..(file_length - 1)
             PROVE  \E i \in Slices : InSlice(b, i) /\ \A j \in Slices : InSlice(b, j) => j = i
  BY DEF SlicesCoverTheFile
<1> DEFINE r == range(file_length)
<1> DEFINE n == THREAD_NUM - 1
<1>1. /\ r \in Nat /\ n \in Nat \ {0} /\ b \in Nat /\ b < file_length
      /\ n * r <= file_length
  BY RangeOfLength, SMT
<1>2. Slices = 0..n
  BY DEF Slices
<1>3. \A i \in Slices : InSlice(b, i) <=>
          i * r <= b /\ (i # n => b < (i + 1) * r)
  <2> SUFFICES ASSUME NEW i \in Slices
               PROVE  InSlice(b, i) <=> i * r <= b /\ (i # n => b < (i + 1) * r)
    OBVIOUS
  <2>1. /\ i # n => end_iter(file_length, i) = (i + 1) * r - 1
        /\ i = n => end_iter(file_length, i) = file_length - 1
    BY EndOfSlice DEF LongEnough
  <2>2. (i + 1) * r \in Int
    BY <1>1, <1>2, SMT
  <2> HIDE DEF r, n
  <2> QED
    BY <2>1, <2>2, <1>1, SMT DEF InSlice, r
<1> HIDE DEF r, n
<1>4. ASSUME NEW i \in Slices, NEW j \in Slices, i < j, i # n,
             b < (i + 1) * r, j * r <= b
      PROVE  FALSE
  <2>1. (i + 1) * r <= j * r
    BY <1>1, <1>2, <1>4, Monotone
  <2>2. (i + 1) * r \in Int /\ j * r \in Int
    BY <1>1, <1>2, SMT
  <2> QED
    BY <2>1, <2>2, <1>1, <1>4, SMT
<1>5. \A i, j \in Slices : InSlice(b, i) /\ InSlice(b, j) => i = j
  <2> SUFFICES ASSUME NEW i \in Slices, NEW j \in Slices, InSlice(b, i), InSlice(b, j), i < j
               PROVE  FALSE
    BY <1>2, SMT
  <2>1. i # n
    BY <1>1, <1>2, SMT
  <2> QED
    BY <2>1, <1>3, <1>4
<1>6. \E i \in Slices : InSlice(b, i)
  <2>1. CASE n * r <= b
    <3>1. n \in Slices
      BY <1>1, <1>2, SMT
    <3> QED
      BY <2>1, <3>1, <1>3
  <2>2. CASE b < n * r
    <3>1. r # 0
      BY <2>2, <1>1, SMT
    <3> DEFINE i == b \div r
    <3>2. i \in Nat /\ i * r <= b /\ b < i * r + r
      BY <3>1, <1>1, Division
    <3> HIDE DEF i
    <3>3. i * r + r = (i + 1) * r
      BY <3>2, <1>1, SMT
    <3>4. i < n
      <4> SUFFICES ASSUME n <= i PROVE FALSE
        BY <3>2, <1>1, SMT
      <4>1. n * r <= i * r
        BY <3>2, <1>1, Monotone
      <4> QED
        BY <4>1, <3>2, <2>2, <1>1, SMT
    <3>5. i \in Slices
      BY <3>2, <3>4, <1>1, <1>2, SMT
    <3> QED
      BY <3>2, <3>3, <3>5, <1>3
  <2>3. n * r \in Int
    BY <1>1, SMT
  <2> QED
    BY <2>1, <2>2, <2>3, <1>1, SMT
<1> QED
  BY <1>5, <1>6

-----------------------------------------------------------------------------
(* The type invariant *)

(* What the choice of a slice keeps: between its search and its mark a      *)
(* thread holds the lock, and what it found is free; what has been taken is *)
(* marked, and taken once.  What a thread stores, fopen has returned.       *)
HoldsIndex(t) == pc[t] \in {"search", "take"}

Dealt ==
    /\ \A t \in Threads : HoldsIndex(t) => g_mutex_index = t
    /\ \A t \in Threads : pc[t] = "take" => g_interval[index[t]].use = 0
    /\ \A t \in Threads : HasSlice(t) => g_interval[index[t]].use = 1
    /\ OneThreadPerSlice

Called == \A t \in Threads : pc[t] = "store" => opened[t] # NotCalled

IInv == TypeOK /\ Called /\ Dealt

LEMMA Nowhere == Nobody \notin Threads
BY SMT DEF Nobody, Threads

(* A FILE keeps its number when its position changes. *)
LEMMA Repositioned ==
    ASSUME TypeOK, g_pFile # NULL, NEW p \in Int
    PROVE  /\ [streams EXCEPT ![g_pFile].pos = p] \in Seq(Stream)
           /\ Len([streams EXCEPT ![g_pFile].pos = p]) = Len(streams)
           /\ streams[g_pFile].pos \in Int
<1> DEFINE s == [streams EXCEPT ![g_pFile].pos = p]
<1> DEFINE e == [streams[g_pFile] EXCEPT !.pos = p]
<1>1. streams \in Seq(Stream) /\ Len(streams) \in Nat /\ g_pFile \in 1..Len(streams)
  BY LenProperties DEF TypeOK, NULL
<1>2. streams[g_pFile] \in Stream
  BY <1>1, ElementOfSeq
<1>3. e \in Stream /\ streams[g_pFile].pos \in Int
  BY <1>2 DEF Stream
<1>4. s = [streams EXCEPT ![g_pFile] = e]
  BY <1>1, LenProperties
<1>5. s \in Seq(Stream) /\ Len(s) = Len(streams)
  BY <1>1, <1>3, <1>4, ExceptSeq
<1> QED
  BY <1>3, <1>5

LEMMA Moved ==
    ASSUME TypeOK, NEW t \in Threads, NEW from, NEW to \in Labels, Step(t, from, to)
    PROVE  pc' \in [Threads -> Labels]
BY DEF TypeOK, Step

LEMMA InitTyped == Init => TypeOK
<1> SUFFICES ASSUME Init PROVE TypeOK
  OBVIOUS
<1>1. file_length \in Nat
  BY DEF Init
<1>2. g_interval \in [Slices -> Interval]
  BY <1>1, SlicesTyped DEF Init
<1>3. streams \in Seq(Stream) /\ Len(streams) = 0
  BY EmptySeq DEF Init
<1>4. 0 \in Slices
  BY SMT DEF Slices
<1>5. /\ created \in 0..THREAD_NUM
      /\ pc \in [Threads -> Labels]
      /\ index \in [Threads -> Slices]
      /\ opened \in [Threads -> NotCalled..Len(streams)]
  BY <1>3, <1>4 DEF Init, Labels, NotCalled
<1>6. next \in [Threads -> Int] /\ last \in [Threads -> Int] /\ chunk \in [Threads -> Int]
  BY DEF Init
<1> QED
  BY <1>2, <1>3, <1>5, <1>6 DEF Init, TypeOK, NULL, Nobody

(* fwrite moves the FILE. *)
LEMMA FwriteTyped ==
    ASSUME TypeOK, g_pFile # NULL, NEW t \in Threads, NEW n \in Int, Fwrite(t, n)
    PROVE  streams' \in Seq(Stream) /\ Len(streams') = Len(streams)
<1>1. streams[g_pFile].pos \in Int
  BY Repositioned
<1>2. streams[g_pFile].pos + n \in Int
  BY <1>1
<1>3. streams' = [streams EXCEPT ![g_pFile].pos = streams[g_pFile].pos + n]
  BY DEF Fwrite
<1> QED
  BY <1>2, <1>3, Repositioned

LEMMA StepTyped == IInv /\ [Next]_vars => TypeOK'
<1> SUFFICES ASSUME TypeOK, Called, [Next]_vars PROVE TypeOK'
  BY DEF IInv
<1> USE DEF shared, locks, reply
<1>1. CASE UNCHANGED vars
  BY <1>1 DEF vars, TypeOK
<1>2. CASE Create
  <2>1. created \in Threads /\ created + 1 \in 0..THREAD_NUM
    BY <1>2, SMT DEF Create, TypeOK, Threads
  <2>2. pc' \in [Threads -> Labels]
    BY <1>2, <2>1 DEF Create, TypeOK, Labels
  <2> QED
    BY <1>2, <2>1, <2>2 DEF Create, TypeOK
<1>3. CASE CreateFails
  <2>1. THREAD_NUM \in 0..THREAD_NUM
    BY SMT
  <2> QED
    BY <1>3, <2>1 DEF CreateFails, TypeOK
<1>4. ASSUME NEW t \in Threads, thread_func(t) PROVE TypeOK'
  <2>1. CASE CopyDirectory(t)
    <3>1. pc' \in [Threads -> Labels]
      BY <2>1, Moved DEF CopyDirectory, Labels
    <3> QED
      BY <2>1, <3>1 DEF CopyDirectory, TypeOK
  <2>2. CASE AppendName(t)
    <3>1. pc' \in [Threads -> Labels]
      BY <2>2, Moved DEF AppendName, Labels
    <3>2. path' \in Nat
      BY <2>2, SMT DEF AppendName, TypeOK
    <3> QED
      BY <2>2, <3>1, <3>2 DEF AppendName, TypeOK
  <2>3. CASE TestFile(t)
    <3>1. pc' \in [Threads -> Labels]
      BY <2>3, Moved DEF TestFile, Labels
    <3> QED
      BY <2>3, <3>1 DEF TestFile, TypeOK
  <2>4. CASE Open(t)
    <3>1. pc' \in [Threads -> Labels]
      BY <2>4, Moved DEF Open, Labels
    <3>2. Len(streams) \in Nat /\ streams \in Seq(Stream)
      BY LenProperties DEF TypeOK
    <3>3. CASE path = 0
      <4>1. opened' = [opened EXCEPT ![t] = NULL] /\ streams' = streams
        BY <2>4, <3>3 DEF Open
      <4>2. NULL \in NotCalled..Len(streams)
        BY <3>2, SMT DEF NULL, NotCalled
      <4>3. opened' \in [Threads -> NotCalled..Len(streams)]
        BY <4>1, <4>2 DEF TypeOK
      <4> QED
        BY <2>4, <3>1, <4>1, <4>3 DEF Open, TypeOK
    <3>4. CASE path # 0
      <4> DEFINE new == [path |-> path, pos |-> 0]
      <4>1. new \in Stream
        BY SMT DEF TypeOK, Stream
      <4>2. streams' = Append(streams, new) /\ opened' = [opened EXCEPT ![t] = Len(streams')]
        BY <2>4, <3>4 DEF Open
      <4> HIDE DEF new
      <4>3. streams' \in Seq(Stream) /\ Len(streams') = Len(streams) + 1
        BY <3>2, <4>1, <4>2, AppendProperties
      <4>4. \A n \in NotCalled..Len(streams) : n \in NotCalled..Len(streams')
        BY <3>2, <4>3, SMT DEF NotCalled
      <4>5. Len(streams') \in NotCalled..Len(streams')
        BY <3>2, <4>3, SMT DEF NotCalled
      <4>6. opened' \in [Threads -> NotCalled..Len(streams')]
        BY <4>2, <4>4, <4>5 DEF TypeOK
      <4>7. g_pFile' \in 0..Len(streams')
        BY <2>4, <4>3, <3>2 DEF Open, TypeOK
      <4> QED
        BY <2>4, <3>1, <4>3, <4>6, <4>7 DEF Open, TypeOK
    <3> QED
      BY <3>3, <3>4
  <2>5. CASE StoreFile(t)
    <3>1. pc' \in [Threads -> Labels]
      BY <2>5, Moved DEF StoreFile, Labels
    <3>2. opened[t] \in NotCalled..Len(streams) /\ opened[t] # NotCalled
      BY <2>5 DEF StoreFile, Step, Called, TypeOK
    <3>3. Len(streams) \in Nat
      BY LenProperties DEF TypeOK
    <3>4. opened[t] \in 0..Len(streams)
      BY <3>2, <3>3, SMT DEF NotCalled
    <3> QED
      BY <2>5, <3>1, <3>4 DEF StoreFile, TypeOK
  <2>6. CASE CheckFile(t)
    <3>1. pc' \in [Threads -> Labels]
      BY <2>6, Moved DEF CheckFile, Labels
    <3> QED
      BY <2>6, <3>1 DEF CheckFile, TypeOK
  <2>7. CASE LockIndex(t)
    <3>1. pc' \in [Threads -> Labels]
      BY <2>7, Moved DEF LockIndex, Labels
    <3> QED
      BY <2>7, <3>1 DEF LockIndex, TypeOK
  <2>8. CASE Search(t)
    <3>1. pc' \in [Threads -> Labels]
      BY <2>8, Moved DEF Search, Labels
    <3>2. index' \in [Threads -> Slices]
      BY <2>8 DEF Search, TypeOK
    <3> QED
      BY <2>8, <3>1, <3>2 DEF Search, TypeOK
  <2>9. CASE TakeSlice(t)
    <3>1. pc' \in [Threads -> Labels]
      BY <2>9, Moved DEF TakeSlice, Labels
    <3>2. Slice(t) \in Interval
      BY DEF TypeOK, Slice
    <3>3. [Slice(t) EXCEPT !.use = 1] \in Interval
      BY <3>2 DEF Interval
    <3>4. g_interval' \in [Slices -> Interval]
      BY <2>9, <3>3 DEF TakeSlice, TypeOK, Slice
    <3> QED
      BY <2>9, <3>1, <3>4 DEF TakeSlice, TypeOK
  <2>10. CASE Request(t)
    <3>1. pc' \in [Threads -> Labels]
      BY <2>10, Moved DEF Request, Labels
    <3>2. Slice(t) \in Interval /\ file_length \in Nat
      BY DEF TypeOK, Slice
    <3>3. Slice(t).begin_iter \in Int /\ Slice(t).end_iter \in Int /\ file_length - 1 \in Int
      BY <3>2 DEF Interval
    <3>4. next' \in [Threads -> Int] /\ last' \in [Threads -> Int]
      BY <2>10, <3>3 DEF Request, TypeOK
    <3> QED
      BY <2>10, <3>1, <3>4 DEF Request, TypeOK
  <2>11. CASE Arrive(t)
    <3>1. pc' \in [Threads -> Labels]
      BY <2>11, Moved DEF Arrive, Labels
    <3>2. chunk' \in [Threads -> Int]
      BY <2>11 DEF Arrive, TypeOK
    <3> QED
      BY <2>11, <3>1, <3>2 DEF Arrive, TypeOK
  <2>12. CASE PerformEnds(t)
    <3>1. pc' \in [Threads -> Labels]
      BY <2>12, Moved DEF PerformEnds, Labels
    <3> QED
      BY <2>12, <3>1 DEF PerformEnds, TypeOK
  <2>13. CASE Lock(t)
    <3>1. pc' \in [Threads -> Labels]
      BY <2>13, Moved DEF Lock, Labels
    <3> QED
      BY <2>13, <3>1 DEF Lock, TypeOK
  <2>14. CASE Seek(t)
    <3>1. pc' \in [Threads -> Labels]
      BY <2>14, Moved DEF Seek, Labels
    <3>2. Slice(t).begin_iter \in Int
      BY DEF TypeOK, Slice, Interval
    <3>3. streams' \in Seq(Stream) /\ Len(streams') = Len(streams)
      BY <2>14, <3>2, Repositioned DEF Seek, TypeOK
    <3> QED
      BY <2>14, <3>1, <3>3 DEF Seek, TypeOK
  <2>15. CASE Write(t)
    <3>1. pc' \in [Threads -> Labels]
      BY <2>15, Moved DEF Write, Labels
    <3>2. chunk[t] \in Int /\ next[t] + chunk[t] \in Int
      BY DEF TypeOK
    <3>3. streams' \in Seq(Stream) /\ Len(streams') = Len(streams)
      BY <2>15, <3>2, FwriteTyped DEF Write
    <3>4. Slice(t) \in Interval /\ Slice(t).begin_iter \in Int
      BY DEF TypeOK, Slice, Interval
    <3>5. [Slice(t) EXCEPT !.begin_iter = @ + chunk[t]] \in Interval
      BY <3>2, <3>4 DEF Interval
    <3>6. g_interval' \in [Slices -> Interval]
      BY <2>15, <3>5 DEF Write, TypeOK, Slice
    <3>7. next' \in [Threads -> Int]
      BY <2>15, <3>2 DEF Write, TypeOK
    <3> QED
      BY <2>15, <3>1, <3>3, <3>6, <3>7 DEF Write, TypeOK
  <2>16. CASE WriteRest(t)
    <3>1. pc' \in [Threads -> Labels]
      BY <2>16, Moved DEF WriteRest, Labels
    <3>2. Slice(t) \in Interval /\ Slice(t).end_iter - Slice(t).begin_iter + 1 \in Int
      BY DEF TypeOK, Slice, Interval
    <3>3. streams' \in Seq(Stream) /\ Len(streams') = Len(streams)
      BY <2>16, <3>2, FwriteTyped DEF WriteRest
    <3>4. [Slice(t) EXCEPT !.ok = 1] \in Interval
      BY <3>2 DEF Interval
    <3>5. g_interval' \in [Slices -> Interval]
      BY <2>16, <3>4 DEF WriteRest, TypeOK, Slice
    <3> QED
      BY <2>16, <3>1, <3>3, <3>5 DEF WriteRest, TypeOK
  <2>17. CASE WriteToNull(t)
    <3>1. pc' \in [Threads -> Labels]
      BY <2>17, Moved DEF WriteToNull, Labels
    <3> QED
      BY <2>17, <3>1 DEF WriteToNull, TypeOK
  <2> QED
    BY <1>4, <2>1, <2>2, <2>3, <2>4, <2>5, <2>6, <2>7, <2>8, <2>9, <2>10, <2>11, <2>12, <2>13,
       <2>14, <2>15, <2>16, <2>17
       DEF thread_func, OpenFile, ChooseSlice, download_directly, write_callback
<1> QED
  BY <1>1, <1>2, <1>3, <1>4 DEF Next

-----------------------------------------------------------------------------
(* The slices are dealt out *)

(* A step that leaves the choice of a slice alone. *)
LEMMA Elsewhere ==
    ASSUME IInv, TypeOK', UNCHANGED <<index, g_mutex_index>>,
           \A i \in Slices : g_interval'[i].use = g_interval[i].use,
           NEW t \in Threads,
           \A u \in Threads : u # t => pc'[u] = pc[u],
           pc'[t] \notin {"search", "take"},
           HasSlice(t)' => HasSlice(t)
    PROVE  Dealt'
<1> USE DEF IInv, Dealt
<1>3. \A u \in Threads : /\ HoldsIndex(u)' => HoldsIndex(u)
                         /\ pc'[u] = "take" => pc[u] = "take"
                         /\ HasSlice(u)' => HasSlice(u)
  BY DEF HoldsIndex, HasSlice
<1>4. \A u \in Threads : index[u] \in Slices /\ index'[u] = index[u]
  BY DEF TypeOK
<1>5. \A u \in Threads : g_interval'[index'[u]].use = g_interval[index[u]].use
  BY <1>4
<1> QED
  BY <1>3, <1>4, <1>5 DEF OneThreadPerSlice

LEMMA StepDealt == IInv /\ TypeOK' /\ [Next]_vars => Dealt'
<1> SUFFICES ASSUME IInv, TypeOK', [Next]_vars PROVE Dealt'
  OBVIOUS
<1> USE DEF shared, locks, reply
<1>0. TypeOK /\ Dealt
  BY DEF IInv
<1>1. CASE UNCHANGED vars
  BY <1>0, <1>1 DEF vars, Dealt, HoldsIndex, HasSlice, OneThreadPerSlice
<1>2. CASE Create
  <2>1. created \in Threads
    BY <1>0, <1>2, SMT DEF Create, TypeOK, Threads
  <2>2. /\ \A u \in Threads : u # created => pc'[u] = pc[u]
        /\ pc'[created] = "start"
        /\ UNCHANGED <<g_interval, index, g_mutex_index>>
    BY <1>0, <1>2, <2>1 DEF Create, TypeOK
  <2> QED
    BY <2>1, <2>2, Elsewhere DEF HasSlice
<1>3. CASE CreateFails
  BY <1>0, <1>3 DEF CreateFails, Dealt, HoldsIndex, HasSlice, OneThreadPerSlice
<1>4. ASSUME NEW t \in Threads, thread_func(t) PROVE Dealt'
  <2>1. CASE CopyDirectory(t)
    <3>1. /\ \A u \in Threads : u # t => pc'[u] = pc[u]
          /\ pc'[t] \notin {"search", "take"}
          /\ HasSlice(t)' => HasSlice(t)
      BY <1>0, <2>1 DEF CopyDirectory, Step, HasSlice, TypeOK
    <3>2. UNCHANGED <<g_interval, index, g_mutex_index>>
      BY <2>1 DEF CopyDirectory
    <3> QED
      BY <3>1, <3>2, Elsewhere
  <2>2. CASE AppendName(t)
    <3>1. /\ \A u \in Threads : u # t => pc'[u] = pc[u]
          /\ pc'[t] \notin {"search", "take"}
          /\ HasSlice(t)' => HasSlice(t)
      BY <1>0, <2>2 DEF AppendName, Step, HasSlice, TypeOK
    <3>2. UNCHANGED <<g_interval, index, g_mutex_index>>
      BY <2>2 DEF AppendName
    <3> QED
      BY <3>1, <3>2, Elsewhere
  <2>3. CASE TestFile(t)
    <3>1. /\ \A u \in Threads : u # t => pc'[u] = pc[u]
          /\ pc'[t] \notin {"search", "take"}
          /\ HasSlice(t)' => HasSlice(t)
      BY <1>0, <2>3 DEF TestFile, Step, HasSlice, TypeOK
    <3>2. UNCHANGED <<g_interval, index, g_mutex_index>>
      BY <2>3 DEF TestFile
    <3> QED
      BY <3>1, <3>2, Elsewhere
  <2>4. CASE Open(t)
    <3>1. /\ \A u \in Threads : u # t => pc'[u] = pc[u]
          /\ pc'[t] \notin {"search", "take"}
          /\ HasSlice(t)' => HasSlice(t)
      BY <1>0, <2>4 DEF Open, Step, HasSlice, TypeOK
    <3>2. UNCHANGED <<g_interval, index, g_mutex_index>>
      BY <2>4 DEF Open
    <3> QED
      BY <3>1, <3>2, Elsewhere
  <2>5. CASE StoreFile(t)
    <3>1. /\ \A u \in Threads : u # t => pc'[u] = pc[u]
          /\ pc'[t] \notin {"search", "take"}
          /\ HasSlice(t)' => HasSlice(t)
      BY <1>0, <2>5 DEF StoreFile, Step, HasSlice, TypeOK
    <3>2. UNCHANGED <<g_interval, index, g_mutex_index>>
      BY <2>5 DEF StoreFile
    <3> QED
      BY <3>1, <3>2, Elsewhere
  <2>6. CASE CheckFile(t)
    <3>1. /\ \A u \in Threads : u # t => pc'[u] = pc[u]
          /\ pc'[t] \notin {"search", "take"}
          /\ HasSlice(t)' => HasSlice(t)
      BY <1>0, <2>6 DEF CheckFile, Step, HasSlice, TypeOK
    <3>2. UNCHANGED <<g_interval, index, g_mutex_index>>
      BY <2>6 DEF CheckFile
    <3> QED
      BY <3>1, <3>2, Elsewhere
  <2>7. CASE LockIndex(t)
    <3>1. \A u \in Threads : ~HoldsIndex(u)
      BY <1>0, <2>7, Nowhere DEF LockIndex, Dealt
    <3>2. \A u \in Threads : u # t => pc'[u] = pc[u]
      BY <1>0, <2>7 DEF LockIndex, Step, TypeOK
    <3>3. pc'[t] = "search" /\ g_mutex_index' = t /\ UNCHANGED <<g_interval, index>>
      BY <1>0, <2>7 DEF LockIndex, Step, TypeOK
    <3> QED
      BY <1>0, <3>1, <3>2, <3>3 DEF Dealt, HoldsIndex, HasSlice, OneThreadPerSlice
  <2>8. CASE Search(t)
    <3>1. PICK i \in Slices : g_interval[i].use = 0 /\ index' = [index EXCEPT ![t] = i]
      BY <2>8 DEF Search
    <3>2. \A u \in Threads : u # t => pc'[u] = pc[u] /\ index'[u] = index[u]
      BY <1>0, <2>8, <3>1 DEF Search, Step, TypeOK
    <3>3. /\ pc[t] = "search" /\ pc'[t] = "take" /\ index'[t] = i
          /\ UNCHANGED <<g_interval, g_mutex_index>>
      BY <1>0, <2>8, <3>1 DEF Search, Step, TypeOK
    <3>4. \A u \in Threads : HasSlice(u)' => HasSlice(u) /\ u # t
      BY <3>2, <3>3 DEF HasSlice
    <3>5. \A u \in Threads : HoldsIndex(u)' => HoldsIndex(u)
      BY <3>2, <3>3 DEF HoldsIndex
    <3>6. \A u \in Threads : HasSlice(u)' => g_interval'[index'[u]].use = 1
      BY <1>0, <3>2, <3>3, <3>4 DEF Dealt
    <3>7. \A u \in Threads : pc'[u] = "take" => g_interval'[index'[u]].use = 0
      BY <1>0, <3>1, <3>2, <3>3 DEF Dealt
    <3>8. \A u \in Threads : HoldsIndex(u)' => g_mutex_index' = u
      BY <1>0, <3>3, <3>5 DEF Dealt
    <3>9. OneThreadPerSlice'
      BY <1>0, <3>2, <3>4 DEF Dealt, OneThreadPerSlice
    <3> QED
      BY <3>6, <3>7, <3>8, <3>9 DEF Dealt
  <2>9. CASE TakeSlice(t)
    <3>1. /\ pc[t] = "take" /\ pc'[t] = "request" /\ UNCHANGED index
          /\ \A u \in Threads : u # t => pc'[u] = pc[u]
      BY <1>0, <2>9 DEF TakeSlice, Step, TypeOK
    <3>2. g_mutex_index = t /\ g_interval[index[t]].use = 0
      BY <1>0, <3>1 DEF Dealt, HoldsIndex
    <3>3. \A u \in Threads : u # t => ~HoldsIndex(u)
      BY <1>0, <3>2 DEF Dealt
    <3>4. \A u \in Threads : HasSlice(u) => index[u] # index[t]
      BY <1>0, <3>2 DEF Dealt
    <3>5. /\ \A i \in Slices : i # index[t] => g_interval'[i] = g_interval[i]
          /\ g_interval'[index[t]].use = 1
      BY <1>0, <2>9 DEF TakeSlice, TypeOK, Interval
    <3>6. \A u \in Threads : index[u] \in Slices
      BY <1>0 DEF TypeOK
    <3>7. \A u \in Threads : ~HoldsIndex(u)' /\ pc'[u] # "take"
      BY <3>1, <3>3 DEF HoldsIndex
    <3>8. \A u \in Threads : HasSlice(u)' => u = t \/ HasSlice(u)
      BY <3>1 DEF HasSlice
    <3>9. \A u \in Threads : HasSlice(u)' => g_interval'[index'[u]].use = 1
      BY <1>0, <3>1, <3>4, <3>5, <3>6, <3>8 DEF Dealt
    <3>10. OneThreadPerSlice'
      BY <1>0, <3>1, <3>4, <3>8 DEF Dealt, OneThreadPerSlice
    <3> QED
      BY <3>7, <3>9, <3>10 DEF Dealt
  <2>10. CASE Request(t)
    <3>1. /\ \A u \in Threads : u # t => pc'[u] = pc[u]
          /\ pc'[t] \notin {"search", "take"}
          /\ HasSlice(t)' => HasSlice(t)
      BY <1>0, <2>10 DEF Request, Step, HasSlice, TypeOK
    <3>2. UNCHANGED <<g_interval, index, g_mutex_index>>
      BY <2>10 DEF Request
    <3> QED
      BY <3>1, <3>2, Elsewhere
  <2>11. CASE Arrive(t)
    <3>1. /\ \A u \in Threads : u # t => pc'[u] = pc[u]
          /\ pc'[t] \notin {"search", "take"}
          /\ HasSlice(t)' => HasSlice(t)
      BY <1>0, <2>11 DEF Arrive, Step, HasSlice, TypeOK
    <3>2. UNCHANGED <<g_interval, index, g_mutex_index>>
      BY <2>11 DEF Arrive
    <3> QED
      BY <3>1, <3>2, Elsewhere
  <2>12. CASE PerformEnds(t)
    <3>1. /\ \A u \in Threads : u # t => pc'[u] = pc[u]
          /\ pc'[t] \notin {"search", "take"}
          /\ HasSlice(t)' => HasSlice(t)
      BY <1>0, <2>12 DEF PerformEnds, Step, HasSlice, TypeOK
    <3>2. UNCHANGED <<g_interval, index, g_mutex_index>>
      BY <2>12 DEF PerformEnds
    <3> QED
      BY <3>1, <3>2, Elsewhere
  <2>13. CASE Lock(t)
    <3>1. /\ \A u \in Threads : u # t => pc'[u] = pc[u]
          /\ pc'[t] \notin {"search", "take"}
          /\ HasSlice(t)' => HasSlice(t)
      BY <1>0, <2>13 DEF Lock, Step, HasSlice, TypeOK
    <3>2. UNCHANGED <<g_interval, index, g_mutex_index>>
      BY <2>13 DEF Lock
    <3> QED
      BY <3>1, <3>2, Elsewhere
  <2>14. CASE Seek(t)
    <3>1. /\ \A u \in Threads : u # t => pc'[u] = pc[u]
          /\ pc'[t] \notin {"search", "take"}
          /\ HasSlice(t)' => HasSlice(t)
      BY <1>0, <2>14 DEF Seek, Step, HasSlice, TypeOK
    <3>2. UNCHANGED <<g_interval, index, g_mutex_index>>
      BY <2>14 DEF Seek
    <3> QED
      BY <3>1, <3>2, Elsewhere
  <2>15. CASE Write(t)
    <3>1. /\ \A u \in Threads : u # t => pc'[u] = pc[u]
          /\ pc'[t] \notin {"search", "take"}
          /\ HasSlice(t)' => HasSlice(t)
      BY <1>0, <2>15 DEF Write, Step, HasSlice, TypeOK
    <3>2. \A i \in Slices : g_interval'[i].use = g_interval[i].use
      BY <1>0, <2>15 DEF Write, TypeOK, Interval
    <3>3. UNCHANGED <<index, g_mutex_index>>
      BY <2>15 DEF Write
    <3> QED
      BY <3>1, <3>2, <3>3, Elsewhere
  <2>16. CASE WriteRest(t)
    <3>1. /\ \A u \in Threads : u # t => pc'[u] = pc[u]
          /\ pc'[t] \notin {"search", "take"}
          /\ HasSlice(t)' => HasSlice(t)
      BY <1>0, <2>16 DEF WriteRest, Step, HasSlice, TypeOK
    <3>2. \A i \in Slices : g_interval'[i].use = g_interval[i].use
      BY <1>0, <2>16 DEF WriteRest, TypeOK, Interval
    <3>3. UNCHANGED <<index, g_mutex_index>>
      BY <2>16 DEF WriteRest
    <3> QED
      BY <3>1, <3>2, <3>3, Elsewhere
  <2>17. CASE WriteToNull(t)
    <3>1. /\ \A u \in Threads : u # t => pc'[u] = pc[u]
          /\ pc'[t] \notin {"search", "take"}
          /\ HasSlice(t)' => HasSlice(t)
      BY <1>0, <2>17 DEF WriteToNull, Step, HasSlice, TypeOK
    <3>2. UNCHANGED <<g_interval, index, g_mutex_index>>
      BY <2>17 DEF WriteToNull
    <3> QED
      BY <3>1, <3>2, Elsewhere
  <2> QED
    BY <1>4, <2>1, <2>2, <2>3, <2>4, <2>5, <2>6, <2>7, <2>8, <2>9, <2>10, <2>11, <2>12, <2>13,
       <2>14, <2>15, <2>16, <2>17
       DEF thread_func, OpenFile, ChooseSlice, download_directly, write_callback
<1> QED
  BY <1>1, <1>2, <1>3, <1>4 DEF Next

(* Only Open leads to the store, and it has called fopen. *)
LEMMA StepCalled == IInv /\ [Next]_vars => Called'
<1> SUFFICES ASSUME IInv, [Next]_vars, NEW u \in Threads, pc'[u] = "store"
             PROVE  opened'[u] # NotCalled
  BY DEF Called
<1> USE DEF shared, locks, reply
<1>0. TypeOK /\ Called
  BY DEF IInv
<1>1. CASE UNCHANGED vars
  BY <1>0, <1>1 DEF vars, Called
<1>2. CASE Create
  BY <1>0, <1>2 DEF Create, Called, TypeOK
<1>3. CASE CreateFails
  BY <1>0, <1>3 DEF CreateFails, Called
<1>4. ASSUME NEW t \in Threads, thread_func(t) PROVE opened'[u] # NotCalled
  <2>1. CASE Open(t)
    <3>1. Len(streams') # NotCalled /\ NULL # NotCalled
      <4>1. streams' \in Seq(Stream)
        BY <1>4, StepTyped DEF TypeOK, Next
      <4> QED
        BY <4>1, LenProperties, SMT DEF NULL, NotCalled
    <3>2. CASE u = t
      BY <1>0, <2>1, <3>1, <3>2 DEF Open, TypeOK
    <3>3. CASE u # t
      BY <1>0, <2>1, <3>3 DEF Open, Step, TypeOK, Called
    <3> QED
      BY <3>2, <3>3
  <2>2. CASE ~Open(t)
    <3>1. opened' = opened /\ \E to \in Labels \ {"store"} : pc' = [pc EXCEPT ![t] = to]
      <4>1. CASE CopyDirectory(t)
        BY <4>1 DEF CopyDirectory, Step, Labels
      <4>2. CASE AppendName(t)
        BY <4>2 DEF AppendName, Step, Labels
      <4>3. CASE TestFile(t)
        BY <4>3 DEF TestFile, Step, Labels
      <4>4. CASE StoreFile(t)
        BY <4>4 DEF StoreFile, Step, Labels
      <4>5. CASE CheckFile(t)
        BY <4>5 DEF CheckFile, Step, Labels
      <4>6. CASE LockIndex(t)
        BY <4>6 DEF LockIndex, Step, Labels
      <4>7. CASE Search(t)
        BY <4>7 DEF Search, Step, Labels
      <4>8. CASE TakeSlice(t)
        BY <4>8 DEF TakeSlice, Step, Labels
      <4>9. CASE Request(t)
        BY <4>9 DEF Request, Step, Labels
      <4>10. CASE Arrive(t)
        BY <4>10 DEF Arrive, Step, Labels
      <4>11. CASE PerformEnds(t)
        BY <4>11 DEF PerformEnds, Step, Labels
      <4>12. CASE Lock(t)
        BY <4>12 DEF Lock, Step, Labels
      <4>13. CASE Seek(t)
        BY <4>13 DEF Seek, Step, Labels
      <4>14. CASE Write(t)
        BY <4>14 DEF Write, Step, Labels
      <4>15. CASE WriteRest(t)
        BY <4>15 DEF WriteRest, Step, Labels
      <4>16. CASE WriteToNull(t)
        BY <4>16 DEF WriteToNull, Step, Labels
      <4> QED
        BY <1>4, <2>2, <4>1, <4>2, <4>3, <4>4, <4>5, <4>6, <4>7, <4>8,
           <4>9, <4>10, <4>11, <4>12, <4>13, <4>14, <4>15, <4>16
           DEF thread_func, OpenFile, ChooseSlice, download_directly, write_callback
    <3> QED
      BY <1>0, <3>1 DEF TypeOK, Called
  <2> QED
    BY <2>1, <2>2
<1> QED
  BY <1>1, <1>2, <1>3, <1>4 DEF Next

-----------------------------------------------------------------------------
(* The inductive invariant, and what follows from it *)

LEMMA InitInvariant == Init => IInv
<1> SUFFICES ASSUME Init PROVE IInv
  OBVIOUS
<1>1. \A t \in Threads : pc[t] = "absent"
  BY DEF Init
<1> QED
  BY <1>1, InitTyped DEF IInv, Called, Dealt, HoldsIndex, HasSlice, OneThreadPerSlice

LEMMA StepInvariant == IInv /\ [Next]_vars => IInv'
BY StepTyped, StepDealt, StepCalled DEF IInv

LEMMA Invariant == Spec => []IInv
BY InitInvariant, StepInvariant, PTL DEF Spec

(* Every variable keeps to its type: an index stays within the slices, the  *)
(* FILE is one that fopen returned or NULL.                                 *)
THEOREM TypeCorrect == Spec => []TypeOK
<1>1. IInv => TypeOK
  BY DEF IInv
<1> QED
  BY <1>1, Invariant, PTL

(* g_mutex_index gives each thread a slice of its own, and the slices cover *)
(* a long enough file without overlap, however many threads there are.      *)
THEOREM SlicesAreDealtOut == Spec => []SlicesDealtOut
<1>1. IInv => SlicesDealtOut
  <2> SUFFICES ASSUME IInv PROVE SlicesDealtOut
    OBVIOUS
  <2>1. file_length \in Nat
    BY DEF IInv, TypeOK
  <2> QED
    BY <2>1, Partition DEF IInv, Dealt, SlicesDealtOut
<1> QED
  BY <1>1, Invariant, PTL

-----------------------------------------------------------------------------
(* The file is right.  This needs more than the type and the lock of the    *)
(* slices: who opens the file, which files there are, what each thread asks *)
(* for, where the FILE is between fseek and fwrite, and what is on disk.    *)

(* A thread opens the file before it takes a slice, and once: while there   *)
(* is one FILE, it is open for the threads that got past it.                *)
Past(t) == pc[t] \in {"lock index", "search", "take"} \/ HasSlice(t)

Opening ==
    /\ \A t \in Threads : t >= created => pc[t] = "absent"
    /\ \A t \in Threads : pc[t] \in {"absent", "start", "name", "test", "open"} => opened[t] = NotCalled
    /\ OpenedOnce => /\ \A t \in Threads : Past(t) => g_pFile # NULL
                     /\ \A t \in Threads : pc[t] = "store" => g_pFile = NULL
                     /\ g_pFile # NULL => \E t \in Threads : opened[t] # NotCalled

(* The name is appended once for each thread that got to it.                *)
Named == {t \in Threads : pc[t] \notin {"absent", "start", "name"}}

Paths ==
    /\ path <= Cardinality(Named)
    /\ \A k \in 1..Len(streams) : streams[k].path \in 1..THREAD_NUM
    /\ disk \in [1..THREAD_NUM -> [0..(file_length - 1) -> Int]]

(* What a thread asks the server for is its slice, and it writes what it    *)
(* got to the beginning of the rest; nobody begins a slice but its thread.  *)
(* For an empty slice it asks for the whole file.                           *)
NoBytes(i) == i * range(file_length) = end_iter(file_length, i) + 1

Fetching(t) == HasSlice(t) /\ pc[t] # "request"

Asked(t) ==
    IF NoBytes(index[t])
    THEN /\ Slice(t).begin_iter = index[t] * range(file_length)
         /\ next[t] = 0 /\ last[t] = file_length - 1
    ELSE /\ next[t] = Slice(t).begin_iter /\ last[t] = Slice(t).end_iter
         /\ index[t] * range(file_length) <= next[t] /\ next[t] <= last[t] + 1

(* The slices nobody took begin where they were cut. *)
Cut ==
    /\ \A i \in Slices : g_interval[i].end_iter = end_iter(file_length, i)
    /\ \A i \in Slices : g_interval[i].use = 0 => g_interval[i].begin_iter = i * range(file_length)

RangeOf(t) ==
    /\ pc[t] = "request" => Slice(t).begin_iter = index[t] * range(file_length)
    /\ Fetching(t) => Asked(t)
    /\ pc[t] \in {"lock", "seek", "write"} => chunk[t] \in 1..(last[t] - next[t] + 1)
    /\ pc[t] = "done" => next[t] > last[t]
    /\ pc[t] = "failed" => NoBytes(index[t])

Ranges == Cut /\ \A t \in Threads : RangeOf(t)

(* Between fseek and fwrite the FILE is where the slice goes on.            *)
Positions ==
    /\ \A t \in Threads : pc[t] \in {"seek", "write"} => g_mutex = t
    /\ OpenedOnce => \A t \in Threads : pc[t] = "write" => streams[g_pFile].pos = Slice(t).begin_iter

(* The part of a slice that was fetched is in the file.                     *)
OnDisk ==
    OpenedOnce =>
        /\ \A p \in 1..THREAD_NUM, b \in 0..(file_length - 1) : disk[p][b] \in {b, Empty}
        /\ \A t \in Threads : HasSlice(t) =>
              \A b \in 0..(file_length - 1) :
                  InSlice(b, index[t]) /\ b < Slice(t).begin_iter => disk[streams[g_pFile].path][b] = b

FInv == Opening /\ Paths /\ Ranges /\ Positions /\ OnDisk

(* What a thread that moves leaves alone. *)
Goes(t, from, to) ==
    pc[t] = from /\ pc'[t] = to /\ \A u \in Threads : u # t => pc'[u] = pc[u]

(* The thread that steps goes from one label to another, alone.             *)
LEMMA Stepped ==
    ASSUME TypeOK, NEW t \in Threads, NEW from, NEW to, Step(t, from, to)
    PROVE  Goes(t, from, to)
BY DEF TypeOK, Step, Goes

(* A thread that has no slice yet, and does not touch the file. *)
QuietMove(t) ==
    /\ UNCHANGED <<file_length, g_interval, g_pFile, streams, disk, g_mutex, opened, reply>>
    /\ \A u \in Threads : u # t => pc'[u] = pc[u] /\ index'[u] = index[u]
    /\ ~HasSlice(t) /\ ~HasSlice(t)' /\ pc'[t] # "store"

(* The steps before a thread has its slice. *)
LEMMA BeforeSlice ==
    ASSUME TypeOK, NEW t \in Threads,
           CopyDirectory(t) \/ AppendName(t) \/ TestFile(t) \/ CheckFile(t) \/ LockIndex(t) \/ Search(t)
    PROVE  QuietMove(t) /\ created' = created /\ pc[t] # "absent"
<1> USE DEF shared, locks, reply
<1>1. CASE CopyDirectory(t)
  <2>1. Goes(t, "start", "name")
    BY <1>1, Stepped DEF CopyDirectory
  <2>2. /\ UNCHANGED <<file_length, g_interval, g_pFile, streams, disk, g_mutex, opened, reply>>
        /\ index' = index /\ created' = created
    BY <1>1 DEF CopyDirectory
  <2> QED
    BY <2>1, <2>2 DEF Goes, QuietMove, HasSlice
<1>2. CASE AppendName(t)
  <2>1. Goes(t, "name", "test")
    BY <1>2, Stepped DEF AppendName
  <2>2. /\ UNCHANGED <<file_length, g_interval, g_pFile, streams, disk, g_mutex, opened, reply>>
        /\ index' = index /\ created' = created
    BY <1>2 DEF AppendName
  <2> QED
    BY <2>1, <2>2 DEF Goes, QuietMove, HasSlice
<1>3. CASE TestFile(t)
  <2>1. Goes(t, "test", IF g_pFile = NULL THEN "open" ELSE "lock index")
    BY <1>3, Stepped DEF TestFile
  <2>2. /\ UNCHANGED <<file_length, g_interval, g_pFile, streams, disk, g_mutex, opened, reply>>
        /\ index' = index /\ created' = created
    BY <1>3 DEF TestFile
  <2> QED
    BY <2>1, <2>2 DEF Goes, QuietMove, HasSlice
<1>4. CASE CheckFile(t)
  <2>1. Goes(t, "check", IF g_pFile = NULL THEN "no file" ELSE "lock index")
    BY <1>4, Stepped DEF CheckFile
  <2>2. /\ UNCHANGED <<file_length, g_interval, g_pFile, streams, disk, g_mutex, opened, reply>>
        /\ index' = index /\ created' = created
    BY <1>4 DEF CheckFile
  <2> QED
    BY <2>1, <2>2 DEF Goes, QuietMove, HasSlice
<1>5. CASE LockIndex(t)
  <2>1. Goes(t, "lock index", "search")
    BY <1>5, Stepped DEF LockIndex
  <2>2. /\ UNCHANGED <<file_length, g_interval, g_pFile, streams, disk, g_mutex, opened, reply>>
        /\ index' = index /\ created' = created
    BY <1>5 DEF LockIndex
  <2> QED
    BY <2>1, <2>2 DEF Goes, QuietMove, HasSlice
<1>6. CASE Search(t)
  <2>1. Goes(t, "search", "take") /\ \A u \in Threads : u # t => index'[u] = index[u]
    BY <1>6, Stepped DEF Search, TypeOK
  <2> QED
    BY <1>6, <2>1 DEF Search, Goes, QuietMove, HasSlice
<1> QED
  BY <1>1, <1>2, <1>3, <1>4, <1>5, <1>6

(* The steps of a thread with a slice. *)
LEMMA WithSlice ==
    ASSUME TypeOK, NEW t \in Threads,
           Request(t) \/ Arrive(t) \/ PerformEnds(t) \/ Lock(t) \/ Seek(t) \/ Write(t) \/ WriteRest(t)
             \/ WriteToNull(t)
    PROVE  /\ UNCHANGED <<file_length, path, g_pFile, g_mutex_index, created, index, opened>>
           /\ HasSlice(t) /\ HasSlice(t)' /\ \A u \in Threads : u # t => pc'[u] = pc[u]
<1> USE DEF shared, locks, reply
<1>1. CASE Request(t)
  BY <1>1, Stepped DEF Request, Goes, HasSlice
<1>2. CASE Arrive(t)
  BY <1>2, Stepped DEF Arrive, Goes, HasSlice
<1>3. CASE PerformEnds(t)
  BY <1>3, Stepped DEF PerformEnds, Goes, HasSlice
<1>4. CASE Lock(t)
  BY <1>4, Stepped DEF Lock, Goes, HasSlice
<1>5. CASE Seek(t)
  BY <1>5, Stepped DEF Seek, Goes, HasSlice
<1>6. CASE Write(t)
  BY <1>6, Stepped DEF Write, Goes, HasSlice
<1>7. CASE WriteRest(t)
  BY <1>7, Stepped DEF WriteRest, Goes, HasSlice
<1>8. CASE WriteToNull(t)
  BY <1>8, Stepped DEF WriteToNull, Goes, HasSlice
<1> QED
  BY <1>1, <1>2, <1>3, <1>4, <1>5, <1>6, <1>7, <1>8

(* There are THREAD_NUM threads.                                            *)
LEMMA ThreadsFinite == IsFiniteSet(Threads) /\ Cardinality(Threads) = THREAD_NUM
<1> DEFINE n == THREAD_NUM - 1
<1>1. n \in Int /\ 0 \in Int /\ ~(0 > n) /\ n - 0 + 1 = THREAD_NUM
  BY SMT
<1>2. Threads = 0..n
  BY DEF Threads
<1> HIDE DEF n
<1>3. IsFiniteSet(0..n) /\ Cardinality(0..n) = IF 0 > n THEN 0 ELSE n - 0 + 1
  BY <1>1, FS_Interval, Zenon
<1> QED
  BY <1>1, <1>2, <1>3, Zenon

(* One who opens a file opens it once. *)
LEMMA OnlyOne ==
    ASSUME TypeOK, OpenedOnce, NEW t \in Threads, NEW u \in Threads,
           opened[t] # NotCalled, opened[u] # NotCalled
    PROVE  t = u
<1> DEFINE S == {w \in Threads : opened[w] # NotCalled}
<1>1. IsFiniteSet(Threads)
  BY ThreadsFinite
<1>2. IsFiniteSet(S) /\ Cardinality(S) \in Nat /\ Cardinality(S) <= 1
  <2>1. S \in SUBSET Threads
    OBVIOUS
  <2>2. IsFiniteSet(S)
    BY <1>1, <2>1, FS_Subset
  <2> QED
    BY <2>2, FS_CardinalityType DEF OpenedOnce
<1>3. ASSUME t # u PROVE FALSE
  <2>1. IsFiniteSet({t}) /\ Cardinality({t}) = 1 /\ IsFiniteSet({t} \cup {u})
    BY FS_Singleton, FS_Union
  <2>2. Cardinality({t} \cup {u}) = 2
    <3>1. Cardinality({t} \cup {u}) = Cardinality({t}) + 1
      BY <1>3, <2>1, FS_AddElement
    <3> QED
      BY <2>1, <3>1
  <2>3. {t} \cup {u} \in SUBSET S
    OBVIOUS
  <2>4. Cardinality({t} \cup {u}) <= Cardinality(S)
    BY <1>2, <2>3, FS_Subset
  <2> QED
    BY <1>2, <2>2, <2>4
<1> QED
  BY <1>3

(* No fopen is taken back. *)
LEMMA OpenedBefore ==
    ASSUME TypeOK, TypeOK', \A t \in Threads : opened[t] # NotCalled => opened'[t] # NotCalled, OpenedOnce'
    PROVE  OpenedOnce
<1> DEFINE S == {w \in Threads : opened[w] # NotCalled}
<1> DEFINE T == {w \in Threads : opened'[w] # NotCalled}
<1>1. IsFiniteSet(Threads)
  BY ThreadsFinite
<1>2. S \subseteq T /\ IsFiniteSet(T) /\ Cardinality(T) <= 1 /\ Cardinality(T) \in Nat
  <2>1. S \subseteq T /\ T \in SUBSET Threads
    OBVIOUS
  <2>2. IsFiniteSet(T)
    BY <1>1, <2>1, FS_Subset
  <2> QED
    BY <2>1, <2>2, FS_CardinalityType DEF OpenedOnce
<1>3. Cardinality(S) <= Cardinality(T) /\ Cardinality(S) \in Nat
  BY <1>2, FS_Subset, FS_CardinalityType
<1> QED
  BY <1>2, <1>3 DEF OpenedOnce

OneOpener == \A t, u \in Threads : opened[t] # NotCalled /\ opened[u] # NotCalled => t = u

(* One fopen has one caller.                                                *)
LEMMA OpenedByOne == TypeOK /\ OpenedOnce => OneOpener
BY OnlyOne DEF OneOpener

Early(t) == pc[t] \in {"absent", "start", "name", "test", "open"}

(* A thread that goes on without fopen, and gets past the test only if the  *)
(* file is open.                                                            *)
LEMMA OpeningKept ==
    ASSUME TypeOK, Opening, NEW t \in Threads, UNCHANGED <<opened, g_pFile>>,
           \A u \in Threads : u >= created' => u # t /\ u >= created,
           \A u \in Threads : u # t => pc'[u] = pc[u],
           Early(t)' => Early(t), Past(t)' => Past(t) \/ g_pFile # NULL, pc'[t] # "store"
    PROVE  Opening'
<1>1. \A u \in Threads : u >= created' => pc'[u] = "absent"
  BY DEF Opening
<1>2. \A u \in Threads : Early(u)' => Early(u)
  BY DEF Early
<1>3. \A u \in Threads : pc'[u] \in {"absent", "start", "name", "test", "open"} => opened'[u] = NotCalled
  BY <1>2 DEF Early, Opening
<1>4. \A u \in Threads : Past(u)' => Past(u) \/ g_pFile # NULL
  BY DEF Past, HasSlice
<1>5. \A u \in Threads : pc'[u] = "store" => pc[u] = "store"
  OBVIOUS
<1>6. OpenedOnce' <=> OpenedOnce
  BY DEF OpenedOnce
<1> QED
  BY <1>1, <1>3, <1>4, <1>5, <1>6 DEF Opening

(* Who opens the one FILE finds none open. *)
LEMMA OpenAlone ==
    ASSUME TypeOK, TypeOK', Opening, NEW t \in Threads, Open(t), OpenedOnce'
    PROVE  g_pFile = NULL /\ OpenedOnce
<1>1. Goes(t, "open", "store") /\ \A u \in Threads : u # t => opened'[u] = opened[u]
  BY Stepped DEF Open, TypeOK
<1>2. opened[t] = NotCalled
  BY <1>1 DEF Goes, Opening
<1>3. opened'[t] # NotCalled
  <2>1. opened'[t] = NULL \/ opened'[t] = Len(streams')
    BY DEF Open, TypeOK
  <2>2. streams' \in Seq(Stream)
    BY DEF TypeOK
  <2> QED
    BY <2>1, <2>2, LenProperties, SMT DEF NULL, NotCalled
<1>4. \A u \in Threads : opened[u] = NotCalled
  <2> SUFFICES ASSUME NEW u \in Threads, opened[u] # NotCalled PROVE FALSE
    OBVIOUS
  <2>1. u # t /\ opened'[u] # NotCalled
    BY <1>1, <1>2
  <2>2. OneOpener'
    BY OpenedByOne, PTL
  <2> QED
    BY <1>3, <2>1, <2>2 DEF OneOpener
<1>5. OpenedOnce
  BY <1>1, <1>2, OpenedBefore
<1> QED
  BY <1>4, <1>5 DEF Opening

(* Every step keeps to the order of test, fopen and slice.                  *)
LEMMA StepOpening == IInv /\ IInv' /\ Opening /\ [Next]_vars => Opening'
<1> SUFFICES ASSUME IInv, IInv', Opening, [Next]_vars PROVE Opening'
  OBVIOUS
<1> USE DEF shared, locks, reply
<1>0. TypeOK /\ TypeOK' /\ Called
  BY DEF IInv
<1>1. CASE UNCHANGED vars
  BY <1>1 DEF vars, Opening, Past, HasSlice, OpenedOnce
<1>2. CASE Create
  <2>1. created \in Threads /\ \A u \in Threads : u >= created + 1 => u # created /\ u >= created
    BY <1>0, <1>2, SMT DEF Create, TypeOK, Threads
  <2>2. /\ \A u \in Threads : u # created => pc'[u] = pc[u]
        /\ pc'[created] = "start" /\ created' = created + 1
        /\ UNCHANGED <<opened, g_pFile>>
    BY <1>0, <1>2, <2>1 DEF Create, TypeOK
  <2>3. pc[created] = "absent"
    BY <1>0, <2>1, SMT DEF Opening, TypeOK
  <2> QED
    BY <1>0, <2>1, <2>2, <2>3, OpeningKept DEF Early, Past, HasSlice
<1>3. CASE CreateFails
  <2>1. \A u \in Threads : ~(u >= THREAD_NUM)
    BY SMT DEF Threads
  <2>2. created' = THREAD_NUM /\ UNCHANGED <<pc, opened, g_pFile>>
    BY <1>3 DEF CreateFails
  <2> QED
    BY <2>1, <2>2 DEF Opening, Past, HasSlice, OpenedOnce
<1>4. ASSUME NEW t \in Threads, thread_func(t) PROVE Opening'
  <2>0. pc[t] # "absent" => \A u \in Threads : u >= created => u # t /\ u >= created
    BY DEF Opening
  <2>1. CASE CopyDirectory(t) \/ AppendName(t) \/ TestFile(t) \/ CheckFile(t) \/ LockIndex(t) \/ Search(t)
    <3>1. QuietMove(t) /\ created' = created /\ pc[t] # "absent"
      BY <1>0, <2>1, BeforeSlice
    <3>2. (Early(t)' => Early(t)) /\ (Past(t)' => Past(t) \/ g_pFile # NULL)
      <4>1. CASE CopyDirectory(t) \/ AppendName(t)
        BY <1>0, <4>1 DEF CopyDirectory, AppendName, Step, Early, Past, HasSlice, TypeOK
      <4>2. CASE TestFile(t) \/ CheckFile(t)
        BY <1>0, <4>2 DEF TestFile, CheckFile, Step, Early, Past, HasSlice, TypeOK
      <4>3. CASE LockIndex(t) \/ Search(t)
        BY <1>0, <4>3 DEF LockIndex, Search, Step, Early, Past, HasSlice, TypeOK
      <4> QED
        BY <2>1, <4>1, <4>2, <4>3
    <3> QED
      BY <1>0, <2>0, <3>1, <3>2, OpeningKept DEF QuietMove
  <2>2. CASE Open(t)
    <3>1. /\ pc[t] = "open" /\ pc'[t] = "store" /\ \A u \in Threads : u # t => pc'[u] = pc[u]
          /\ \A u \in Threads : u # t => opened'[u] = opened[u]
          /\ UNCHANGED <<created, g_pFile>>
      BY <1>0, <2>2 DEF Open, Step, TypeOK
    <3>2. opened[t] = NotCalled /\ opened'[t] # NotCalled
      BY <3>1, <1>0 DEF Opening, IInv, Called
    <3>3. \A u \in Threads : Past(u)' => Past(u)
      BY <3>1 DEF Past, HasSlice
    <3>4. ASSUME OpenedOnce' PROVE g_pFile = NULL /\ OpenedOnce
      BY <1>0, <2>2, <3>4, OpenAlone DEF IInv
    <3> QED
      BY <3>1, <3>2, <3>3, <3>4 DEF Opening
  <2>3. CASE StoreFile(t)
    <3>1. /\ pc[t] = "store" /\ pc'[t] = "check" /\ \A u \in Threads : u # t => pc'[u] = pc[u]
          /\ g_pFile' = opened[t] /\ UNCHANGED <<created, opened>>
      BY <1>0, <2>3 DEF StoreFile, Step, TypeOK
    <3>2. opened[t] # NotCalled
      BY <1>0, <3>1 DEF Called
    <3>3. \A u \in Threads : Past(u)' => Past(u)
      BY <3>1 DEF Past, HasSlice
    <3>4. OpenedOnce' <=> OpenedOnce
      BY <3>1 DEF OpenedOnce
    <3>5. OpenedOnce => (\A u \in Threads : ~Past(u)) /\ \A u \in Threads : u # t => pc[u] # "store"
      BY <1>0, <3>1, <3>2, OnlyOne DEF Opening, Called
    <3> QED
      BY <3>1, <3>2, <3>3, <3>4, <3>5 DEF Opening
  <2>4. CASE TakeSlice(t)
    <3>1. /\ pc[t] = "take" /\ pc'[t] = "request" /\ \A u \in Threads : u # t => pc'[u] = pc[u]
          /\ UNCHANGED <<created, opened, g_pFile>>
      BY <1>0, <2>4 DEF TakeSlice, Step, TypeOK
    <3> QED
      BY <1>0, <2>0, <3>1, OpeningKept DEF Early, Past, HasSlice
  <2>5. CASE \/ Request(t) \/ Arrive(t) \/ PerformEnds(t) \/ Lock(t) \/ Seek(t) \/ Write(t)
             \/ WriteRest(t) \/ WriteToNull(t)
    <3>1. /\ UNCHANGED <<g_pFile, created, opened>>
          /\ HasSlice(t) /\ HasSlice(t)' /\ \A u \in Threads : u # t => pc'[u] = pc[u]
      BY <1>0, <2>5, WithSlice
    <3> QED
      BY <1>0, <2>0, <3>1, OpeningKept DEF Early, Past, HasSlice
  <2> QED
    BY <1>4, <2>1, <2>2, <2>3, <2>4, <2>5
       DEF thread_func, OpenFile, ChooseSlice, download_directly, write_callback
<1> QED
  BY <1>1, <1>2, <1>3, <1>4 DEF Next

-----------------------------------------------------------------------------
(* The names, and what the files hold *)

(* No more names are appended than there are threads.                       *)
LEMMA NamedFinite == IsFiniteSet(Named) /\ Cardinality(Named) \in 0..THREAD_NUM
<1>1. Named \in SUBSET Threads
  BY DEF Named
<1>2. IsFiniteSet(Named) /\ Cardinality(Named) <= THREAD_NUM
  BY <1>1, ThreadsFinite, FS_Subset
<1>3. Cardinality(Named) \in Nat
  BY <1>2, FS_CardinalityType
<1> QED
  BY <1>2, <1>3

(* No thread goes back before the append. *)
LEMMA NamedGrows ==
    ASSUME \A u \in Threads : pc'[u] \in {"absent", "start", "name"} => pc[u] \in {"absent", "start", "name"}
    PROVE  Cardinality(Named) <= Cardinality(Named')
<1>1. Named \subseteq Named'
  BY DEF Named
<1>2. Named \in SUBSET Threads /\ Named' \in SUBSET Threads
  BY DEF Named
<1>3. IsFiniteSet(Named')
  BY <1>2, ThreadsFinite, FS_Subset
<1> QED
  BY <1>1, <1>3, FS_Subset

(* A FILE whose position moves is open at the same path. *)
LEMMA SamePath ==
    ASSUME TypeOK, g_pFile # NULL, NEW p \in Int, streams' = [streams EXCEPT ![g_pFile].pos = p]
    PROVE  /\ Len(streams') = Len(streams) /\ g_pFile \in 1..Len(streams)
           /\ \A k \in 1..Len(streams) : streams'[k].path = streams[k].path
           /\ streams'[g_pFile].pos = p
<1>1. streams \in Seq(Stream) /\ Len(streams) \in Nat /\ g_pFile \in 1..Len(streams)
  BY LenProperties DEF TypeOK, NULL
<1>2. streams[g_pFile] \in Stream /\ \A k \in 1..Len(streams) : streams[k] \in Stream
  BY <1>1, ElementOfSeq
<1>3. Len(streams') = Len(streams)
  BY Repositioned
<1>4. \A k \in 1..Len(streams) : streams'[k] = IF k = g_pFile THEN [streams[k] EXCEPT !.pos = p] ELSE streams[k]
  BY <1>1, LenProperties
<1>5. [streams[g_pFile] EXCEPT !.pos = p].path = streams[g_pFile].path /\ [streams[g_pFile] EXCEPT !.pos = p].pos = p
  BY <1>2 DEF Stream
<1> QED
  BY <1>1, <1>3, <1>4, <1>5

(* What fwrite does to the file it writes to. *)
LEMMA FwriteDisk ==
    ASSUME TypeOK, Paths, g_pFile # NULL, NEW t \in Threads, NEW n \in Int, Fwrite(t, n)
    PROVE  /\ g_pFile \in 1..Len(streams)
           /\ streams[g_pFile].path \in 1..THREAD_NUM /\ streams[g_pFile].pos \in Int
           /\ Len(streams') = Len(streams) /\ \A k \in 1..Len(streams) : streams'[k].path = streams[k].path
           /\ disk' \in [1..THREAD_NUM -> [0..(file_length - 1) -> Int]]
           /\ \A p \in 1..THREAD_NUM, b \in 0..(file_length - 1) :
                 disk'[p][b] = IF p = streams[g_pFile].path /\ streams[g_pFile].pos <= b
                                    /\ b < streams[g_pFile].pos + n
                               THEN next[t] + (b - streams[g_pFile].pos) ELSE disk[p][b]
<1> DEFINE f == streams[g_pFile]
<1>1. f.pos \in Int
  BY Repositioned
<1>2. streams' = [streams EXCEPT ![g_pFile].pos = f.pos + n] /\ f.pos + n \in Int
  BY <1>1 DEF Fwrite
<1>3. /\ g_pFile \in 1..Len(streams) /\ Len(streams') = Len(streams)
      /\ \A k \in 1..Len(streams) : streams'[k].path = streams[k].path
  BY <1>2, SamePath
<1>4. f.path \in 1..THREAD_NUM
  BY <1>3 DEF Paths
<1> DEFINE new == [b \in 0..(file_length - 1) |-> IF f.pos <= b /\ b < f.pos + n
                                                  THEN next[t] + (b - f.pos) ELSE disk[f.path][b]]
<1>5. disk \in [1..THREAD_NUM -> [0..(file_length - 1) -> Int]] /\ next[t] \in Int
  BY DEF Paths, TypeOK
<1>6. disk' = [disk EXCEPT ![f.path] = new]
  <2>1. DOMAIN disk[f.path] = 0..(file_length - 1)
    BY <1>4, <1>5
  <2>2. disk' = [disk EXCEPT ![f.path] = [b \in DOMAIN disk[f.path] |->
                    IF f.pos <= b /\ b < f.pos + n THEN next[t] + (b - f.pos) ELSE disk[f.path][b]]]
    BY DEF Fwrite
  <2> QED
    BY <2>1, <2>2, Zenon
<1>7. new \in [0..(file_length - 1) -> Int]
  <2>1. \A b \in 0..(file_length - 1) : disk[f.path][b] \in Int
    BY <1>4, <1>5
  <2>2. \A b \in 0..(file_length - 1) : next[t] + (b - f.pos) \in Int
    BY <1>1, <1>5
  <2> HIDE DEF f
  <2> QED
    BY <2>1, <2>2
<1>8. disk' \in [1..THREAD_NUM -> [0..(file_length - 1) -> Int]]
  <2> HIDE DEF new, f
  <2> QED
    BY <1>5, <1>6, <1>7
<1>9. \A p \in 1..THREAD_NUM : disk'[p] = IF p = f.path THEN new ELSE disk[p]
  <2> HIDE DEF new, f
  <2> QED
    BY <1>5, <1>6, Zenon
<1>10. \A p \in 1..THREAD_NUM, b \in 0..(file_length - 1) :
          disk'[p][b] = IF p = f.path /\ f.pos <= b /\ b < f.pos + n
                        THEN next[t] + (b - f.pos) ELSE disk[p][b]
  <2> SUFFICES ASSUME NEW p \in 1..THREAD_NUM, NEW b \in 0..(file_length - 1)
               PROVE  disk'[p][b] = IF p = f.path /\ f.pos <= b /\ b < f.pos + n
                                    THEN next[t] + (b - f.pos) ELSE disk[p][b]
    OBVIOUS
  <2>1. CASE p = f.path
    <3>1. new[b] = IF f.pos <= b /\ b < f.pos + n THEN next[t] + (b - f.pos) ELSE disk[f.path][b]
      OBVIOUS
    <3> QED
      BY <1>9, <2>1, <3>1
  <2>2. CASE p # f.path
    BY <1>9, <2>2
  <2> QED
    BY <2>1, <2>2
<1> QED
  BY <1>1, <1>3, <1>4, <1>8, <1>10

(* A step that leaves what was opened and written. *)
LEMMA PathsKept ==
    ASSUME TypeOK, Paths, UNCHANGED <<file_length, disk>>, path' \in Nat,
           path' <= path \/ path' <= Cardinality(Named'),
           \A u \in Threads : pc'[u] \in {"absent", "start", "name"} => pc[u] \in {"absent", "start", "name"},
           Len(streams') = Len(streams), \A k \in 1..Len(streams) : streams'[k].path = streams[k].path
    PROVE  Paths'
<1>1. Cardinality(Named) <= Cardinality(Named')
  BY NamedGrows
<1>2. Cardinality(Named) \in 0..THREAD_NUM
  BY NamedFinite
<1>3. Cardinality(Named') \in Nat
  <2>1. Named' \in SUBSET Threads
    BY DEF Named
  <2> QED
    BY <2>1, ThreadsFinite, FS_Subset, FS_CardinalityType
<1>4. path' <= Cardinality(Named')
  BY <1>1, <1>2, <1>3 DEF Paths, TypeOK
<1> QED
  BY <1>4 DEF Paths

(* Every path is as long as one of the names, and its file as long as the   *)
(* source.                                                                  *)
LEMMA StepPaths == IInv /\ IInv' /\ Opening /\ Paths /\ [Next]_vars => Paths'
<1> SUFFICES ASSUME IInv, IInv', Opening, Paths, [Next]_vars PROVE Paths'
  OBVIOUS
<1> USE DEF shared, locks, reply
<1>0. TypeOK /\ TypeOK' /\ path \in Nat /\ path' \in Nat
  BY DEF IInv, TypeOK
<1>1. CASE UNCHANGED vars
  BY <1>1 DEF vars, Paths, Named
<1>2. CASE Create
  <2>1. created \in Threads
    BY <1>0, <1>2, SMT DEF Create, TypeOK, Threads
  <2>2. pc[created] = "absent"
    BY <1>0, <2>1 DEF Opening, TypeOK
  <2>3. UNCHANGED <<file_length, disk, path, streams>> /\ \A u \in Threads : u # created => pc'[u] = pc[u]
    BY <1>0, <1>2, <2>1 DEF Create, TypeOK
  <2> QED
    BY <1>0, <2>2, <2>3, PathsKept
<1>3. CASE CreateFails
  BY <1>3 DEF CreateFails, Paths, Named
<1>4. ASSUME NEW t \in Threads, thread_func(t) PROVE Paths'
  <2>1. CASE CopyDirectory(t)
    <3>1. path' = 0 /\ UNCHANGED <<file_length, disk, streams>> /\ Goes(t, "start", "name")
      BY <1>0, <2>1, Stepped DEF CopyDirectory
    <3> QED
      BY <1>0, <3>1, PathsKept DEF Goes
  <2>2. CASE AppendName(t)
    <3>1. path' = path + 1 /\ UNCHANGED <<file_length, disk, streams>> /\ Goes(t, "name", "test")
      BY <1>0, <2>2, Stepped DEF AppendName
    <3>2. Named' = Named \cup {t} /\ t \notin Named
      BY <3>1 DEF Goes, Named
    <3>3. Cardinality(Named') = Cardinality(Named) + 1 /\ Cardinality(Named) \in Nat
      <4>1. IsFiniteSet(Named) /\ Cardinality(Named) \in Nat
        BY NamedFinite
      <4>2. Cardinality(Named \cup {t}) = Cardinality(Named) + 1
        BY <3>2, <4>1, FS_AddElement
      <4> QED
        BY <3>2, <4>1, <4>2, Zenon
    <3>4. path' <= Cardinality(Named')
      BY <1>0, <3>1, <3>3 DEF Paths
    <3> QED
      BY <1>0, <3>1, <3>4, PathsKept DEF Goes
  <2>3. CASE TestFile(t) \/ CheckFile(t) \/ LockIndex(t) \/ Search(t)
    <3>1. /\ UNCHANGED <<path, file_length, disk, streams>>
          /\ pc'[t] \notin {"absent", "start", "name"} /\ \A u \in Threads : u # t => pc'[u] = pc[u]
      <4>1. CASE TestFile(t)
        <5>1. Goes(t, "test", IF g_pFile = NULL THEN "open" ELSE "lock index")
          BY <1>0, <4>1, Stepped, Zenon DEF TestFile
        <5>2. UNCHANGED <<path, file_length, disk, streams>>
          BY <4>1 DEF TestFile
        <5> QED
          BY <5>1, <5>2 DEF Goes
      <4>2. CASE CheckFile(t)
        <5>1. Goes(t, "check", IF g_pFile = NULL THEN "no file" ELSE "lock index")
          BY <1>0, <4>2, Stepped DEF CheckFile
        <5>2. UNCHANGED <<path, file_length, disk, streams>>
          BY <4>2 DEF CheckFile
        <5> QED
          BY <5>1, <5>2 DEF Goes
      <4>3. CASE LockIndex(t)
        <5>1. Goes(t, "lock index", "search")
          BY <1>0, <4>3, Stepped DEF LockIndex
        <5>2. UNCHANGED <<path, file_length, disk, streams>>
          BY <4>3 DEF LockIndex
        <5> QED
          BY <5>1, <5>2 DEF Goes
      <4>4. CASE Search(t)
        <5>1. Goes(t, "search", "take")
          BY <1>0, <4>4, Stepped DEF Search
        <5>2. UNCHANGED <<path, file_length, disk, streams>>
          BY <4>4 DEF Search
        <5> QED
          BY <5>1, <5>2 DEF Goes
      <4> QED
        BY <2>3, <4>1, <4>2, <4>3, <4>4
    <3> QED
      BY <1>0, <3>1, PathsKept
  <2>4. CASE Open(t)
    <3>1. UNCHANGED <<file_length, path>> /\ Goes(t, "open", "store")
      BY <1>0, <2>4, Stepped DEF Open
    <3>2. CASE path = 0
      BY <1>0, <2>4, <3>1, <3>2, PathsKept DEF Open, Goes
    <3>3. CASE path # 0
      <4> DEFINE new == [path |-> path, pos |-> 0]
      <4>1. streams' = Append(streams, new) /\ new \in Stream /\ new.path = path
        BY <1>0, <2>4, <3>3 DEF Open, Stream
      <4> HIDE DEF new
      <4>2. /\ Len(streams) \in Nat /\ Len(streams') = Len(streams) + 1
            /\ \A k \in 1..Len(streams) : streams'[k] = streams[k]
            /\ streams'[Len(streams) + 1] = new
        <5>1. streams \in Seq(Stream)
          BY <1>0 DEF TypeOK
        <5> QED
          BY <4>1, <5>1, AppendProperties, LenProperties
      <4>3. path \in 1..THREAD_NUM
        BY <1>0, <3>3, NamedFinite DEF Paths
      <4>4. \A k \in 1..Len(streams') : streams'[k].path \in 1..THREAD_NUM
        <5> SUFFICES ASSUME NEW k \in 1..Len(streams') PROVE streams'[k].path \in 1..THREAD_NUM
          OBVIOUS
        <5>1. k \in 1..Len(streams) \/ k = Len(streams) + 1
          BY <4>2
        <5> QED
          BY <4>1, <4>2, <4>3, <5>1 DEF Paths
      <4>5. disk' \in [1..THREAD_NUM -> [0..(file_length - 1) -> Int]]
        <5>1. disk' = [disk EXCEPT ![path] = [b \in DOMAIN disk[path] |-> Empty]]
          BY <2>4, <3>3 DEF Open
        <5>2. disk \in [1..THREAD_NUM -> [0..(file_length - 1) -> Int]] /\ DOMAIN disk[path] = 0..(file_length - 1)
          BY <4>3 DEF Paths
        <5>3. [b \in DOMAIN disk[path] |-> Empty] \in [0..(file_length - 1) -> Int]
          BY <5>2 DEF Empty
        <5> HIDE DEF Empty
        <5> QED
          BY <5>1, <5>2, <5>3
      <4>6. path' <= Cardinality(Named')
        <5>1. Named' = Named
          BY <3>1 DEF Named, Goes
        <5> QED
          BY <3>1, <5>1 DEF Paths
      <4> QED
        BY <3>1, <4>4, <4>5, <4>6 DEF Paths
    <3> QED
      BY <3>2, <3>3
  <2>5. CASE StoreFile(t)
    <3>1. UNCHANGED <<path, file_length, disk, streams>> /\ Goes(t, "store", "check")
      BY <1>0, <2>5, Stepped DEF StoreFile
    <3> QED
      BY <1>0, <3>1, PathsKept DEF Goes
  <2>6. CASE TakeSlice(t)
    <3>1. UNCHANGED <<path, file_length, disk, streams>> /\ Goes(t, "take", "request")
      BY <1>0, <2>6, Stepped DEF TakeSlice
    <3> QED
      BY <1>0, <3>1, PathsKept DEF Goes
  <2>7. CASE \/ Request(t) \/ Arrive(t) \/ PerformEnds(t) \/ Lock(t) \/ Seek(t) \/ Write(t)
             \/ WriteRest(t) \/ WriteToNull(t)
    <3>1. UNCHANGED <<file_length, path>> /\ HasSlice(t)' /\ \A u \in Threads : u # t => pc'[u] = pc[u]
      BY <1>0, <2>7, WithSlice
    <3>2. \A u \in Threads : pc'[u] \in {"absent", "start", "name"} => pc[u] \in {"absent", "start", "name"}
      BY <3>1 DEF HasSlice
    <3>3. CASE Request(t) \/ Arrive(t) \/ PerformEnds(t) \/ Lock(t) \/ WriteToNull(t)
      <4>1. UNCHANGED <<disk, streams>>
        BY <3>3 DEF Request, Arrive, PerformEnds, Lock, WriteToNull
      <4> QED
        BY <1>0, <3>1, <3>2, <4>1, PathsKept
    <3>4. CASE Seek(t)
      <4>1. CASE g_pFile = NULL
        BY <1>0, <3>1, <3>2, <3>4, <4>1, PathsKept DEF Seek
      <4>2. CASE g_pFile # NULL
        <5>1. Slice(t).begin_iter \in Int
          BY <1>0 DEF TypeOK, Slice, Interval
        <5>2. streams' = [streams EXCEPT ![g_pFile].pos = Slice(t).begin_iter] /\ disk' = disk
          BY <3>4, <4>2 DEF Seek
        <5> QED
          BY <1>0, <3>1, <3>2, <4>2, <5>1, <5>2, SamePath, PathsKept
      <4> QED
        BY <4>1, <4>2
    <3>5. ASSUME NEW n \in Int, Fwrite(t, n), g_pFile # NULL PROVE Paths'
      <4>1. /\ Len(streams') = Len(streams) /\ \A k \in 1..Len(streams) : streams'[k].path = streams[k].path
            /\ disk' \in [1..THREAD_NUM -> [0..(file_length - 1) -> Int]]
        BY <1>0, <3>5, FwriteDisk
      <4>2. Cardinality(Named) <= Cardinality(Named') /\ Cardinality(Named) \in Nat /\ Cardinality(Named') \in Nat
        <5>1. Named' \in SUBSET Threads
          BY DEF Named
        <5> QED
          BY <3>2, <5>1, NamedGrows, NamedFinite, ThreadsFinite, FS_Subset, FS_CardinalityType
      <4>3. path' <= Cardinality(Named')
        BY <1>0, <3>1, <4>2 DEF Paths
      <4> QED
        BY <3>1, <4>1, <4>3 DEF Paths
    <3>6. CASE Write(t)
      <4>1. chunk[t] \in Int
        BY <1>0 DEF TypeOK
      <4> QED
        BY <3>5, <3>6, <4>1 DEF Write
    <3>7. CASE WriteRest(t)
      <4>1. Slice(t).end_iter - Slice(t).begin_iter + 1 \in Int
        <5>1. Slice(t) \in Interval
          BY <1>0 DEF TypeOK, Slice
        <5>2. Slice(t).end_iter \in Int /\ Slice(t).begin_iter \in Int
          BY <5>1 DEF Interval
        <5> QED
          BY <5>2
      <4> QED
        BY <3>5, <3>7, <4>1 DEF WriteRest
    <3> QED
      BY <2>7, <3>3, <3>4, <3>6, <3>7
  <2> QED
    BY <1>4, <2>1, <2>2, <2>3, <2>4, <2>5, <2>6, <2>7
       DEF thread_func, OpenFile, ChooseSlice, download_directly, write_callback
<1> QED
  BY <1>1, <1>2, <1>3, <1>4 DEF Next

(* A slice begins within the file, at its end or before, and ends in it.    *)
LEMMA SliceBounds ==
    ASSUME NEW length \in Nat, NEW i \in Slices
    PROVE  /\ i * range(length) \in Nat /\ range(length) \in Nat /\ end_iter(length, i) \in Int
           /\ i * range(length) <= end_iter(length, i) + 1
           /\ end_iter(length, i) < length
<1> DEFINE r == range(length)
<1>1. r \in Nat /\ i \in Nat /\ i <= THREAD_NUM - 1 /\ THREAD_NUM - 1 \in Nat /\ (THREAD_NUM - 1) * r <= length
  BY RangeOfLength, SMT DEF Slices
<1>2. end_iter(length, i) = IF i * r + r <= length THEN i * r + r - 1 ELSE length - 1
  BY DEF end_iter
<1> HIDE DEF r
<1>3. i * r <= (THREAD_NUM - 1) * r
  BY <1>1, Monotone
<1>4. i * r \in Nat /\ (THREAD_NUM - 1) * r \in Nat
  BY <1>1, SMT
<1> DEFINE m == i * r
<1> DEFINE k == (THREAD_NUM - 1) * r
<1> HIDE DEF m, k
<1>5. m \in Nat /\ m <= length
  BY <1>1, <1>3, <1>4, SMT DEF m, k
<1>6. end_iter(length, i) = IF m + r <= length THEN m + r - 1 ELSE length - 1
  BY <1>2 DEF m
<1>7. end_iter(length, i) \in Int /\ m <= end_iter(length, i) + 1 /\ end_iter(length, i) < length
  BY <1>1, <1>5, <1>6, SMT
<1> QED
  BY <1>1, <1>4, <1>7 DEF m, r

(* The bounds of the slice a thread took. *)
LEMMA MySlice ==
    ASSUME TypeOK, Cut, NEW t \in Threads
    PROVE  /\ index[t] \in Slices /\ Slice(t) \in Interval /\ file_length \in Nat
           /\ Slice(t).begin_iter \in Int
           /\ Slice(t).end_iter = end_iter(file_length, index[t])
           /\ index[t] * range(file_length) \in Nat /\ end_iter(file_length, index[t]) \in Int
           /\ index[t] * range(file_length) <= end_iter(file_length, index[t]) + 1
           /\ end_iter(file_length, index[t]) < file_length
           /\ next[t] \in Int /\ last[t] \in Int /\ chunk[t] \in Int
<1>1. index[t] \in Slices /\ file_length \in Nat /\ g_interval \in [Slices -> Interval]
  BY DEF TypeOK
<1>2. Slice(t) \in Interval
  BY <1>1 DEF Slice
<1>3. Slice(t).begin_iter \in Int
  BY <1>2 DEF Interval
<1>4. Slice(t).end_iter = end_iter(file_length, index[t])
  BY <1>1 DEF Slice, Cut
<1>5. next[t] \in Int /\ last[t] \in Int /\ chunk[t] \in Int
  BY DEF TypeOK
<1> QED
  BY <1>1, <1>2, <1>3, <1>4, <1>5, SliceBounds

(* The callback is given no more than the slice: unless the slice is empty, *)
(* and then nothing fits.                                                   *)
LEMMA WhatFits ==
    ASSUME TypeOK, Cut, NEW t \in Threads, RangeOf(t), pc[t] = "write"
    PROVE  /\ Fits(t) <=> ~NoBytes(index[t])
           /\ NoBytes(index[t]) => Slice(t).end_iter - Slice(t).begin_iter + 1 = 0
           /\ ~NoBytes(index[t]) => /\ next[t] = Slice(t).begin_iter /\ last[t] = Slice(t).end_iter
                                    /\ next[t] + chunk[t] <= last[t] + 1
                                    /\ index[t] * range(file_length) <= next[t]
           /\ chunk[t] >= 1
<1>1. /\ Slice(t).begin_iter \in Int
      /\ Slice(t).end_iter = end_iter(file_length, index[t])
      /\ index[t] * range(file_length) \in Nat /\ end_iter(file_length, index[t]) \in Int
      /\ next[t] \in Int /\ last[t] \in Int /\ chunk[t] \in Int
  BY MySlice
<1>2. Asked(t) /\ chunk[t] \in 1..(last[t] - next[t] + 1)
  BY DEF RangeOf, Fetching, HasSlice
<1>3. Fits(t) <=> (Slice(t).end_iter - Slice(t).begin_iter + 1 < 0
                   \/ chunk[t] <= Slice(t).end_iter - Slice(t).begin_iter + 1)
  BY DEF Fits
<1> DEFINE m == index[t] * range(file_length)
<1> DEFINE e == end_iter(file_length, index[t])
<1>4. /\ NoBytes(index[t]) <=> m = e + 1
      /\ NoBytes(index[t]) => Slice(t).begin_iter = m
      /\ ~NoBytes(index[t]) => /\ next[t] = Slice(t).begin_iter /\ last[t] = Slice(t).end_iter
                               /\ m <= next[t]
  BY <1>2 DEF Asked, NoBytes
<1>5. m \in Nat /\ e \in Int /\ Slice(t).end_iter = e
  BY <1>1
<1> DEFINE bg == Slice(t).begin_iter
<1> DEFINE en == Slice(t).end_iter
<1>6. bg \in Int /\ en = e
  BY <1>1
<1> HIDE DEF m, e, bg, en
<1>7. CASE NoBytes(index[t])
  <2>1. en - bg + 1 = 0
    BY <1>4, <1>5, <1>6, <1>7, SMT DEF bg
  <2> QED
    BY <1>1, <1>2, <1>3, <1>7, <2>1, SMT DEF bg, en
<1>8. CASE ~NoBytes(index[t])
  <2>1. next[t] = bg /\ last[t] = en /\ m <= next[t]
    BY <1>4, <1>8 DEF bg, en
  <2>2. chunk[t] <= en - bg + 1
    BY <1>2, <2>1
  <2>3. next[t] + chunk[t] <= last[t] + 1 /\ chunk[t] >= 1
    BY <1>1, <1>2, SMT
  <2> QED
    BY <1>3, <1>8, <2>1, <2>2, <2>3 DEF bg, en, m
<1> QED
  BY <1>7, <1>8

(* A step of one thread. *)
LEMMA RangesKept ==
    ASSUME TypeOK, Ranges, file_length' = file_length, NEW t \in Threads,
           \A u \in Threads : u # t => /\ pc'[u] = pc[u] /\ index'[u] = index[u]
                                       /\ next'[u] = next[u] /\ last'[u] = last[u] /\ chunk'[u] = chunk[u],
           \A u \in Threads : u # t /\ HasSlice(u) => g_interval'[index[u]].begin_iter = Slice(u).begin_iter,
           \A i \in Slices : /\ g_interval'[i].end_iter = g_interval[i].end_iter
                             /\ g_interval'[i].use = 0 =>
                                   g_interval[i].use = 0 /\ g_interval'[i].begin_iter = g_interval[i].begin_iter,
           RangeOf(t)'
    PROVE  Ranges'
<1>1. Cut'
  BY DEF Ranges, Cut
<1>2. ASSUME NEW u \in Threads, u # t PROVE RangeOf(u)'
  <2>1. RangeOf(u) /\ index[u] \in Slices
    BY DEF Ranges, TypeOK
  <2>2. /\ pc'[u] = pc[u] /\ index'[u] = index[u] /\ next'[u] = next[u] /\ last'[u] = last[u]
        /\ chunk'[u] = chunk[u] /\ (HasSlice(u)' <=> HasSlice(u)) /\ (Fetching(u)' <=> Fetching(u))
        /\ NoBytes(index[u])' <=> NoBytes(index[u])
    BY <1>2 DEF HasSlice, Fetching, NoBytes
  <2>3. HasSlice(u) => Slice(u)'.begin_iter = Slice(u).begin_iter /\ Slice(u)'.end_iter = Slice(u).end_iter
    BY <1>2, <2>1, <2>2 DEF Slice
  <2>4. pc'[u] = "request" => Slice(u)'.begin_iter = index'[u] * range(file_length')
    BY <2>1, <2>2, <2>3 DEF RangeOf, HasSlice
  <2>5. Fetching(u)' => Asked(u)'
    <3> SUFFICES ASSUME Fetching(u)' PROVE Asked(u)'
      OBVIOUS
    <3>1. Asked(u) /\ HasSlice(u)
      BY <2>1, <2>2 DEF RangeOf, Fetching
    <3> QED
      BY <2>2, <2>3, <3>1 DEF Asked, NoBytes
  <2>6. pc'[u] = "failed" => NoBytes(index[u])'
    BY <2>1, <2>2 DEF RangeOf
  <2> QED
    BY <2>1, <2>2, <2>4, <2>5, <2>6 DEF RangeOf, NoBytes
<1> QED
  BY <1>1, <1>2 DEF Ranges

(* A step that leaves the slices, and what the others ask for.              *)
LEMMA RangesQuiet ==
    ASSUME TypeOK, Ranges, UNCHANGED <<file_length, g_interval>>, NEW t \in Threads,
           \A u \in Threads : u # t => /\ pc'[u] = pc[u] /\ index'[u] = index[u]
                                       /\ next'[u] = next[u] /\ last'[u] = last[u] /\ chunk'[u] = chunk[u],
           RangeOf(t)'
    PROVE  Ranges'
<1>1. \A u \in Threads : g_interval'[index[u]].begin_iter = Slice(u).begin_iter
  BY DEF Slice
<1> QED
  BY <1>1, RangesKept

(* A request asks for the slice, or for the file when the slice is empty.   *)
LEMMA RangesRequest == ASSUME IInv, Ranges, NEW t \in Threads, Request(t) PROVE Ranges'
<1> USE DEF shared, locks, reply
<1>0. TypeOK /\ Cut /\ RangeOf(t)
  BY DEF IInv, Ranges
<1>1. Goes(t, "request", "perform")
  BY <1>0, Stepped DEF Request
<1>2. /\ UNCHANGED <<file_length, g_interval, index, chunk>>
      /\ next' = [next EXCEPT ![t] = IF Slice(t).begin_iter <= Slice(t).end_iter
                                     THEN Slice(t).begin_iter ELSE 0]
      /\ last' = [last EXCEPT ![t] = IF Slice(t).begin_iter <= Slice(t).end_iter
                                     THEN Slice(t).end_iter ELSE file_length - 1]
  BY DEF Request
<1> DEFINE m == index[t] * range(file_length)
<1> DEFINE e == end_iter(file_length, index[t])
<1>3. /\ m \in Nat /\ e \in Int /\ m <= e + 1 /\ Slice(t).begin_iter = m /\ Slice(t).end_iter = e
  BY <1>0, <1>1, MySlice DEF RangeOf, Goes
<1>4. /\ next'[t] = IF m <= e THEN m ELSE 0
      /\ last'[t] = IF m <= e THEN e ELSE file_length - 1
      /\ \A u \in Threads : u # t => next'[u] = next[u] /\ last'[u] = last[u]
  BY <1>0, <1>2, <1>3 DEF TypeOK
<1>5. Slice(t)' = Slice(t) /\ (NoBytes(index[t])' <=> m = e + 1)
  BY <1>2 DEF Slice, NoBytes
<1>6. m <= e <=> ~(m = e + 1)
  <2> HIDE DEF m, e
  <2> QED
    BY <1>3, SMT
<1>7. Asked(t)'
  <2>1. index'[t] * range(file_length') = m /\ file_length' = file_length
    BY <1>2
  <2>2. m <= e => m <= e + 1
    <3> HIDE DEF m, e
    <3> QED
      BY <1>3, SMT
  <2>3. CASE NoBytes(index[t])'
    <3> HIDE DEF m, e
    <3> QED
      BY <1>2, <1>3, <1>4, <1>5, <1>6, <2>1, <2>3 DEF Asked
  <2>4. CASE ~NoBytes(index[t])'
    <3>1. m <= e
      BY <1>5, <1>6, <2>4
    <3>2. next'[t] = m /\ last'[t] = e
      BY <1>4, <3>1
    <3> HIDE DEF m, e
    <3>3. m <= m /\ m <= e + 1
      BY <1>3, SMT
    <3> QED
      BY <1>3, <1>5, <2>1, <2>4, <3>2, <3>3 DEF Asked
  <2> QED
    BY <2>3, <2>4
<1>8. RangeOf(t)'
  BY <1>1, <1>7 DEF RangeOf, Goes
<1>9. \A u \in Threads : u # t => /\ pc'[u] = pc[u] /\ index'[u] = index[u] /\ chunk'[u] = chunk[u]
  BY <1>1, <1>2 DEF Goes
<1> QED
  BY <1>0, <1>2, <1>4, <1>8, <1>9, RangesQuiet

(* A step that leaves the slice, and the part of it that is asked for.      *)
LEMMA AskedKept ==
    ASSUME NEW t \in Threads, RangeOf(t), Fetching(t), UNCHANGED <<file_length, g_interval, index, next, last>>
    PROVE  Asked(t)'
BY DEF RangeOf, Asked, NoBytes, Slice

(* What is asked for does not change until it is written.                   *)
LEMMA RangesFetching ==
    ASSUME IInv, Ranges, NEW t \in Threads,
           Arrive(t) \/ PerformEnds(t) \/ Lock(t) \/ Seek(t) \/ WriteToNull(t)
    PROVE  Ranges'
<1> USE DEF shared, locks, reply
<1>0. TypeOK /\ RangeOf(t)
  BY DEF IInv, Ranges
<1>1. /\ UNCHANGED <<file_length, g_interval, index, next, last>>
      /\ \A u \in Threads : u # t => chunk'[u] = chunk[u]
  BY <1>0 DEF Arrive, PerformEnds, Lock, Seek, WriteToNull, TypeOK
<1>2. \A u \in Threads : u # t => pc'[u] = pc[u]
  BY <1>0, WithSlice
<1>3. pc[t] \in {"perform", "lock", "seek", "write"} /\ Fetching(t)
  BY DEF Arrive, PerformEnds, Lock, Seek, WriteToNull, Step, Fetching, HasSlice
<1>4. Asked(t)'
  BY <1>0, <1>1, <1>3, AskedKept
<1>5. /\ pc'[t] \notin {"request", "failed"}
      /\ pc'[t] = "done" => next'[t] > last'[t]
      /\ pc'[t] \in {"lock", "seek", "write"} => chunk'[t] \in 1..(last'[t] - next'[t] + 1)
  <2>1. CASE Arrive(t)
    <3>1. pc'[t] = "lock"
      BY <1>0, <2>1 DEF Arrive, Step, TypeOK
    <3>2. PICK n \in 1..(last[t] - next[t] + 1) : chunk' = [chunk EXCEPT ![t] = n]
      BY <2>1 DEF Arrive
    <3>3. chunk'[t] = n
      BY <1>0, <3>2 DEF TypeOK
    <3> QED
      BY <1>1, <3>1, <3>2, <3>3
  <2>2. CASE PerformEnds(t)
    BY <1>0, <1>1, <2>2 DEF PerformEnds, Step, TypeOK
  <2>3. CASE Lock(t)
    BY <1>0, <1>1, <2>3 DEF Lock, Step, TypeOK, RangeOf
  <2>4. CASE Seek(t)
    <3>1. pc[t] = "seek" /\ pc'[t] \in {"crashed", "write"} /\ chunk' = chunk
      BY <1>0, <2>4 DEF Seek, Step, TypeOK
    <3> QED
      BY <1>0, <1>1, <3>1 DEF RangeOf
  <2>5. CASE WriteToNull(t)
    BY <1>0, <1>1, <2>5 DEF WriteToNull, Step, TypeOK, RangeOf
  <2> QED
    BY <2>1, <2>2, <2>3, <2>4, <2>5
<1>6. RangeOf(t)'
  BY <1>4, <1>5 DEF RangeOf
<1> QED
  BY <1>0, <1>1, <1>2, <1>6, RangesQuiet

(* A slice that is taken has not been begun.                                *)
LEMMA RangesTake == ASSUME IInv, Ranges, NEW t \in Threads, TakeSlice(t) PROVE Ranges'
<1> USE DEF shared, locks, reply
<1>0. TypeOK /\ Dealt /\ Cut
  BY DEF IInv, Ranges
<1>1. Goes(t, "take", "request")
  BY <1>0, Stepped DEF TakeSlice
<1>2. /\ UNCHANGED <<file_length, index, next, last, chunk>>
      /\ g_interval' = [g_interval EXCEPT ![index[t]].use = 1]
  BY DEF TakeSlice
<1>3. index[t] \in Slices /\ g_interval[index[t]].use = 0
  BY <1>0, <1>1 DEF TypeOK, Goes, Dealt
<1>4. \A i \in Slices : /\ g_interval'[i].begin_iter = g_interval[i].begin_iter
                        /\ g_interval'[i].end_iter = g_interval[i].end_iter
                        /\ g_interval'[i].use = IF i = index[t] THEN 1 ELSE g_interval[i].use
  BY <1>0, <1>2, <1>3 DEF TypeOK, Interval
<1>5. \A u \in Threads : index[u] \in Slices
  BY <1>0 DEF TypeOK
<1>6. RangeOf(t)'
  <2>1. Slice(t)'.begin_iter = index'[t] * range(file_length')
    BY <1>0, <1>2, <1>3, <1>4 DEF Slice, Cut
  <2> QED
    BY <1>1, <2>1 DEF RangeOf, Goes, Fetching, HasSlice
<1>7. \A u \in Threads : g_interval'[index[u]].begin_iter = Slice(u).begin_iter
  BY <1>4, <1>5 DEF Slice
<1>8. \A i \in Slices : g_interval'[i].use = 0 => g_interval[i].use = 0
  BY <1>3, <1>4
<1> QED
  BY <1>0, <1>1, <1>2, <1>4, <1>6, <1>7, <1>8, RangesKept DEF Goes

(* A piece that fits moves the slice and the reply on together.             *)
LEMMA RangesWrite == ASSUME IInv, Ranges, NEW t \in Threads, Write(t) PROVE Ranges'
<1> USE DEF shared, locks, reply
<1>0. TypeOK /\ Dealt /\ Cut /\ RangeOf(t)
  BY DEF IInv, Ranges
<1>1. Goes(t, "write", "perform")
  BY <1>0, Stepped DEF Write
<1>2. /\ UNCHANGED <<file_length, index, last, chunk>> /\ Fits(t)
      /\ g_interval' = [g_interval EXCEPT ![index[t]].begin_iter = @ + chunk[t]]
      /\ next' = [next EXCEPT ![t] = @ + chunk[t]]
  BY DEF Write
<1>3. /\ index[t] \in Slices /\ Slice(t).begin_iter \in Int /\ chunk[t] \in Int
      /\ next[t] \in Int /\ last[t] \in Int /\ index[t] * range(file_length) \in Nat
  BY <1>0, MySlice
<1>4. /\ \A i \in Slices : /\ g_interval'[i].end_iter = g_interval[i].end_iter
                           /\ g_interval'[i].use = g_interval[i].use
                           /\ i # index[t] => g_interval'[i].begin_iter = g_interval[i].begin_iter
      /\ g_interval'[index[t]].begin_iter = Slice(t).begin_iter + chunk[t]
  BY <1>0, <1>2, <1>3 DEF TypeOK, Interval, Slice
<1>5. HasSlice(t) /\ g_interval[index[t]].use = 1
  BY <1>0, <1>1 DEF Goes, HasSlice, Dealt
<1>6. \A u \in Threads : u # t /\ HasSlice(u) => index[u] \in Slices /\ index[u] # index[t]
  BY <1>0, <1>5 DEF Dealt, OneThreadPerSlice, TypeOK
<1>7. /\ ~NoBytes(index[t]) /\ chunk[t] >= 1
      /\ next[t] = Slice(t).begin_iter /\ last[t] = Slice(t).end_iter
      /\ next[t] + chunk[t] <= last[t] + 1 /\ index[t] * range(file_length) <= next[t]
  BY <1>0, <1>1, <1>2, WhatFits DEF Goes
<1>8. next'[t] = next[t] + chunk[t] /\ \A u \in Threads : u # t => next'[u] = next[u]
  BY <1>0, <1>2 DEF TypeOK
<1>9. Asked(t)'
  <2>1. ~NoBytes(index[t])' /\ index'[t] * range(file_length') = index[t] * range(file_length)
    BY <1>2, <1>7 DEF NoBytes
  <2>2. Slice(t)'.begin_iter = next'[t] /\ Slice(t)'.end_iter = last'[t]
    BY <1>2, <1>3, <1>4, <1>7, <1>8 DEF Slice
  <2> DEFINE m == index[t] * range(file_length)
  <2>3. m <= next'[t] /\ next'[t] <= last'[t] + 1
    <3>1. m \in Nat /\ m <= next[t]
      BY <1>3, <1>7
    <3> HIDE DEF m
    <3> QED
      BY <3>1, <1>2, <1>3, <1>7, <1>8, SMT
  <2> QED
    BY <2>1, <2>2, <2>3 DEF Asked
<1>10. RangeOf(t)'
  BY <1>1, <1>9 DEF RangeOf, Goes
<1>11. \A u \in Threads : u # t /\ HasSlice(u) => g_interval'[index[u]].begin_iter = Slice(u).begin_iter
  BY <1>4, <1>6 DEF Slice
<1>12. \A i \in Slices : g_interval'[i].use = 0 =>
          g_interval[i].use = 0 /\ g_interval'[i].begin_iter = g_interval[i].begin_iter
  BY <1>4, <1>5
<1> QED
  BY <1>0, <1>1, <1>2, <1>4, <1>8, <1>10, <1>11, <1>12, RangesKept DEF Goes

(* Only the callback of an empty slice gets more than fits.                 *)
LEMMA RangesWriteRest == ASSUME IInv, Ranges, NEW t \in Threads, WriteRest(t) PROVE Ranges'
<1> USE DEF shared, locks, reply
<1>0. TypeOK /\ Dealt /\ Cut /\ RangeOf(t)
  BY DEF IInv, Ranges
<1>1. Goes(t, "write", "failed")
  BY <1>0, Stepped DEF WriteRest
<1>2. /\ UNCHANGED <<file_length, index, next, last, chunk>> /\ ~Fits(t)
      /\ g_interval' = [g_interval EXCEPT ![index[t]].ok = 1]
  BY DEF WriteRest
<1>3. \A u \in Threads : index[u] \in Slices
  BY <1>0 DEF TypeOK
<1>4. \A i \in Slices : /\ g_interval'[i].end_iter = g_interval[i].end_iter
                        /\ g_interval'[i].use = g_interval[i].use
                        /\ g_interval'[i].begin_iter = g_interval[i].begin_iter
  BY <1>0, <1>2, <1>3 DEF TypeOK, Interval
<1>5. NoBytes(index[t]) /\ Asked(t)
  BY <1>0, <1>1, <1>2, WhatFits DEF Goes, RangeOf, Fetching, HasSlice
<1>6. \A u \in Threads : g_interval'[index[u]].begin_iter = Slice(u).begin_iter
  BY <1>3, <1>4 DEF Slice
<1>7. RangeOf(t)'
  <2>1. Asked(t)' /\ NoBytes(index[t])'
    BY <1>2, <1>5, <1>6 DEF Asked, NoBytes, Slice
  <2> QED
    BY <1>1, <2>1 DEF RangeOf, Goes
<1> QED
  BY <1>0, <1>1, <1>2, <1>4, <1>6, <1>7, RangesKept DEF Goes

(* Every step keeps what is asked for within the slice.                     *)
LEMMA StepRanges == IInv /\ Opening /\ Ranges /\ [Next]_vars => Ranges'
<1> SUFFICES ASSUME IInv, Opening, Ranges, [Next]_vars PROVE Ranges'
  OBVIOUS
<1> USE DEF shared, locks, reply
<1>0. TypeOK
  BY DEF IInv
<1>1. CASE UNCHANGED vars
  BY <1>1 DEF vars, Ranges, Cut, RangeOf, Asked, Fetching, HasSlice, NoBytes, Slice
<1>2. CASE Create
  <2>1. PICK c \in Threads : c = created
    BY <1>0, <1>2, SMT DEF Create, TypeOK, Threads
  <2>2. /\ \A u \in Threads : u # c => pc'[u] = pc[u]
        /\ pc'[c] = "start" /\ UNCHANGED <<file_length, g_interval, index, next, last, chunk>>
    BY <1>0, <1>2, <2>1 DEF Create, TypeOK
  <2>3. RangeOf(c)'
    BY <2>2 DEF RangeOf, Fetching, HasSlice
  <2> QED
    BY <1>0, <2>1, <2>2, <2>3, RangesQuiet
<1>3. CASE CreateFails
  BY <1>3 DEF CreateFails, Ranges, Cut, RangeOf, Asked, Fetching, HasSlice, NoBytes, Slice
<1>4. ASSUME NEW t \in Threads, thread_func(t) PROVE Ranges'
  <2>1. CASE CopyDirectory(t) \/ AppendName(t) \/ TestFile(t) \/ CheckFile(t) \/ LockIndex(t) \/ Search(t)
    <3>1. QuietMove(t)
      BY <1>0, <2>1, BeforeSlice
    <3>2. RangeOf(t)'
      BY <3>1 DEF QuietMove, RangeOf, Fetching, HasSlice
    <3> QED
      BY <1>0, <3>1, <3>2, RangesQuiet DEF QuietMove
  <2>2. CASE Open(t) \/ StoreFile(t)
    <3>1. /\ \A u \in Threads : u # t => pc'[u] = pc[u]
          /\ pc'[t] \in {"store", "check"} /\ UNCHANGED <<file_length, g_interval, index, next, last, chunk>>
      BY <1>0, <2>2 DEF Open, StoreFile, Step, TypeOK
    <3>2. RangeOf(t)'
      BY <3>1 DEF RangeOf, Fetching, HasSlice
    <3> QED
      BY <1>0, <3>1, <3>2, RangesQuiet
  <2> QED
    BY <1>4, <2>1, <2>2, RangesTake, RangesRequest, RangesFetching, RangesWrite, RangesWriteRest
       DEF thread_func, OpenFile, ChooseSlice, download_directly, write_callback
<1> QED
  BY <1>1, <1>2, <1>3, <1>4 DEF Next

(* A step that leaves the FILE, and whose thread is not at the fwrite.      *)
LEMMA PositionsKept ==
    ASSUME TypeOK, Positions, UNCHANGED <<g_pFile, streams>>,
           OpenedOnce' => OpenedOnce,
           \A u \in Threads : pc[u] \in {"seek", "write"} => g_mutex' = g_mutex,
           \A u \in Threads : pc'[u] = "write" => /\ pc[u] = "write"
                                                  /\ Slice(u)'.begin_iter = Slice(u).begin_iter,
           \A u \in Threads : pc'[u] = "seek" => pc[u] = "seek" \/ g_mutex' = u
    PROVE  Positions'
<1>1. \A u \in Threads : pc'[u] \in {"seek", "write"} => g_mutex' = u
  BY DEF Positions
<1>2. OpenedOnce' => \A u \in Threads : pc'[u] = "write" => streams'[g_pFile'].pos = Slice(u)'.begin_iter
  BY DEF Positions
<1> QED
  BY <1>1, <1>2 DEF Positions

(* Under g_mutex nobody moves the FILE between fseek and fwrite.            *)
LEMMA StepPositions == IInv /\ IInv' /\ Opening /\ Positions /\ [Next]_vars => Positions'
<1> SUFFICES ASSUME IInv, IInv', Opening, Positions, [Next]_vars PROVE Positions'
  OBVIOUS
<1> USE DEF shared, locks, reply
<1>0. TypeOK /\ TypeOK' /\ Dealt /\ Called
  BY DEF IInv
<1>1. CASE UNCHANGED vars
  BY <1>1 DEF vars, Positions, OpenedOnce, Slice
<1>2. CASE Create
  <2>1. PICK c \in Threads : c = created
    BY <1>0, <1>2, SMT DEF Create, TypeOK, Threads
  <2>2. /\ \A u \in Threads : u # c => pc'[u] = pc[u]
        /\ pc'[c] = "start" /\ UNCHANGED <<g_interval, index, opened, g_pFile, streams, g_mutex>>
    BY <1>0, <1>2, <2>1 DEF Create, TypeOK
  <2> QED
    BY <1>0, <2>2, PositionsKept DEF OpenedOnce, Slice
<1>3. CASE CreateFails
  BY <1>3 DEF CreateFails, Positions, OpenedOnce, Slice
<1>4. ASSUME NEW t \in Threads, thread_func(t) PROVE Positions'
  <2>1. CASE CopyDirectory(t) \/ AppendName(t) \/ TestFile(t) \/ CheckFile(t) \/ LockIndex(t) \/ Search(t)
    <3>1. QuietMove(t)
      BY <1>0, <2>1, BeforeSlice
    <3>2. \A u \in Threads : pc'[u] \in {"seek", "write"} => u # t
      BY <3>1 DEF QuietMove, HasSlice
    <3> QED
      BY <1>0, <3>1, <3>2, PositionsKept DEF QuietMove, OpenedOnce, Slice
  <2>2. CASE Open(t)
    <3>1. Goes(t, "open", "store") /\ UNCHANGED <<g_interval, g_pFile, g_mutex, index>>
      BY <1>0, <2>2, Stepped DEF Open
    <3>2. OpenedOnce' => g_pFile = NULL /\ OpenedOnce
      BY <1>0, <2>2, OpenAlone
    <3>3. OpenedOnce' => \A u \in Threads : pc'[u] # "write"
      BY <3>1, <3>2 DEF Opening, Past, HasSlice, Goes
    <3>4. \A u \in Threads : pc'[u] \in {"seek", "write"} => g_mutex' = u
      BY <3>1 DEF Goes, Positions
    <3> QED
      BY <3>3, <3>4 DEF Positions
  <2>3. CASE StoreFile(t)
    <3>1. Goes(t, "store", "check") /\ UNCHANGED <<g_interval, streams, g_mutex, index, opened>>
      BY <1>0, <2>3, Stepped DEF StoreFile
    <3>2. OpenedOnce' => OpenedOnce
      BY <3>1 DEF OpenedOnce
    <3>3. OpenedOnce => g_pFile = NULL /\ \A u \in Threads : pc'[u] # "write"
      BY <3>1 DEF Opening, Past, HasSlice, Goes
    <3>4. \A u \in Threads : pc'[u] \in {"seek", "write"} => g_mutex' = u
      BY <3>1 DEF Goes, Positions
    <3> QED
      BY <3>2, <3>3, <3>4 DEF Positions
  <2>4. CASE TakeSlice(t)
    <3>1. Goes(t, "take", "request") /\ UNCHANGED <<streams, g_pFile, g_mutex, index, opened>>
      BY <1>0, <2>4, Stepped DEF TakeSlice
    <3>2. \A i \in Slices : g_interval'[i].begin_iter = g_interval[i].begin_iter
      BY <1>0, <2>4 DEF TakeSlice, TypeOK, Interval
    <3>3. \A u \in Threads : Slice(u)'.begin_iter = Slice(u).begin_iter
      BY <1>0, <3>1, <3>2 DEF Slice, TypeOK
    <3> QED
      BY <1>0, <3>1, <3>3, PositionsKept DEF Goes, OpenedOnce
  <2>5. CASE Request(t) \/ Arrive(t) \/ PerformEnds(t)
    <3>1. UNCHANGED <<g_interval, streams, g_pFile, g_mutex, index, opened>>
      BY <2>5 DEF Request, Arrive, PerformEnds
    <3>2. pc'[t] \notin {"seek", "write"} /\ \A u \in Threads : u # t => pc'[u] = pc[u]
      <4>1. CASE Request(t)
        BY <1>0, <4>1, Stepped DEF Request, Goes
      <4>2. CASE Arrive(t)
        BY <1>0, <4>2, Stepped DEF Arrive, Goes
      <4>3. CASE PerformEnds(t)
        BY <1>0, <4>3 DEF PerformEnds, Step, TypeOK
      <4> QED
        BY <2>5, <4>1, <4>2, <4>3
    <3> QED
      BY <1>0, <3>1, <3>2, PositionsKept DEF OpenedOnce, Slice
  <2>6. CASE Lock(t)
    <3>1. /\ Goes(t, "lock", "seek") /\ UNCHANGED <<g_interval, streams, g_pFile, index, opened>>
          /\ g_mutex = Nobody /\ g_mutex' = t
      BY <1>0, <2>6, Stepped DEF Lock
    <3>2. \A u \in Threads : pc[u] \notin {"seek", "write"}
      BY <3>1, Nowhere DEF Positions
    <3> QED
      BY <1>0, <3>1, <3>2 DEF Goes, Positions
  <2>7. CASE Seek(t)
    <3>1. Goes(t, "seek", IF g_pFile = NULL THEN "crashed" ELSE "write")
      BY <1>0, <2>7, Stepped DEF Seek
    <3>2. UNCHANGED <<g_interval, g_pFile, index, opened, g_mutex>>
      BY <2>7 DEF Seek
    <3>3. \A u \in Threads : pc[u] \in {"seek", "write"} => u = t
      BY <3>1 DEF Positions, Goes
    <3>4. \A u \in Threads : pc'[u] \in {"seek", "write"} => u = t /\ g_mutex' = u /\ g_pFile # NULL
      BY <3>1, <3>2, <3>3 DEF Goes, Positions
    <3>5. g_pFile # NULL => streams'[g_pFile].pos = Slice(t).begin_iter
      <4> SUFFICES ASSUME g_pFile # NULL PROVE streams'[g_pFile].pos = Slice(t).begin_iter
        OBVIOUS
      <4>1. Slice(t) \in Interval
        BY <1>0 DEF TypeOK, Slice
      <4>2. Slice(t).begin_iter \in Int
        BY <4>1 DEF Interval
      <4>3. streams' = [streams EXCEPT ![g_pFile].pos = Slice(t).begin_iter]
        BY <2>7 DEF Seek
      <4> QED
        BY <1>0, <4>2, <4>3, SamePath
    <3>6. Slice(t)' = Slice(t)
      BY <3>2 DEF Slice
    <3> QED
      BY <3>2, <3>4, <3>5, <3>6 DEF Positions
  <2>8. CASE Write(t) \/ WriteRest(t) \/ WriteToNull(t)
    <3>1. pc[t] = "write" /\ pc'[t] \notin {"seek", "write"} /\ \A u \in Threads : u # t => pc'[u] = pc[u]
      BY <1>0, <2>8 DEF Write, WriteRest, WriteToNull, Step, TypeOK
    <3>2. \A u \in Threads : u # t => pc[u] \notin {"seek", "write"}
      BY <3>1 DEF Positions
    <3> QED
      BY <3>1, <3>2 DEF Positions
  <2> QED
    BY <1>4, <2>1, <2>2, <2>3, <2>4, <2>5, <2>6, <2>7, <2>8
       DEF thread_func, OpenFile, ChooseSlice, download_directly, write_callback
<1> QED
  BY <1>1, <1>2, <1>3, <1>4 DEF Next

(* A step that leaves the file: a thread that gets a slice is at its        *)
(* beginning, the others have fetched what they had.                        *)
LEMMA OnDiskKept ==
    ASSUME TypeOK, TypeOK', Opening, Paths, OnDisk, OpenedOnce' => OpenedOnce,
           UNCHANGED <<file_length, g_pFile, disk>>,
           \A k \in 1..Len(streams) : streams'[k].path = streams[k].path,
           \A u \in Threads : HasSlice(u)' =>
              \/ HasSlice(u) /\ index'[u] = index[u] /\ Slice(u)'.begin_iter = Slice(u).begin_iter
              \/ Slice(u)'.begin_iter = index'[u] * range(file_length')
    PROVE  OnDisk'
<1> SUFFICES ASSUME OpenedOnce, OpenedOnce'
             PROVE  /\ \A p \in 1..THREAD_NUM, b \in 0..(file_length' - 1) : disk'[p][b] \in {b, Empty}
                    /\ \A u \in Threads : HasSlice(u)' =>
                          \A b \in 0..(file_length' - 1) :
                              InSlice(b, index[u])' /\ b < Slice(u)'.begin_iter
                              => disk'[streams'[g_pFile'].path][b] = b
  BY DEF OnDisk
<1>1. \A p \in 1..THREAD_NUM, b \in 0..(file_length' - 1) : disk'[p][b] \in {b, Empty}
  BY DEF OnDisk
<1>2. ASSUME NEW u \in Threads, HasSlice(u)', NEW b \in 0..(file_length' - 1),
             InSlice(b, index[u])', b < Slice(u)'.begin_iter
      PROVE  disk'[streams'[g_pFile'].path][b] = b
  <2>1. CASE HasSlice(u) /\ index'[u] = index[u] /\ Slice(u)'.begin_iter = Slice(u).begin_iter
    <3>1. InSlice(b, index[u]) /\ b < Slice(u).begin_iter /\ b \in 0..(file_length - 1)
      BY <1>2, <2>1 DEF InSlice
    <3>2. g_pFile \in 1..Len(streams)
      <4>1. g_pFile # NULL /\ g_pFile \in 0..Len(streams) /\ streams \in Seq(Stream)
        BY <2>1 DEF Opening, Past, TypeOK
      <4> QED
        BY <4>1, LenProperties, SMT DEF NULL
    <3> QED
      BY <2>1, <3>1, <3>2 DEF OnDisk
  <2>2. CASE Slice(u)'.begin_iter = index'[u] * range(file_length')
    <3> DEFINE m == index'[u] * range(file_length')
    <3>1. m <= b /\ b < m /\ b \in Int
      BY <1>2, <2>2 DEF InSlice
    <3>2. m \in Int
      <4>1. TypeOK' /\ index'[u] \in Slices /\ file_length' \in Nat
        BY DEF TypeOK
      <4> QED
        BY <4>1, SliceBounds
    <3> HIDE DEF m
    <3> QED
      BY <3>1, <3>2
  <2> QED
    BY <1>2, <2>1, <2>2
<1> QED
  BY <1>1, <1>2

(* The file that is written to. *)
LEMMA MyFile ==
    ASSUME TypeOK, Opening, Paths, OpenedOnce, NEW u \in Threads, HasSlice(u)
    PROVE  g_pFile # NULL /\ g_pFile \in 1..Len(streams) /\ streams[g_pFile].path \in 1..THREAD_NUM
<1>1. g_pFile # NULL /\ g_pFile \in 0..Len(streams) /\ streams \in Seq(Stream)
  BY DEF Opening, Past, TypeOK
<1>2. g_pFile \in 1..Len(streams)
  BY <1>1, LenProperties, SMT DEF NULL
<1> QED
  BY <1>1, <1>2 DEF Paths

(* fopen, once: nobody has written anything. *)
LEMMA OnDiskOpen ==
    ASSUME IInv, IInv', Opening, Paths, OnDisk, NEW t \in Threads, Open(t)
    PROVE  OnDisk'
<1> USE DEF shared, locks, reply
<1>0. TypeOK /\ TypeOK'
  BY DEF IInv
<1>1. Goes(t, "open", "store") /\ file_length' = file_length
  BY <1>0, Stepped DEF Open
<1>2. OpenedOnce' => g_pFile = NULL /\ OpenedOnce
  BY <1>0, OpenAlone
<1>3. OpenedOnce' => \A u \in Threads : ~HasSlice(u)'
  BY <1>1, <1>2 DEF Opening, Past, HasSlice, Goes
<1>4. ASSUME OpenedOnce, NEW p \in 1..THREAD_NUM, NEW b \in 0..(file_length - 1)
      PROVE  disk'[p][b] \in {b, Empty}
  <2>1. disk[p][b] \in {b, Empty} /\ disk \in [1..THREAD_NUM -> [0..(file_length - 1) -> Int]]
    BY <1>4 DEF OnDisk, Paths
  <2>2. CASE path = 0
    BY <2>1, <2>2 DEF Open
  <2>3. CASE path # 0
    <3>1. disk' = [disk EXCEPT ![path] = [x \in DOMAIN disk[path] |-> Empty]]
      BY <2>3 DEF Open
    <3>2. CASE p = path
      <4>1. disk'[p] = [x \in DOMAIN disk[p] |-> Empty] /\ b \in DOMAIN disk[p]
        BY <2>1, <3>1, <3>2
      <4> QED
        BY <4>1, Zenon
    <3>3. CASE p # path
      BY <2>1, <3>1, <3>3
    <3> QED
      BY <3>2, <3>3
  <2> QED
    BY <2>2, <2>3
<1> QED
  BY <1>1, <1>2, <1>3, <1>4 DEF OnDisk

(* The piece goes to the place in the file that it has in the source.       *)
LEMMA OnDiskWrite ==
    ASSUME IInv, Opening, Paths, Ranges, Positions, OnDisk, NEW t \in Threads, Write(t)
    PROVE  OnDisk'
<1> USE DEF shared, locks, reply
<1>0. TypeOK /\ Dealt /\ Cut /\ RangeOf(t)
  BY DEF IInv, Ranges
<1>1. Goes(t, "write", "perform")
  BY <1>0, Stepped DEF Write
<1>2. /\ UNCHANGED <<file_length, index, opened, g_pFile>> /\ Fits(t) /\ Fwrite(t, chunk[t]) /\ g_pFile # NULL
      /\ g_interval' = [g_interval EXCEPT ![index[t]].begin_iter = @ + chunk[t]]
  BY DEF Write
<1>3. HasSlice(t) /\ index[t] \in Slices /\ Slice(t).begin_iter \in Int /\ chunk[t] \in Int
  BY <1>0, <1>1, MySlice DEF Goes, HasSlice
<1>4. next[t] = Slice(t).begin_iter
  BY <1>0, <1>1, <1>2, WhatFits DEF Goes
<1> DEFINE bg == Slice(t).begin_iter
<1> DEFINE n == chunk[t]
<1> DEFINE q == streams[g_pFile].path
<1>5. OpenedOnce => streams[g_pFile].pos = bg
  BY <1>1 DEF Goes, Positions
<1>6. /\ g_pFile \in 1..Len(streams) /\ q \in 1..THREAD_NUM /\ streams'[g_pFile].path = q
      /\ \A p \in 1..THREAD_NUM, b \in 0..(file_length - 1) :
            disk'[p][b] = IF p = q /\ streams[g_pFile].pos <= b /\ b < streams[g_pFile].pos + n
                          THEN next[t] + (b - streams[g_pFile].pos) ELSE disk[p][b]
  BY <1>0, <1>2, <1>3, FwriteDisk
<1>7. ASSUME OpenedOnce
      PROVE  \A p \in 1..THREAD_NUM, b \in 0..(file_length - 1) :
                disk'[p][b] = IF p = q /\ bg <= b /\ b < bg + n THEN b ELSE disk[p][b]
  <2> SUFFICES ASSUME NEW p \in 1..THREAD_NUM, NEW b \in 0..(file_length - 1)
               PROVE  disk'[p][b] = IF p = q /\ bg <= b /\ b < bg + n THEN b ELSE disk[p][b]
    OBVIOUS
  <2>1. bg + (b - bg) = b
    BY <1>3, SMT
  <2>2. streams[g_pFile].pos = bg /\ next[t] = bg
    BY <1>4, <1>5, <1>7
  <2>3. disk'[p][b] = IF p = q /\ streams[g_pFile].pos <= b /\ b < streams[g_pFile].pos + n
                      THEN next[t] + (b - streams[g_pFile].pos) ELSE disk[p][b]
    BY <1>6
  <2> HIDE DEF bg, q, n
  <2> QED
    BY <2>1, <2>2, <2>3
<1>8. /\ \A i \in Slices : i # index[t] => g_interval'[i] = g_interval[i]
      /\ g_interval'[index[t]].begin_iter = bg + n
  BY <1>0, <1>2, <1>3 DEF TypeOK, Interval, Slice
<1>9. \A u \in Threads : HasSlice(u)' => /\ HasSlice(u)
                                         /\ u # t => Slice(u)' = Slice(u)
  BY <1>0, <1>1, <1>2, <1>3, <1>8 DEF HasSlice, Goes, Dealt, OneThreadPerSlice, Slice, TypeOK
<1>10. Slice(t)'.begin_iter = bg + n
  BY <1>2, <1>8 DEF Slice
<1> SUFFICES ASSUME OpenedOnce
             PROVE  /\ \A p \in 1..THREAD_NUM, b \in 0..(file_length - 1) : disk'[p][b] \in {b, Empty}
                    /\ \A u \in Threads : HasSlice(u)' =>
                          \A b \in 0..(file_length - 1) :
                              InSlice(b, index[u]) /\ b < Slice(u)'.begin_iter => disk'[q][b] = b
  BY <1>2, <1>6 DEF OnDisk, OpenedOnce, InSlice
<1>11. \A p \in 1..THREAD_NUM, b \in 0..(file_length - 1) : disk'[p][b] \in {b, Empty}
  BY <1>7 DEF OnDisk
<1>12. ASSUME NEW u \in Threads, HasSlice(u)', NEW b \in 0..(file_length - 1), InSlice(b, index[u]),
              b < Slice(u)'.begin_iter
       PROVE  disk'[q][b] = b
  <2>1. HasSlice(u) /\ (b < Slice(u).begin_iter => disk[q][b] = b)
    BY <1>9, <1>12 DEF OnDisk
  <2>2. disk'[q][b] = IF bg <= b /\ b < bg + n THEN b ELSE disk[q][b]
    BY <1>6, <1>7
  <2>3. CASE u = t
    <3>1. b < bg + n /\ (b < bg => disk[q][b] = b) /\ bg \in Int /\ b \in Int
      BY <1>3, <1>10, <1>12, <2>1, <2>3
    <3> HIDE DEF bg, q, n
    <3> QED
      BY <2>2, <3>1
  <2>4. CASE u # t
    BY <1>9, <1>12, <2>1, <2>2, <2>4
  <2> QED
    BY <2>3, <2>4
<1> QED
  BY <1>11, <1>12

(* The slice is empty, and nothing is written. *)
LEMMA OnDiskWriteRest ==
    ASSUME IInv, IInv', Opening, Paths, Ranges, OnDisk, NEW t \in Threads, WriteRest(t)
    PROVE  OnDisk'
<1> USE DEF shared, locks, reply
<1>0. TypeOK /\ TypeOK' /\ Dealt /\ Cut /\ RangeOf(t)
  BY DEF IInv, Ranges
<1>1. Goes(t, "write", "failed")
  BY <1>0, Stepped DEF WriteRest
<1>2. /\ UNCHANGED <<file_length, index, opened, g_pFile>> /\ ~Fits(t) /\ g_pFile # NULL
      /\ Fwrite(t, Slice(t).end_iter - Slice(t).begin_iter + 1)
      /\ g_interval' = [g_interval EXCEPT ![index[t]].ok = 1]
  BY DEF WriteRest
<1>3. Slice(t).end_iter - Slice(t).begin_iter + 1 = 0
  BY <1>0, <1>1, <1>2, WhatFits DEF Goes
<1>4. Fwrite(t, 0)
  BY <1>2, <1>3
<1>5. /\ \A k \in 1..Len(streams) : streams'[k].path = streams[k].path
      /\ disk' \in [1..THREAD_NUM -> [0..(file_length - 1) -> Int]] /\ streams[g_pFile].pos \in Int
      /\ \A p \in 1..THREAD_NUM, b \in 0..(file_length - 1) :
            disk'[p][b] = IF p = streams[g_pFile].path /\ streams[g_pFile].pos <= b
                             /\ b < streams[g_pFile].pos + 0
                          THEN next[t] + (b - streams[g_pFile].pos) ELSE disk[p][b]
  BY <1>0, <1>2, <1>4, FwriteDisk
<1>6. disk' = disk
  <2>1. \A p \in 1..THREAD_NUM, b \in 0..(file_length - 1) : disk'[p][b] = disk[p][b]
    BY <1>5, SMT
  <2>2. disk \in [1..THREAD_NUM -> [0..(file_length - 1) -> Int]]
    BY DEF Paths
  <2>3. ASSUME NEW p \in 1..THREAD_NUM PROVE disk'[p] = disk[p]
    <3> DEFINE d == disk[p]
    <3> DEFINE e == disk'[p]
    <3>1. e \in [0..(file_length - 1) -> Int] /\ d \in [0..(file_length - 1) -> Int]
      BY <1>5, <2>2
    <3>2. \A b \in 0..(file_length - 1) : e[b] = d[b]
      BY <2>1
    <3> HIDE DEF d, e
    <3>3. e = [b \in 0..(file_length - 1) |-> e[b]] /\ d = [b \in 0..(file_length - 1) |-> d[b]]
      BY <3>1, Zenon
    <3>4. [b \in 0..(file_length - 1) |-> e[b]] = [b \in 0..(file_length - 1) |-> d[b]]
      BY <3>2, Zenon
    <3>5. e = d
      BY <3>3, <3>4, Zenon
    <3> QED
      BY <3>5 DEF d, e
  <2> QED
    BY <1>5, <2>2, <2>3
<1>7. \A u \in Threads : index[u] \in Slices
  BY <1>0 DEF TypeOK
<1>8. \A i \in Slices : g_interval'[i].begin_iter = g_interval[i].begin_iter
  BY <1>0, <1>2, <1>7 DEF TypeOK, Interval
<1>9. \A u \in Threads : Slice(u)'.begin_iter = Slice(u).begin_iter /\ index'[u] = index[u]
  BY <1>2, <1>7, <1>8 DEF Slice
<1>10. \A u \in Threads : HasSlice(u)' => HasSlice(u)
  BY <1>1 DEF Goes, HasSlice
<1>11. OpenedOnce' => OpenedOnce
  BY <1>2 DEF OpenedOnce
<1> QED
  BY <1>0, <1>2, <1>5, <1>6, <1>9, <1>10, <1>11, OnDiskKept

(* Every step keeps what has been fetched on disk.                          *)
LEMMA StepOnDisk ==
    /\ IInv /\ IInv' /\ Opening /\ Paths /\ Ranges /\ Positions /\ OnDisk /\ [Next]_vars
    => OnDisk'
<1> SUFFICES ASSUME IInv, IInv', Opening, Paths, Ranges, Positions, OnDisk, [Next]_vars PROVE OnDisk'
  OBVIOUS
<1> USE DEF shared, locks, reply
<1>0. TypeOK /\ TypeOK' /\ Dealt /\ Cut
  BY DEF IInv, Ranges
<1>1. CASE UNCHANGED vars
  BY <1>1 DEF vars, OnDisk, OpenedOnce, HasSlice, InSlice, Slice
<1>2. CASE Create
  <2>1. PICK c \in Threads : c = created
    BY <1>0, <1>2, SMT DEF Create, TypeOK, Threads
  <2>2. /\ \A u \in Threads : u # c => pc'[u] = pc[u]
        /\ pc'[c] = "start"
        /\ UNCHANGED <<file_length, g_interval, index, opened, g_pFile, streams, disk>>
    BY <1>0, <1>2, <2>1 DEF Create, TypeOK
  <2> QED
    BY <1>0, <2>2, OnDiskKept DEF OpenedOnce, Slice, HasSlice
<1>3. CASE CreateFails
  BY <1>3 DEF CreateFails, OnDisk, OpenedOnce, HasSlice, InSlice, Slice
<1>4. ASSUME NEW t \in Threads, thread_func(t) PROVE OnDisk'
  <2>1. CASE CopyDirectory(t) \/ AppendName(t) \/ TestFile(t) \/ CheckFile(t) \/ LockIndex(t) \/ Search(t)
    <3>1. QuietMove(t)
      BY <1>0, <2>1, BeforeSlice
    <3>2. \A u \in Threads : HasSlice(u)' => HasSlice(u) /\ u # t
      BY <3>1 DEF QuietMove, HasSlice
    <3> QED
      BY <1>0, <3>1, <3>2, OnDiskKept DEF QuietMove, OpenedOnce, Slice
  <2>2. CASE StoreFile(t)
    <3>1. Goes(t, "store", "check") /\ UNCHANGED <<file_length, streams, disk, opened>>
      BY <1>0, <2>2, Stepped DEF StoreFile
    <3>2. OpenedOnce' => OpenedOnce
      BY <3>1 DEF OpenedOnce
    <3>3. OpenedOnce => \A u \in Threads : ~HasSlice(u)'
      BY <3>1 DEF Opening, Past, HasSlice, Goes
    <3> QED
      BY <3>1, <3>2, <3>3 DEF OnDisk
  <2>3. CASE TakeSlice(t)
    <3>1. Goes(t, "take", "request") /\ UNCHANGED <<file_length, streams, disk, g_pFile, index, opened>>
      BY <1>0, <2>3, Stepped DEF TakeSlice
    <3>2. \A i \in Slices : g_interval'[i].begin_iter = g_interval[i].begin_iter
      BY <1>0, <2>3 DEF TakeSlice, TypeOK, Interval
    <3>3. \A u \in Threads : Slice(u)'.begin_iter = Slice(u).begin_iter
      BY <1>0, <3>1, <3>2 DEF Slice, TypeOK
    <3>4. Slice(t)'.begin_iter = index'[t] * range(file_length')
      <4>1. g_interval[index[t]].use = 0 /\ index[t] \in Slices
        BY <1>0, <3>1 DEF Goes, Dealt, TypeOK
      <4> QED
        BY <1>0, <3>1, <3>3, <4>1 DEF Cut, Slice
    <3>5. \A u \in Threads : HasSlice(u)' => u = t \/ HasSlice(u)
      BY <3>1 DEF Goes, HasSlice
    <3> QED
      BY <1>0, <3>1, <3>3, <3>4, <3>5, OnDiskKept DEF OpenedOnce
  <2>4. CASE Request(t) \/ Arrive(t) \/ PerformEnds(t) \/ Lock(t) \/ Seek(t) \/ WriteToNull(t)
    <3>1. UNCHANGED <<file_length, g_interval, disk>>
      BY <2>4 DEF Request, Arrive, PerformEnds, Lock, Seek, WriteToNull
    <3>2. UNCHANGED <<g_pFile, index, opened>> /\ HasSlice(t) /\ \A u \in Threads : u # t => pc'[u] = pc[u]
      BY <1>0, <2>4, WithSlice
    <3>3. \A k \in 1..Len(streams) : streams'[k].path = streams[k].path
      <4>1. CASE streams' = streams
        BY <4>1
      <4>2. CASE Seek(t) /\ g_pFile # NULL
        <5>1. Slice(t) \in Interval
          BY <1>0 DEF TypeOK, Slice
        <5>2. Slice(t).begin_iter \in Int
          BY <5>1 DEF Interval
        <5>3. streams' = [streams EXCEPT ![g_pFile].pos = Slice(t).begin_iter]
          BY <4>2 DEF Seek
        <5> QED
          BY <1>0, <4>2, <5>2, <5>3, SamePath
      <4> QED
        BY <2>4, <4>1, <4>2 DEF Request, Arrive, PerformEnds, Lock, Seek, WriteToNull
    <3>4. \A u \in Threads : HasSlice(u)' => HasSlice(u)
      BY <3>2 DEF HasSlice
    <3> QED
      BY <1>0, <3>1, <3>2, <3>3, <3>4, OnDiskKept DEF OpenedOnce, Slice
  <2> QED
    BY <1>4, <2>1, <2>2, <2>3, <2>4, OnDiskOpen, OnDiskWrite, OnDiskWriteRest
       DEF thread_func, OpenFile, ChooseSlice, download_directly, write_callback
<1> QED
  BY <1>1, <1>2, <1>3, <1>4 DEF Next

(* Before main creates a thread nothing is open, taken or written.          *)
LEMMA FInit == Init => FInv
<1> SUFFICES ASSUME Init PROVE FInv
  OBVIOUS
<1>1. /\ \A t \in Threads : pc[t] = "absent" /\ opened[t] = NotCalled
      /\ g_pFile = NULL /\ streams = <<>> /\ path = 0 /\ file_length \in Nat
      /\ g_interval = slice_file(file_length)
      /\ disk = [p \in 1..THREAD_NUM |-> [b \in 0..(file_length - 1) |-> Empty]]
  BY DEF Init
<1>2. Opening
  BY <1>1 DEF Opening, Past, HasSlice
<1>3. Paths
  <2>1. path <= Cardinality(Named)
    <3>1. Cardinality(Named) \in Nat
      BY NamedFinite
    <3> QED
      BY <1>1, <3>1
  <2>2. Len(streams) = 0
    BY <1>1, EmptySeq
  <2>3. disk \in [1..THREAD_NUM -> [0..(file_length - 1) -> Int]]
    BY <1>1 DEF Empty
  <2> QED
    BY <2>1, <2>2, <2>3 DEF Paths
<1>4. Ranges
  <2>1. \A i \in Slices : /\ g_interval[i].begin_iter = i * range(file_length)
                          /\ g_interval[i].end_iter = end_iter(file_length, i)
    BY <1>1 DEF slice_file
  <2> QED
    BY <1>1, <2>1 DEF Ranges, Cut, RangeOf, Fetching, HasSlice
<1>5. Positions
  BY <1>1 DEF Positions
<1>6. OnDisk
  BY <1>1 DEF OnDisk, HasSlice
<1> QED
  BY <1>2, <1>3, <1>4, <1>5, <1>6 DEF FInv

(* The parts of the invariant, each kept with the help of the others.       *)
LEMMA FStep == IInv /\ IInv' /\ FInv /\ [Next]_vars => FInv'
BY StepOpening, StepPaths, StepRanges, StepPositions, StepOnDisk DEF FInv

(* Both invariants hold in every reachable state.                           *)
LEMMA FInvariant == Spec => [](IInv /\ FInv)
<1>1. Init => IInv /\ FInv
  BY InitInvariant, FInit
<1>2. IInv /\ FInv /\ [Next]_vars => (IInv /\ FInv)'
  BY StepInvariant, FStep
<1> QED
  BY <1>1, <1>2, PTL DEF Spec

(* There are as many slices as threads: when every thread has one, every    *)
(* slice has been taken.                                                    *)
LEMMA EverySliceTaken ==
    ASSUME TypeOK, OneThreadPerSlice, \A t \in Threads : HasSlice(t), NEW i \in Slices
    PROVE  \E t \in Threads : index[t] = i
<1>1. Threads = Slices
  BY DEF Threads, Slices
<1>2. index \in [Threads -> Slices]
  BY DEF TypeOK
<1>3. index \in Injection(Threads, Slices)
  BY <1>2 DEF OneThreadPerSlice, Injection, IsInjective
<1>4. IsFiniteSet(Threads) /\ IsFiniteSet(Slices) /\ Cardinality(Threads) = Cardinality(Slices)
  BY <1>1, ThreadsFinite
<1>5. index \in Surjection(Threads, Slices)
  BY <1>3, <1>4, FS_Injection
<1> QED
  BY <1>5 DEF Surjection

(* What the property says of the file follows from the invariant.           *)
LEMMA FileFollows == IInv /\ FInv => FileIsRight
<1> SUFFICES ASSUME IInv, FInv PROVE FileIsRight
  OBVIOUS
<1>0. TypeOK /\ Dealt /\ Opening /\ Paths /\ Ranges /\ Cut /\ OnDisk /\ file_length \in Nat
  BY DEF IInv, FInv, Ranges, TypeOK
<1>1. WrittenWhereItBelongs
  BY <1>0 DEF WrittenWhereItBelongs, OnDisk, Paths
<1>2. OnlyEmptySlicesFail
  <2> SUFFICES ASSUME range(file_length) > 0, NEW t \in Threads, pc[t] = "failed"
               PROVE  index[t] * range(file_length) = file_length
    BY DEF OnlyEmptySlicesFail
  <2> DEFINE r == range(file_length)
  <2> DEFINE m == index[t] * r
  <2>1. /\ m = end_iter(file_length, index[t]) + 1
        /\ end_iter(file_length, index[t]) = IF m + r <= file_length THEN m + r - 1 ELSE file_length - 1
    BY <1>0 DEF Ranges, RangeOf, NoBytes, end_iter
  <2>2. m \in Nat /\ r \in Nat /\ r > 0
    BY <1>0, SliceBounds DEF TypeOK
  <2> HIDE DEF m, r
  <2>3. m = file_length
    BY <1>0, <2>1, <2>2, SMT
  <2> QED
    BY <2>3 DEF m, r
<1>3. CompleteFile
  <2> SUFFICES ASSUME OpenedOnce, LongEnough, \A t \in Threads : pc[t] \in {"done", "failed"}
               PROVE  \E p \in DOMAIN disk : \A b \in DOMAIN disk[p] : disk[p][b] = b
    BY DEF CompleteFile
  <2>1. \A t \in Threads : HasSlice(t)
    BY DEF HasSlice
  <2>2. 0 \in Threads
    BY SMT DEF Threads
  <2>3. streams[g_pFile].path \in 1..THREAD_NUM
    BY <1>0, <2>1, <2>2, MyFile
  <2>4. ASSUME NEW b \in 0..(file_length - 1) PROVE disk[streams[g_pFile].path][b] = b
    <3>1. PICK i \in Slices : InSlice(b, i)
      BY <1>0, <2>4, Partition DEF SlicesCoverTheFile
    <3>2. PICK t \in Threads : index[t] = i
      BY <1>0, <2>1, EverySliceTaken DEF Dealt
    <3>3. /\ Slice(t).end_iter = end_iter(file_length, i) /\ end_iter(file_length, i) \in Int
          /\ Slice(t).begin_iter \in Int /\ i * range(file_length) \in Nat
      BY <1>0, <3>2, MySlice
    <3>4. ~NoBytes(i)
      <4> DEFINE m == i * range(file_length)
      <4>1. m <= b /\ b <= end_iter(file_length, i) /\ (NoBytes(i) <=> m = end_iter(file_length, i) + 1)
        BY <3>1 DEF InSlice, NoBytes
      <4>2. m \in Nat
        BY <3>3
      <4> HIDE DEF m
      <4> QED
        BY <3>3, <4>1, <4>2, SMT
    <3>5. pc[t] = "done" /\ RangeOf(t)
      BY <1>0, <3>2, <3>4 DEF Ranges, RangeOf
    <3>6. next[t] = Slice(t).begin_iter /\ last[t] = Slice(t).end_iter /\ next[t] > last[t]
      BY <3>2, <3>4, <3>5 DEF RangeOf, Fetching, HasSlice, Asked
    <3>7. b < Slice(t).begin_iter
      BY <3>1, <3>3, <3>6, SMT DEF InSlice
    <3> QED
      BY <1>0, <2>1, <3>1, <3>2, <3>7 DEF OnDisk
  <2>5. \A p \in 1..THREAD_NUM : p \in DOMAIN disk /\ DOMAIN disk[p] = 0..(file_length - 1)
    BY <1>0 DEF Paths
  <2> QED
    BY <2>3, <2>4, <2>5
<1> QED
  BY <1>1, <1>2, <1>3 DEF FileIsRight

(* With one FILE a byte is written to its own position or not at all, a     *)
(* download fails only for an empty slice, and when every thread has got    *)
(* its slice the file is complete: for any number of threads, any long      *)
(* enough file, and whatever pieces the bytes arrive in.                    *)
THEOREM FileRight == Spec => []FileIsRight
BY FInvariant, FileFollows, PTL
=============================================================================
