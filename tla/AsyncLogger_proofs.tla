-------------------------- MODULE AsyncLogger_proofs --------------------------
(***************************************************************************)
(* The proofs about the asynchronous logger, for every configuration: any   *)
(* size of the queue, both policies, any threads, workers, days and files.  *)
(*                                                                          *)
(* The messages.  MInv follows a message from the thread that stamps it to  *)
(* the worker that is done with it: entered is the history of what was put  *)
(* in the queue, which is cut in two.  Its last messages are in the queue,  *)
(* in order and before any terminate message; the ones before them left it, *)
(* and are in a worker's hands, done, or lost to an overrun, which the      *)
(* queue counts.  Ending says why no message comes after a terminate        *)
(* message: the destructor only runs when no thread holds the pool, and     *)
(* posts as many as there are workers.                                      *)
(*                                                                          *)
(* The sink.  Stamped bounds the dates of the messages that are under way   *)
(* by the clock, which is why a rotation never goes back to an earlier      *)
(* month; Rotation and Sunk relate the rotation that is due to the open     *)
(* file and to every file written to before.  InSequence and Reopens are    *)
(* about one thread with one worker, whose messages come in order: after a  *)
(* rotation that failed the next one tries again.                           *)
(*                                                                          *)
(* The files.  Retention says which ones are there, in terms of the months  *)
(* the sink opened and the queue of names it deletes by.                    *)
(*                                                                          *)
(* The calendar, and the circular queue (CircularQueue_proofs), are settled *)
(* first; the refinement of BoundedQueue and the files come last.           *)
(***************************************************************************)
EXTENDS AsyncLogger, CircularQueue_proofs, WellFoundedInduction, FiniteSetTheorems

-----------------------------------------------------------------------------
(* The calendar *)

(* Before the year 3200 the sinks take the years of the calendar for leap   *)
(* years, and the days before a year follow its length.                     *)
LEMMA LeapYears ==
    ASSUME NEW y \in Nat
    PROVE  /\ y < 3200 => (Leap(y) <=> Gregorian(y))
           /\ Gregorian(y) => BeforeYear(y + 1) = BeforeYear(y) + 366
           /\ ~Gregorian(y) => BeforeYear(y + 1) = BeforeYear(y) + 365
           /\ BeforeYear(y) \in Int
<1> DEFINE Up(n) == IF y % n = 0 THEN 0 ELSE 1
<1>1. (y + 3) \div 4 = y \div 4 + Up(4) /\ (y + 4) \div 4 = y \div 4 + 1
  BY SMT
<1>2. (y + 99) \div 100 = y \div 100 + Up(100) /\ (y + 100) \div 100 = y \div 100 + 1
  BY SMT
<1>3. (y + 399) \div 400 = y \div 400 + Up(400) /\ (y + 400) \div 400 = y \div 400 + 1
  BY SMT
<1>4. (y % 400 = 0 => y % 100 = 0) /\ (y % 100 = 0 => y % 4 = 0)
  BY SMT
<1>5. y < 3200 => (Leap(y) <=> Gregorian(y))
  <2>1. ASSUME y < 3200, y # 0 PROVE y % 3200 = y /\ y % 172800 = y
    BY <2>1, SMT
  <2>2. 0 % 4 = 0 /\ 0 % 100 = 0 /\ 0 % 400 = 0 /\ 0 % 172800 = 0
    BY SMT
  <2> QED
    BY <1>4, <2>1, <2>2, SMT DEF Leap, Gregorian
<1>6. y \div 4 \in Int /\ y \div 100 \in Int /\ y \div 400 \in Int
  BY SMT
<1> QED
  BY <1>1, <1>2, <1>3, <1>4, <1>5, <1>6, SMT DEF Gregorian, BeforeYear

(* The calendar month after a month is in the same year, or opens the next. *)
LEMMA Following ==
    ASSUME NEW m \in Nat
    PROVE  /\ m \div 12 \in Nat /\ m % 12 \in 0..11
           /\ m % 12 # 11 => (m + 1) \div 12 = m \div 12 /\ (m + 1) % 12 = (m % 12) + 1
           /\ m % 12 = 11 => (m + 1) \div 12 = m \div 12 + 1 /\ (m + 1) % 12 = 0
BY SMT

(* What the sinks take for the length of a month is its length.             *)
LEMMA NextMonth ==
    ASSUME NEW m \in Nat, m < 12 * 3200
    PROVE  Days(m) \in 28..31 /\ DaysBefore(m + 1) = DaysBefore(m) + Days(m) /\ DaysBefore(m) \in Int
<1> DEFINE y == m \div 12
<1> DEFINE k == m % 12
<1>1. y \in Nat /\ k \in 0..11 /\ y < 3200
  BY SMT
<1>2. /\ Leap(y) <=> Gregorian(y)
      /\ Gregorian(y) => BeforeYear(y + 1) = BeforeYear(y) + 366
      /\ ~Gregorian(y) => BeforeYear(y + 1) = BeforeYear(y) + 365
      /\ BeforeYear(y) \in Int
  BY <1>1, LeapYears
<1>3. /\ k # 11 => (m + 1) \div 12 = y /\ (m + 1) % 12 = k + 1
      /\ k = 11 => (m + 1) \div 12 = y + 1 /\ (m + 1) % 12 = 0
  BY Following
<1> DEFINE T == <<0, 31, 59, 90, 120, 151, 181, 212, 243, 273, 304, 334>>
<1> DEFINE leap == IF Gregorian(y) THEN 1 ELSE 0
<1> DEFINE s(j) == T[j + 1] + IF j >= 2 THEN leap ELSE 0
<1> DEFINE d == CASE k \in {0, 2, 4, 6, 7, 9, 11} -> 31
                  [] k \in {3, 5, 8, 10}          -> 30
                  [] OTHER                         -> 28 + leap
<1>4. Days(m) = d
  BY <1>1, <1>2 DEF Days
<1>5. DaysBefore(m) = BeforeYear(y) + s(k)
  BY <1>1 DEF DaysBefore, InYear
<1>6. k # 11 => DaysBefore(m + 1) = BeforeYear(y) + s(k + 1)
  BY <1>1, <1>3 DEF DaysBefore, InYear
<1>7. k = 11 => DaysBefore(m + 1) = BeforeYear(y + 1) + s(0)
  BY <1>1, <1>3 DEF DaysBefore, InYear
<1> DEFINE by == BeforeYear(y)
<1> HIDE DEF y, k, leap, by
<1>8. k = 11 => by + 365 + leap + s(0) = by + s(k) + d
  BY <1>1, <1>2, SMT DEF leap, by
<1>9. k # 11 => s(k + 1) = s(k) + d
  BY <1>1, SMT DEF leap
<1>10. d \in 28..31 /\ s(k) \in Int /\ (k # 11 => s(k + 1) \in Int) /\ s(0) \in Int /\ by \in Int
  BY <1>1, <1>2, SMT DEF leap, by
<1>11. CASE k = 11
  <2>1. BeforeYear(y + 1) = by + 365 + leap
    BY <1>2, SMT DEF leap, by
  <2>2. DaysBefore(m + 1) = by + 365 + leap + s(0) /\ DaysBefore(m) = by + s(k)
    BY <1>5, <1>7, <1>11, <2>1 DEF by
  <2> HIDE DEF s, d
  <2> QED
    BY <1>4, <1>8, <1>10, <1>11, <2>2, SMT
<1>12. CASE k # 11
  <2>1. DaysBefore(m + 1) = by + s(k + 1) /\ DaysBefore(m) = by + s(k)
    BY <1>5, <1>6, <1>12 DEF by
  <2> HIDE DEF s, d
  <2> QED
    BY <1>4, <1>9, <1>10, <1>12, <2>1, SMT
<1> QED
  BY <1>11, <1>12

(* A set of numbers has a least one, which is what CHOOSE finds in it.      *)
LEMMA LeastNumber ==
    ASSUME NEW S \in SUBSET Nat, S # {}
    PROVE  \E m \in S : \A n \in S : m <= n
<1> DEFINE Less == {nm \in Nat \X Nat : nm[1] < nm[2]}
<1>1. IsWellFoundedOn(Less, Nat)
  BY NatLessThanWellFounded, Zenon DEF OpToRel
<1>2. PICK m \in S : \A n \in S : ~(<<n, m>> \in Less)
  BY <1>1, WFMin
<1>3. \A n, k \in Nat : <<n, k>> \in Less <=> n < k
  BY SMT
<1>4. ASSUME NEW n \in S PROVE m <= n
  <2>1. ~(n < m)
    BY <1>2, <1>3, Zenon
  <2> QED
    BY <2>1
<1> QED
  BY <1>4

Calendar == FirstMonth..(LastMonth + 1)

(* MonthStart counts the days: a month begins as many days after the one    *)
(* before it as that one has.                                               *)
LEMMA MonthBegins ==
    /\ MonthStart[FirstMonth] = 0
    /\ \A m \in Calendar : MonthStart[m] \in Int
    /\ \A m \in Months : /\ Days(m) \in 28..31
                         /\ m + 1 \in Calendar /\ MonthStart[m + 1] = MonthStart[m] + Days(m)
<1> USE FileSinkAssumption
<1>1. FirstMonth \in Calendar /\ DaysBefore(FirstMonth) \in Int
  BY NextMonth, SMT DEF Calendar
<1>2. MonthStart[FirstMonth] = 0
  BY <1>1, SMT DEF MonthStart, Calendar
<1>3. ASSUME NEW m \in Months
      PROVE  /\ Days(m) \in 28..31 /\ MonthStart[m] \in Int /\ MonthStart[m + 1] \in Int
             /\ m + 1 \in Calendar /\ MonthStart[m + 1] = MonthStart[m] + Days(m)
  <2>1. m \in Nat /\ m < 12 * 3200 /\ m \in Calendar /\ m + 1 \in Calendar
    BY SMT DEF Months, Calendar
  <2>2. Days(m) \in 28..31 /\ DaysBefore(m + 1) = DaysBefore(m) + Days(m) /\ DaysBefore(m) \in Int
    BY <2>1, NextMonth
  <2>3. /\ MonthStart[m] = DaysBefore(m) - DaysBefore(FirstMonth)
        /\ MonthStart[m + 1] = DaysBefore(m + 1) - DaysBefore(FirstMonth)
    BY <2>1 DEF MonthStart, Calendar
  <2> QED
    BY <1>1, <2>1, <2>2, <2>3, SMT
<1>4. ASSUME NEW m \in Calendar PROVE MonthStart[m] \in Int
  <2>1. CASE m \in Months
    BY <1>3, <2>1
  <2>2. CASE m \notin Months
    <3>1. LastMonth \in Months /\ m = LastMonth + 1
      BY <2>2, SMT DEF Months, Calendar
    <3> QED
      BY <1>3, <3>1
  <2> QED
    BY <2>1, <2>2
<1> QED
  BY <1>2, <1>3, <1>4

(* Later months begin later.                                                *)
LEMMA MonthsInOrder ==
    ASSUME NEW a \in Calendar, NEW b \in Calendar, a < b
    PROVE  MonthStart[a] < MonthStart[b]
<1> USE FileSinkAssumption
<1> DEFINE S == {n \in Nat : n \in Calendar /\ a < n /\ ~(MonthStart[a] < MonthStart[n])}
<1> SUFFICES ASSUME S # {} PROVE FALSE
  BY SMT DEF Calendar
<1>1. PICK n \in S : \A k \in S : n <= k
  <2>1. S \in SUBSET Nat
    OBVIOUS
  <2> HIDE DEF S
  <2> QED
    BY <2>1, LeastNumber
<1>2. /\ a \in Nat /\ n \in Nat /\ n \in Calendar /\ a < n /\ ~(MonthStart[a] < MonthStart[n])
      /\ n - 1 \in Months /\ n - 1 \in Calendar /\ n - 1 \in Nat /\ n = (n - 1) + 1
  BY SMT DEF Calendar, Months
<1>3. n - 1 \notin S
  BY <1>1, <1>2, SMT
<1>4. /\ MonthStart[n] = MonthStart[n - 1] + Days(n - 1) /\ Days(n - 1) \in 28..31
      /\ MonthStart[a] \in Int /\ MonthStart[n - 1] \in Int
  <2>1. \A k : k \in Months => MonthStart[k + 1] = MonthStart[k] + Days(k) /\ Days(k) \in 28..31
    BY MonthBegins
  <2>2. /\ MonthStart[(n - 1) + 1] = MonthStart[n - 1] + Days(n - 1)
        /\ Days(n - 1) \in 28..31
    BY <1>2, <2>1
  <2>3. MonthStart[a] \in Int /\ MonthStart[n - 1] \in Int
    BY <1>2, MonthBegins
  <2> QED
    BY <1>2, <2>2, <2>3
<1>5. n - 1 = a \/ MonthStart[a] < MonthStart[n - 1]
  BY <1>2, <1>3, SMT
<1> QED
  BY <1>2, <1>4, <1>5, SMT

(* The days of the model: those of every month but the last.                *)
CalendarDays == 0..(MonthStart[LastMonth] - 1)

(* Every day a message may be stamped with is in one month, with another    *)
(* one after it.                                                            *)
LEMMA MonthOfDay ==
    ASSUME NEW t \in CalendarDays
    PROVE  /\ MonthOf(t) \in Months /\ MonthOf(t) + 1 \in Months
           /\ MonthStart[MonthOf(t)] <= t /\ t < MonthStart[MonthOf(t) + 1]
<1> USE FileSinkAssumption
<1>0. LastMonth \in Calendar /\ MonthStart[LastMonth] \in Int /\ t \in Nat /\ t < MonthStart[LastMonth]
  BY MonthBegins, SMT DEF Calendar, CalendarDays
<1> DEFINE S == {m \in Nat : m \in Months /\ t < MonthStart[m + 1]}
<1>1. S # {}
  <2>1. LastMonth - 1 \in Nat /\ LastMonth - 1 \in Months /\ (LastMonth - 1) + 1 = LastMonth
    BY SMT DEF Months
  <2> QED
    BY <1>0, <2>1, SMT
<1>2. PICK m \in S : \A n \in S : m <= n
  <2>1. S \in SUBSET Nat
    OBVIOUS
  <2> HIDE DEF S
  <2> QED
    BY <1>1, <2>1, LeastNumber
<1>3. m \in Months /\ t < MonthStart[m + 1] /\ m \in Nat
  OBVIOUS
<1>4. MonthStart[m] <= t
  <2>1. CASE m = FirstMonth
    BY <1>0, <2>1, MonthBegins, SMT
  <2>2. CASE m # FirstMonth
    <3>1. m - 1 \in Nat /\ m - 1 \in Months /\ (m - 1) + 1 = m /\ m \in Calendar
      BY <1>3, <2>2, SMT DEF Months, Calendar
    <3>2. m - 1 \notin S
      BY <1>2, <1>3, SMT
    <3>3. MonthStart[m] \in Int
      BY <3>1, MonthBegins
    <3> QED
      BY <1>0, <3>1, <3>2, <3>3, SMT
  <2> QED
    BY <2>1, <2>2
<1>5. /\ MonthOf(t) \in Months
      /\ MonthStart[MonthOf(t)] <= t /\ t < MonthStart[MonthOf(t) + 1]
  <2> DEFINE P(k) == MonthStart[k] <= t /\ t < MonthStart[k + 1]
  <2>1. \E k \in Months : P(k)
    BY <1>3, <1>4
  <2> DEFINE c == CHOOSE k \in Months : P(k)
  <2>2. MonthOf(t) = c
    BY DEF MonthOf
  <2>3. c \in Months /\ P(c)
    <3> HIDE DEF P
    <3> QED
      BY <2>1
  <2> HIDE DEF c
  <2> QED
    BY <2>2, <2>3
<1>6. MonthOf(t) # LastMonth
  BY <1>0, <1>5, SMT
<1> QED
  BY <1>5, <1>6, SMT DEF Months

(* A later day is not in an earlier month.                                  *)
LEMMA DaysInOrder ==
    ASSUME NEW t \in CalendarDays, NEW u \in CalendarDays, t <= u
    PROVE  MonthOf(t) <= MonthOf(u)
<1> USE FileSinkAssumption
<1>1. /\ MonthOf(t) \in Months /\ MonthStart[MonthOf(t)] <= t
      /\ MonthOf(u) \in Months /\ u < MonthStart[MonthOf(u) + 1]
  BY MonthOfDay
<1> DEFINE a == MonthOf(t)
<1> DEFINE b == MonthOf(u) + 1
<1>2. a \in Calendar /\ b \in Calendar /\ a \in Nat /\ b \in Nat /\ t \in Int /\ u \in Int
  BY <1>1, SMT DEF Calendar, Months, CalendarDays
<1>3. MonthStart[a] \in Int /\ MonthStart[b] \in Int
  BY <1>2, MonthBegins
<1>4. b < a => MonthStart[b] < MonthStart[a]
  BY <1>2, MonthsInOrder
<1>5. MonthStart[a] <= t /\ u < MonthStart[b]
  BY <1>1
<1>6. MonthOf(u) \in Nat /\ b = MonthOf(u) + 1
  BY <1>1, SMT DEF Months
<1> HIDE DEF a, b
<1>7. ~(b <= a)
  BY <1>2, <1>3, <1>4, <1>5, SMT
<1> QED
  BY <1>2, <1>6, <1>7, SMT DEF a

(* A file is due until the next month begins.                               *)
LEMMA RotationAtTheTurn ==
    ASSUME NEW t \in CalendarDays
    PROVE  next_rotation_tp(t) = MonthStart[MonthOf(t) + 1] /\ next_rotation_tp(t) \in Int
BY MonthOfDay, MonthBegins DEF next_rotation_tp

-----------------------------------------------------------------------------
(* The inductive invariant of the messages *)

Messages  == [kind : {"log", "flush"}, id : 1..MaxCalls, time : CalendarDays]
Terminate == Msg("terminate", 0, 0)
Posted    == Messages \cup {Terminate}

Queue == Items(q)

WorkerPlaces == {"absent", "dequeue", "sleeping", "notify", "process", "exited"}

Typed ==
    /\ conf \in Configurations /\ clock \in conf.days
    /\ q \in Circular(conf.queue_size + 1, Posted \cup {Moved})
    /\ Queue \in Seq(Posted)
    /\ pc \in [Posters -> Places] /\ wpc \in [Workers -> WorkerPlaces]
    /\ posting \in [Posters -> Posted \cup {None}]
    /\ incoming \in [Workers -> Posted \cup {None}]
    /\ calls \in 0..conf.calls /\ toStop \in 0..Cardinality(conf.workers)
    /\ entered \in Seq(1..MaxCalls) /\ done \subseteq 1..MaxCalls

Carrying(l) == pc[l] \in {"stamped", "enqueue", "waiting"}

(* What a thread is about to post has not entered the queue.                *)
Posting ==
    /\ posting[Main] = Terminate
    /\ \A l \in Loggers : pc[l] \in {"idle", "stamped", "enqueue", "waiting", "notify", "crashed"}
    /\ \A l \in Loggers : Carrying(l) =>
          /\ l \in conf.loggers
          /\ posting[l] \in Messages /\ posting[l].id <= calls
          /\ \A k \in DOMAIN entered : entered[k] # posting[l].id
    /\ \A l, k \in Loggers : Carrying(l) /\ Carrying(k) /\ posting[l].id = posting[k].id => l = k
    /\ \A k \in DOMAIN entered : entered[k] <= calls
    /\ \A i, j \in DOMAIN entered : entered[i] = entered[j] => i = j

Hands ==
    /\ \A w \in Workers : wpc[w] = "absent" <=> w \notin conf.workers
    /\ \A w \in Workers : incoming[w] # None <=> wpc[w] \in {"notify", "process"}
    /\ \A v, w \in Workers :
          incoming[v] \in Messages /\ incoming[w] \in Messages /\ incoming[v].id = incoming[w].id => v = w
    /\ \A w \in Workers : incoming[w] \in Messages => incoming[w].id \notin done

(* The i-th message left the queue, of whose elements n are terminate       *)
(* messages.                                                                *)
Left(n) == Len(entered) - (Len(Queue) - n)

(* The queue holds the messages that entered last, in their order, and the  *)
(* terminate messages after them: what a worker has taken entered before.   *)
Ordered(n) ==
    /\ n \in 0..Len(Queue) /\ Left(n) \in Nat
    /\ \A k \in 1..Len(Queue) : Queue[k] = Terminate <=> k > Len(Queue) - n
    /\ \A k \in 1..(Len(Queue) - n) : Queue[k].id = entered[Left(n) + k]
    /\ \A w \in Workers : incoming[w] \in Messages =>
          \E i \in 1..Left(n) : entered[i] = incoming[w].id
    /\ \A d \in done : \E i \in 1..Left(n) : entered[i] = d

Leaving == {w \in Workers : wpc[w] = "exited" \/ incoming[w] = Terminate}

AboutToPost == IF pc[Main] \in {"enqueue", "waiting"} THEN 1 ELSE 0

(* There is one terminate message for each worker, and none is posted while *)
(* a thread still holds the pool.                                           *)
Ending(n) ==
    /\ pc[Main] \in Places \ {"idle", "stamped"}
    /\ pc[Main] \in {"start", "opened"} => entered = <<>>
    /\ pc[Main] \in {"start", "opened", "up"} => toStop = Cardinality(conf.workers)
    /\ Holders # {} => pc[Main] \in {"up", "destroy"} /\ toStop = Cardinality(conf.workers)
    /\ pc[Main] # "crashed" =>
          toStop + AboutToPost + n + Cardinality(Leaving) = Cardinality(conf.workers)
    /\ Leaving # {} => n = Len(Queue)
    /\ pc[Main] \in {"join", "gone"} => toStop = 0
    /\ pc[Main] = "gone" => \A w \in conf.workers : wpc[w] = "exited"

(* The messages that left the queue, but not with a worker.                 *)
Lost(n) == {entered[k] : k \in 1..Left(n)} \ (InHand \cup done)

Counted(n) ==
    /\ q.overrun_counter = Cardinality(Lost(n))
    /\ conf.policy = "block" => q.overrun_counter = 0

MInv ==
    /\ Typed /\ Posting /\ Hands
    /\ \E n \in 0..Len(Queue) : Ordered(n) /\ Counted(n) /\ Ending(n)

(* The configuration *)
LEMMA Configured ==
    ASSUME conf \in Configurations
    PROVE  /\ conf.queue_size \in Nat \ {0}
           /\ conf.loggers \subseteq Loggers /\ conf.workers \subseteq Workers /\ conf.workers # {}
           /\ conf.kinds \subseteq {"log", "flush"}
           /\ conf.calls \in 0..MaxCalls /\ MaxCalls \in Nat
           /\ conf.days \subseteq CalendarDays /\ conf.days # {}
           /\ conf.existing \subseteq Months
           /\ IsFiniteSet(conf.workers) /\ Cardinality(conf.workers) \in Nat
           /\ IsFiniteSet(Workers) /\ Main \notin Loggers
<1>1. /\ conf.queue_size \in Nat \ {0}
      /\ conf.loggers \subseteq Loggers /\ conf.workers \subseteq Workers /\ conf.workers # {}
      /\ conf.kinds \subseteq {"log", "flush"}
      /\ conf.calls \in 0..MaxCalls /\ MaxCalls \in Nat
      /\ conf.days \subseteq CalendarDays /\ conf.days # {}
      /\ conf.existing \subseteq Months
      /\ IsFiniteSet(Workers) /\ Main \notin Loggers
  BY AsyncLoggerAssumption DEF CalendarDays
<1> QED
  BY <1>1, FS_Subset, FS_CardinalityType

(* The three sorts of messages are told apart by their kind.                *)
LEMMA Kinds ==
    /\ \A m \in Messages : /\ m.kind \in {"log", "flush"} /\ m.id \in 1..MaxCalls /\ m.time \in CalendarDays
                           /\ m # Terminate /\ m # None
    /\ Terminate.kind = "terminate" /\ Terminate.id = 0 /\ Terminate.time = 0
    /\ None.kind = "none" /\ None.id = 0 /\ None.time = 0
    /\ Terminate # None
BY DEF Messages, Terminate, None, Msg

(* Sequences, by their elements *)
LEMMA Appended ==
    ASSUME NEW S, NEW s \in Seq(S), NEW e \in S
    PROVE  /\ Append(s, e) \in Seq(S) /\ Len(Append(s, e)) = Len(s) + 1 /\ Len(s) \in Nat
           /\ \A k \in 1..Len(s) : Append(s, e)[k] = s[k]
           /\ Append(s, e)[Len(s) + 1] = e
BY AppendProperties, LenProperties

(* What is left of a sequence without its first element.                    *)
LEMMA Shifted ==
    ASSUME NEW S, NEW s \in Seq(S), s # <<>>
    PROVE  /\ Tail(s) \in Seq(S) /\ Len(Tail(s)) = Len(s) - 1 /\ Len(s) \in Nat \ {0}
           /\ s[1] \in S
           /\ \A k \in 1..(Len(s) - 1) : Tail(s)[k] = s[k + 1]
<1>1. Len(s) \in Nat \ {0} /\ s[1] \in S
  BY EmptySeq, LenProperties, ElementOfSeq
<1>2. /\ Tail(s) \in Seq(S) /\ Len(Tail(s)) = Len(s) - 1
      /\ \A k \in 1..Len(Tail(s)) : Tail(s)[k] = s[k + 1]
  BY HeadTailProperties
<1> QED
  BY <1>1, <1>2

(* A sequence that lost its first element and got another one at its end:   *)
(* an overrun.                                                              *)
LEMMA ShiftedAndAppended ==
    ASSUME NEW S, NEW s \in Seq(S), s # <<>>, NEW e \in S
    PROVE  /\ Append(Tail(s), e) \in Seq(S) /\ Len(Append(Tail(s), e)) = Len(s)
           /\ \A k \in 1..(Len(s) - 1) : Append(Tail(s), e)[k] = s[k + 1]
           /\ Append(Tail(s), e)[Len(s)] = e
<1> DEFINE t == Tail(s)
<1>1. t \in Seq(S) /\ Len(t) = Len(s) - 1 /\ Len(s) \in Nat \ {0} /\ \A k \in 1..(Len(s) - 1) : t[k] = s[k + 1]
  BY Shifted
<1> HIDE DEF t
<1>2. /\ Append(t, e) \in Seq(S) /\ Len(Append(t, e)) = Len(t) + 1
      /\ \A k \in 1..Len(t) : Append(t, e)[k] = t[k]
      /\ Append(t, e)[Len(t) + 1] = e
  BY <1>1, Appended
<1>3. Len(t) + 1 = Len(s)
  BY <1>1
<1> QED
  BY <1>1, <1>2, <1>3 DEF t

Capacity == conf.queue_size + 1

Slots == Posted \cup {Moved}

(* What a step does to the queue. *)
LEMMA QueueAfterEnqueue ==
    ASSUME Typed, NEW p \in Posters, posting[p] \in Posted, Enqueue(p)
    PROVE  /\ q' \in Circular(Capacity, Slots)
           /\ ~full(q) => Queue' = Append(Queue, posting[p]) /\ q'.overrun_counter = q.overrun_counter
           /\ full(q) => /\ Queue # <<>> /\ Queue' = Append(Tail(Queue), posting[p])
                         /\ q'.overrun_counter = q.overrun_counter + 1
<1>1. Capacity \in Nat \ {0, 1} /\ Capacity \in Nat \ {0}
  BY Configured, SMT DEF Typed, Capacity
<1>2. q \in Circular(Capacity, Slots) /\ posting[p] \in Slots
  BY DEF Typed, Capacity, Slots
<1>3. q' = push_back(q, posting[p])
  BY DEF Enqueue
<1>4. q' \in Circular(Capacity, Slots)
  BY <1>1, <1>2, <1>3, Pushed
<1>5. ASSUME ~full(q)
      PROVE  Queue' = Append(Queue, posting[p]) /\ q'.overrun_counter = q.overrun_counter
  <2>1. /\ Items(push_back(q, posting[p])) = Append(Items(q), posting[p])
        /\ push_back(q, posting[p]).overrun_counter = q.overrun_counter
    BY <1>1, <1>2, <1>5, PushAppends
  <2> QED
    BY <1>3, <2>1, Zenon DEF Queue
<1>6. ASSUME full(q)
      PROVE  /\ Queue # <<>> /\ Queue' = Append(Tail(Queue), posting[p])
             /\ q'.overrun_counter = q.overrun_counter + 1
  <2>1. /\ Len(Items(q)) = Capacity - 1
        /\ Items(push_back(q, posting[p])) = Append(Tail(Items(q)), posting[p])
        /\ push_back(q, posting[p]).overrun_counter = q.overrun_counter + 1
    BY <1>1, <1>2, <1>6, PushOverruns
  <2>2. Items(q) # <<>>
    <3>1. Items(q) \in Seq(Slots)
      BY <1>1, <1>2, ItemsTyped
    <3> QED
      BY <1>1, <2>1, <3>1, EmptySeq
  <2> QED
    BY <1>3, <2>1, <2>2, Zenon DEF Queue
<1> QED
  BY <1>4, <1>5, <1>6

(* What a step does to the queue when a worker takes the oldest message.    *)
LEMMA QueueAfterDequeue ==
    ASSUME Typed, NEW w \in Workers, Dequeue(w)
    PROVE  /\ q' \in Circular(Capacity, Slots) /\ q'.overrun_counter = q.overrun_counter
           /\ Queue # <<>> /\ Queue' = Tail(Queue)
           /\ incoming' = [incoming EXCEPT ![w] = Queue[1]]
<1>1. Capacity \in Nat \ {0}
  BY Configured, SMT DEF Typed, Capacity
<1>2. q \in Circular(Capacity, Slots) /\ Moved \in Slots
  BY DEF Typed, Capacity, Slots
<1>3. q' = pop_front(q) /\ ~empty(q) /\ incoming' = [incoming EXCEPT ![w] = front(q)]
  BY DEF Dequeue
<1>4. q' \in Circular(Capacity, Slots)
  BY <1>1, <1>2, <1>3, Popped
<1>5. /\ Items(q) # <<>> /\ Items(pop_front(q)) = Tail(Items(q))
      /\ pop_front(q).overrun_counter = q.overrun_counter
  BY <1>1, <1>2, <1>3, PopTakesFirst
<1>6. front(q) = Queue[1]
  <2>1. Items(q) \in Seq(Slots) /\ Len(Items(q)) = size(q) /\ size(q) \in Nat
    BY <1>1, <1>2, ItemsTyped
  <2>2. 1 \in 1..size(q)
    <3> HIDE DEF size
    <3>1. Len(Items(q)) # 0
      BY <1>5, <2>1, EmptySeq
    <3> QED
      BY <2>1, <3>1
  <2>3. Items(q)[1] = q.v[At(Capacity, q.head, 1)]
    <3>1. \A i \in 1..size(q) : Items(q)[i] = q.v[At(Capacity, q.head, i)]
      BY <1>1, <1>2, ItemsTyped, Zenon
    <3> QED
      BY <2>2, <3>1, Zenon
  <2>4. q.head \in 0..(Capacity - 1)
    BY <1>2 DEF Circular
  <2>5. At(Capacity, q.head, 1) = q.head
    BY <1>1, <2>4, SMT DEF At
  <2> QED
    BY <2>3, <2>5 DEF front, Queue
<1> QED
  BY <1>3, <1>4, <1>5, <1>6, Zenon DEF Queue

-----------------------------------------------------------------------------
(* Types *)

(* A new queue is empty.                                                    *)
LEMMA EmptyQueue ==
    ASSUME NEW m \in Nat
    PROVE  /\ circular_q(m) \in Circular(m + 1, Slots)
           /\ Items(circular_q(m)) = <<>> /\ circular_q(m).overrun_counter = 0
<1>1. /\ circular_q(m) \in Circular(m + 1, {Moved})
      /\ Items(circular_q(m)) = <<>> /\ circular_q(m).overrun_counter = 0
  BY NewQueue
<1>2. {Moved} \subseteq Slots
  BY DEF Slots
<1> QED
  BY <1>1, <1>2, Widened

(* The queue, the threads and the workers a new pool starts with are in     *)
(* their types.                                                             *)
LEMMA FreshTyped ==
    ASSUME conf \in Configurations
    PROVE  /\ circular_q(conf.queue_size) \in Circular(conf.queue_size + 1, Posted \cup {Moved})
           /\ Items(circular_q(conf.queue_size)) = <<>> /\ <<>> \in Seq(Posted)
           /\ circular_q(conf.queue_size).overrun_counter = 0
           /\ [p \in Posters |-> IF p = Main THEN "start" ELSE "idle"] \in [Posters -> Places]
           /\ [p \in Posters |-> IF p = Main THEN Msg("terminate", 0, 0) ELSE None]
                 \in [Posters -> Posted \cup {None}]
           /\ [w \in Workers |-> None] \in [Workers -> Posted \cup {None}]
           /\ <<>> \in Seq(1..MaxCalls) /\ {} \subseteq 1..MaxCalls
<1>1. conf.queue_size \in Nat
  BY Configured
<1>2. /\ circular_q(conf.queue_size) \in Circular(conf.queue_size + 1, Slots)
      /\ Items(circular_q(conf.queue_size)) = <<>> /\ circular_q(conf.queue_size).overrun_counter = 0
  BY <1>1, EmptyQueue
<1>3. <<>> \in Seq(Posted) /\ <<>> \in Seq(1..MaxCalls)
  OBVIOUS
<1>4. [p \in Posters |-> IF p = Main THEN Msg("terminate", 0, 0) ELSE None]
         \in [Posters -> Posted \cup {None}]
  BY DEF Posted, Terminate
<1> QED
  BY <1>2, <1>3, <1>4 DEF Slots, Places

(* The clock starts on a day of the configuration.                          *)
LEMMA FirstDay ==
    ASSUME conf \in Configurations
    PROVE  Min(conf.days) \in conf.days
<1>1. conf.days \in SUBSET Nat /\ conf.days # {}
  BY Configured DEF CalendarDays
<1>2. \E m \in conf.days : \A n \in conf.days : m <= n
  BY <1>1, LeastNumber
<1> QED
  BY <1>2 DEF Min

(* The clock goes on to a later day of the configuration.                   *)
LEMMA NextDay ==
    ASSUME conf \in Configurations, clock \in conf.days, Advance
    PROVE  clock' \in conf.days /\ clock' > clock
<1>1. conf.days \in SUBSET Nat
  BY Configured DEF CalendarDays
<1> DEFINE S == {t \in conf.days : t > clock}
<1>2. S # {}
  <2> SUFFICES ASSUME \A t \in conf.days : ~(t > clock) PROVE FALSE
    OBVIOUS
  <2>1. \A t \in conf.days : clock >= t
    BY <1>1
  <2>2. Max(conf.days) \in conf.days
    BY <2>1 DEF Max
  <2> QED
    BY <1>1, <2>1, <2>2 DEF Advance
<1>3. S \in SUBSET Nat /\ clock' = Min(S)
  BY <1>1 DEF Advance
<1> HIDE DEF S
<1>4. \E m \in S : \A n \in S : m <= n
  BY <1>2, <1>3, LeastNumber
<1>5. clock' \in S
  BY <1>3, <1>4 DEF Min
<1> QED
  BY <1>5 DEF S

(* A step that leaves the queue and what left it alone. *)
LEMMA TypedQuiet ==
    ASSUME Typed, UNCHANGED <<conf, q, entered, done>>,
           clock' \in conf.days,
           pc' \in [Posters -> Places], wpc' \in [Workers -> WorkerPlaces],
           posting' \in [Posters -> Posted \cup {None}],
           incoming' \in [Workers -> Posted \cup {None}],
           calls' \in 0..conf.calls, toStop' \in 0..Cardinality(conf.workers)
    PROVE  Typed'
<1>1. Queue' = Queue
  BY Zenon DEF Queue
<1> QED
  BY <1>1 DEF Typed

(* A step that moves one of the posting threads.                            *)
LEMMA Goes ==
    ASSUME Typed, NEW p \in Posters, NEW to \in Places, pc' = [pc EXCEPT ![p] = to]
    PROVE  /\ pc' \in [Posters -> Places] /\ pc'[p] = to
           /\ \A r \in Posters : r # p => pc'[r] = pc[r]
BY DEF Typed

(* A step that moves one of the workers.                                    *)
LEMMA WorkerGoes ==
    ASSUME Typed, NEW w \in Workers, NEW to \in WorkerPlaces, wpc' = [wpc EXCEPT ![w] = to]
    PROVE  /\ wpc' \in [Workers -> WorkerPlaces] /\ wpc'[w] = to
           /\ \A v \in Workers : v # w => wpc'[v] = wpc[v]
BY DEF Typed

(* A worker wakes, or none sleeps. *)
LEMMA Woken ==
    ASSUME Typed, WakeWorker
    PROVE  /\ wpc' \in [Workers -> WorkerPlaces]
           /\ \A v \in Workers : wpc'[v] = wpc[v] \/ (wpc[v] = "sleeping" /\ wpc'[v] = "dequeue")
<1>1. CASE UNCHANGED wpc
  BY <1>1 DEF Typed
<1>2. ASSUME NEW w \in Sleepers, wpc' = [wpc EXCEPT ![w] = "dequeue"]
      PROVE  /\ wpc' \in [Workers -> WorkerPlaces]
             /\ \A v \in Workers : wpc'[v] = wpc[v] \/ (wpc[v] = "sleeping" /\ wpc'[v] = "dequeue")
  BY <1>2 DEF Sleepers, Typed, WorkerPlaces
<1> QED
  BY <1>1, <1>2 DEF WakeWorker

(* A thread that waited for room is woken, or none waits.                   *)
LEMMA RoomTold ==
    ASSUME Typed, WakePoster
    PROVE  /\ pc' \in [Posters -> Places]
           /\ \A r \in Posters : pc'[r] = pc[r] \/ (pc[r] = "waiting" /\ pc'[r] = "enqueue")
<1>1. CASE UNCHANGED pc
  BY <1>1 DEF Typed
<1>2. ASSUME NEW p \in WaitingForRoom, pc' = [pc EXCEPT ![p] = "enqueue"]
      PROVE  /\ pc' \in [Posters -> Places]
             /\ \A r \in Posters : pc'[r] = pc[r] \/ (pc[r] = "waiting" /\ pc'[r] = "enqueue")
  BY <1>2 DEF WaitingForRoom, Typed, Places
<1> QED
  BY <1>1, <1>2 DEF WakePoster

-----------------------------------------------------------------------------
(* What a step leaves alone *)

LoggerPlaces == {"idle", "stamped", "enqueue", "waiting", "notify", "crashed"}

(* Posting only depends on the threads that carry a message: none takes one *)
(* up here.                                                                 *)
LEMMA PostingQuiet ==
    ASSUME Typed, Posting, UNCHANGED <<conf, entered, calls>>,
           posting'[Main] = posting[Main],
           \A l \in Loggers : /\ pc'[l] \in LoggerPlaces
                              /\ Carrying(l)' => Carrying(l) /\ posting'[l] = posting[l]
    PROVE  Posting'
BY DEF Posting, LoggerPlaces

(* Hands, when the workers keep what they hold.                             *)
LEMMA HandsQuiet ==
    ASSUME Typed, Hands, UNCHANGED <<conf, incoming, done>>,
           \A w \in Workers : \/ wpc'[w] = wpc[w]
                              \/ wpc[w] \in {"dequeue", "sleeping"} /\ wpc'[w] \in {"dequeue", "sleeping"}
                              \/ wpc[w] = "notify" /\ wpc'[w] = "process"
    PROVE  Hands'
BY DEF Hands

(* Ordered and Counted, when nothing enters or leaves the queue.            *)
LEMMA OrderQuiet ==
    ASSUME UNCHANGED <<conf, q, entered, done, incoming>>, NEW n, Ordered(n), Counted(n)
    PROVE  n \in (0..Len(Queue))' /\ Ordered(n)' /\ Counted(n)'
<1>1. Queue' = Queue
  BY Zenon DEF Queue
<1>2. Left(n)' = Left(n)
  BY <1>1 DEF Left
<1>3. n \in 0..Len(Queue)
  BY DEF Ordered
<1>4. Ordered(n)'
  BY <1>1, <1>2 DEF Ordered
<1>5. InHand' = InHand
  BY DEF InHand
<1>6. Lost(n)' = Lost(n)
  BY <1>2, <1>5 DEF Lost
<1> QED
  BY <1>1, <1>3, <1>4, <1>6 DEF Counted

(* The workers that leave can be counted.                                   *)
LEMMA Leavers ==
    ASSUME Typed
    PROVE  IsFiniteSet(Leaving) /\ Cardinality(Leaving) \in Nat /\ toStop \in Nat
<1>1. Leaving \subseteq Workers /\ IsFiniteSet(Workers)
  BY Configured DEF Leaving, Typed
<1>2. Cardinality(conf.workers) \in Nat
  BY Configured DEF Typed
<1> QED
  BY <1>1, <1>2, FS_Subset, FS_CardinalityType DEF Typed

(* Main stays where it is, or comes from a wait. *)
LEMMA EndingQuiet ==
    ASSUME Typed, NEW n, Ending(n), UNCHANGED <<conf, q, entered, incoming, toStop>>,
           \A w \in Workers : wpc'[w] = "exited" <=> wpc[w] = "exited",
           pc'[Main] = pc[Main] \/ (pc[Main] \in {"enqueue", "waiting"} /\ pc'[Main] \in {"enqueue", "waiting"}),
           Holders' # {} => Holders # {} \/ pc[Main] = "up"
    PROVE  Ending(n)'
<1>1. Queue' = Queue
  BY Zenon DEF Queue
<1>2. Leaving' = Leaving
  BY DEF Leaving
<1>3. AboutToPost' = AboutToPost
  BY DEF AboutToPost
<1>4. conf.workers \subseteq Workers
  BY Configured DEF Typed
<1>5. pc'[Main] # pc[Main] => pc[Main] \in {"enqueue", "waiting"} /\ pc'[Main] \in {"enqueue", "waiting"}
  OBVIOUS
<1> HIDE DEF Queue
<1>6. pc'[Main] \in Places \ {"idle", "stamped"}
  BY <1>5 DEF Ending, Places
<1>7. pc'[Main] \in {"start", "opened"} => entered' = <<>>
  BY <1>5 DEF Ending
<1>8. pc'[Main] \in {"start", "opened", "up"} => toStop' = Cardinality(conf.workers)'
  BY <1>5 DEF Ending
<1>9. Holders' # {} => pc'[Main] \in {"up", "destroy"} /\ toStop' = Cardinality(conf.workers)'
  <2> SUFFICES ASSUME Holders' # {}
               PROVE  pc'[Main] \in {"up", "destroy"} /\ toStop' = Cardinality(conf.workers)'
    OBVIOUS
  <2>1. Holders # {} \/ pc[Main] = "up"
    OBVIOUS
  <2> HIDE DEF Holders
  <2>2. pc[Main] \in {"up", "destroy"} /\ toStop = Cardinality(conf.workers)
    BY <2>1 DEF Ending
  <2> QED
    BY <1>5, <2>2
<1>10. pc'[Main] # "crashed" =>
          (toStop + AboutToPost + n + Cardinality(Leaving))' = Cardinality(conf.workers)'
  BY <1>2, <1>3, <1>5 DEF Ending
<1>11. Leaving' # {} => n = Len(Queue)'
  BY <1>1, <1>2 DEF Ending
<1>12. /\ pc'[Main] \in {"join", "gone"} => toStop' = 0
       /\ pc'[Main] = "gone" => \A w \in conf.workers' : wpc'[w] = "exited"
  BY <1>4, <1>5 DEF Ending
<1> QED
  BY <1>6, <1>7, <1>8, <1>9, <1>10, <1>11, <1>12 DEF Ending

(* A step of Main alone. *)
LEMMA MainMoves ==
    ASSUME MInv, NEW to \in Places, pc' = [pc EXCEPT ![Main] = to],
           UNCHANGED <<conf, q, entered, calls, posting, workVars>>,
           clock' \in conf.days, toStop' \in 0..Cardinality(conf.workers),
           \A n \in 0..Len(Queue) : Ending(n) => Ending(n)'
    PROVE  MInv'
<1> USE DEF workVars
<1>0. Typed /\ Posting /\ Hands /\ Main \in Posters /\ Main \notin Loggers /\ Loggers \subseteq Posters
  BY Configured DEF MInv, Posters, Typed
<1>1. PICK n \in 0..Len(Queue) : Ordered(n) /\ Counted(n) /\ Ending(n)
  BY DEF MInv
<1>2. \A l \in Loggers : pc'[l] = pc[l]
  BY <1>0, Goes
<1>3. Typed'
  <2>1. pc' \in [Posters -> Places]
    BY <1>0, Goes
  <2>2. /\ posting \in [Posters -> Posted \cup {None}] /\ wpc \in [Workers -> WorkerPlaces]
        /\ incoming \in [Workers -> Posted \cup {None}] /\ calls \in 0..conf.calls
    BY <1>0 DEF Typed
  <2> QED
    BY <1>0, <2>1, <2>2, TypedQuiet
<1>4. Posting'
  <2>1. \A l \in Loggers : /\ pc'[l] \in LoggerPlaces
                           /\ Carrying(l)' => Carrying(l) /\ posting'[l] = posting[l]
    BY <1>0, <1>2 DEF Posting, Carrying, LoggerPlaces
  <2> QED
    BY <1>0, <2>1, PostingQuiet
<1>5. Hands'
  BY <1>0, HandsQuiet
<1>6. n \in (0..Len(Queue))' /\ Ordered(n)' /\ Counted(n)'
  BY <1>1, OrderQuiet
<1> QED
  BY <1>1, <1>3, <1>4, <1>5, <1>6 DEF MInv

(* Main's moves change neither who leaves nor who holds the pool. *)
LEMMA EndingMoves ==
    ASSUME Typed, NEW n, Ending(n), NEW to \in Places \ {"idle", "stamped"}, pc' = [pc EXCEPT ![Main] = to],
           UNCHANGED <<conf, q, entered, workVars>>
    PROVE  /\ Leaving' = Leaving /\ Holders' = Holders /\ pc'[Main] = to /\ Queue' = Queue
           /\ Cardinality(Leaving) \in Nat /\ toStop \in Nat
<1> USE DEF workVars
<1>1. Main \in Posters /\ Main \notin Loggers /\ Loggers \subseteq Posters
  BY Configured DEF Typed, Posters
<1>2. pc'[Main] = to /\ \A l \in Loggers : pc'[l] = pc[l]
  BY <1>1, Goes
<1> QED
  BY <1>2, Leavers DEF Leaving, Holders, Queue

(* The step of the constructor before the pool exists.                      *)
LEMMA OpenFirstStep == MInv /\ OpenFirst => MInv'
<1> SUFFICES ASSUME MInv, OpenFirst PROVE MInv'
  OBVIOUS
<1>1. /\ pc[Main] = "start" /\ pc' = [pc EXCEPT ![Main] = "opened"]
      /\ UNCHANGED <<conf, clock, q, entered, calls, posting, workVars, toStop>>
  BY DEF OpenFirst
<1>2. Typed
  BY DEF MInv
<1>3. ASSUME NEW n \in 0..Len(Queue), Ending(n) PROVE Ending(n)'
  <2>1. /\ Leaving' = Leaving /\ Holders' = Holders /\ pc'[Main] = "opened" /\ Queue' = Queue
    BY <1>1, <1>2, <1>3, EndingMoves DEF Places
  <2> QED
    BY <1>1, <1>3, <2>1 DEF Ending, AboutToPost, Places
<1> QED
  BY <1>1, <1>2, <1>3, MainMoves DEF Typed, Places

(* The pool is made: its workers start on an empty queue.                   *)
LEMMA ConstructSinkStep == MInv /\ ConstructSink => MInv'
<1> SUFFICES ASSUME MInv, ConstructSink PROVE MInv'
  OBVIOUS
<1>1. /\ pc[Main] = "opened" /\ pc' = [pc EXCEPT ![Main] = "up"]
      /\ UNCHANGED <<conf, clock, q, entered, calls, posting, workVars, toStop>>
  BY DEF ConstructSink
<1>2. Typed
  BY DEF MInv
<1>3. ASSUME NEW n \in 0..Len(Queue), Ending(n) PROVE Ending(n)'
  <2>1. Leaving' = Leaving /\ Holders' = Holders /\ pc'[Main] = "up" /\ Queue' = Queue
    BY <1>1, <1>2, <1>3, EndingMoves DEF Places
  <2> QED
    BY <1>1, <1>3, <2>1 DEF Ending, AboutToPost, Places
<1> QED
  BY <1>1, <1>2, <1>3, MainMoves DEF Typed, Places

(* The logger is dropped, and the pool's destructor begins.                 *)
LEMMA ShutdownStep == MInv /\ Shutdown => MInv'
<1> SUFFICES ASSUME MInv, Shutdown PROVE MInv'
  OBVIOUS
<1>1. /\ pc[Main] = "up" /\ pc' = [pc EXCEPT ![Main] = "destroy"]
      /\ UNCHANGED <<conf, clock, q, entered, calls, posting, workVars, toStop>>
  BY DEF Shutdown
<1>2. Typed
  BY DEF MInv
<1>3. ASSUME NEW n \in 0..Len(Queue), Ending(n) PROVE Ending(n)'
  <2>1. Leaving' = Leaving /\ Holders' = Holders /\ pc'[Main] = "destroy" /\ Queue' = Queue
    BY <1>1, <1>2, <1>3, EndingMoves DEF Places
  <2> QED
    BY <1>1, <1>3, <2>1 DEF Ending, AboutToPost, Places
<1> QED
  BY <1>1, <1>2, <1>3, MainMoves DEF Typed, Places

(* The destructor posts the next terminate message, or starts to join.      *)
LEMMA TerminateNextStep == MInv /\ TerminateNext => MInv'
<1> SUFFICES ASSUME MInv, TerminateNext PROVE MInv'
  OBVIOUS
<1> DEFINE to == IF toStop > 0 THEN "enqueue" ELSE "join"
<1>1. /\ pc[Main] = "destroy" /\ Holders = {} /\ pc' = [pc EXCEPT ![Main] = to]
      /\ toStop' = IF toStop > 0 THEN toStop - 1 ELSE 0
      /\ UNCHANGED <<conf, clock, q, entered, calls, posting, workVars>>
  BY DEF TerminateNext
<1>2. Typed /\ toStop \in 0..Cardinality(conf.workers) /\ Cardinality(conf.workers) \in Nat
  BY Configured DEF MInv, Typed
<1>3. ASSUME NEW n \in 0..Len(Queue), Ending(n) PROVE Ending(n)'
  <2>1. /\ Leaving' = Leaving /\ Holders' = Holders /\ pc'[Main] = to /\ Queue' = Queue
        /\ Cardinality(Leaving) \in Nat /\ toStop \in Nat
    BY <1>1, <1>2, <1>3, EndingMoves DEF Places
  <2>2. (toStop + AboutToPost + n + Cardinality(Leaving))' = Cardinality(conf.workers)'
    BY <1>1, <1>2, <1>3, <2>1, SMT DEF Ending, AboutToPost
  <2> QED
    BY <1>1, <1>3, <2>1, <2>2 DEF Ending, Places
<1>4. toStop' \in 0..Cardinality(conf.workers) /\ to \in Places
  BY <1>1, <1>2 DEF Places
<1> HIDE DEF to
<1> QED
  BY <1>1, <1>2, <1>3, <1>4, MainMoves DEF Typed

(* The workers have all returned.                                           *)
LEMMA JoinStep == MInv /\ Join => MInv'
<1> SUFFICES ASSUME MInv, Join PROVE MInv'
  OBVIOUS
<1>1. /\ pc[Main] = "join" /\ pc' = [pc EXCEPT ![Main] = "gone"]
      /\ \A w \in Running : wpc[w] = "exited"
      /\ UNCHANGED <<conf, clock, q, entered, calls, posting, workVars, toStop>>
  BY DEF Join
<1>2. Typed /\ Hands
  BY DEF MInv
<1>3. ASSUME NEW n \in 0..Len(Queue), Ending(n) PROVE Ending(n)'
  <2>1. Leaving' = Leaving /\ Holders' = Holders /\ pc'[Main] = "gone" /\ Queue' = Queue
    BY <1>1, <1>2, <1>3, EndingMoves DEF Places
  <2>2. \A w \in conf.workers : wpc[w] = "exited"
    BY <1>1, <1>2, Configured DEF Running, Hands, Typed
  <2> QED
    BY <1>1, <1>3, <2>1, <2>2 DEF Ending, AboutToPost, Places, workVars
<1> QED
  BY <1>1, <1>2, <1>3, MainMoves DEF Typed, Places

-----------------------------------------------------------------------------
(* The steps of the clock and of the threads that log *)

(* The clock goes on to another day.                                        *)
LEMMA AdvanceStep == MInv /\ Advance => MInv'
<1> SUFFICES ASSUME MInv, Advance PROVE MInv'
  OBVIOUS
<1>0. Typed /\ Posting /\ Hands
  BY DEF MInv
<1>1. UNCHANGED <<conf, q, pc, posting, entered, wpc, incoming, done, calls, toStop>>
  BY DEF Advance, poolVars, workVars
<1>2. clock' \in conf.days
  BY <1>0, NextDay DEF Typed
<1>3. Typed'
  BY <1>0, <1>1, <1>2, TypedQuiet DEF Typed
<1>4. Posting'
  BY <1>0, <1>1, PostingQuiet DEF Posting, Carrying, LoggerPlaces
<1>5. Hands'
  BY <1>0, <1>1, HandsQuiet
<1>6. PICK n \in 0..Len(Queue) : Ordered(n) /\ Counted(n) /\ Ending(n)
  BY DEF MInv
<1>7. n \in (0..Len(Queue))' /\ Ordered(n)' /\ Counted(n)'
  BY <1>1, <1>6, OrderQuiet
<1>8. Ending(n)'
  BY <1>0, <1>1, <1>6, EndingQuiet DEF Holders
<1> QED
  BY <1>3, <1>4, <1>5, <1>7, <1>8 DEF MInv

(* A step of a thread that logs, which leaves the queue alone. *)
LEMMA LoggerMoves ==
    ASSUME MInv, NEW l \in Loggers, NEW to \in LoggerPlaces, pc' = [pc EXCEPT ![l] = to],
           UNCHANGED <<conf, clock, q, entered, incoming, done, toStop>>,
           Typed', Posting', Hands',
           \A w \in Workers : wpc'[w] = "exited" <=> wpc[w] = "exited",
           to \in {"enqueue", "waiting", "notify"} =>
              pc[l] \in {"enqueue", "waiting", "notify"} \/ Holders # {} \/ pc[Main] = "up"
    PROVE  MInv'
<1>0. Typed /\ Main # l /\ l \in Posters /\ Main \in Posters
  BY Configured DEF MInv, Typed, Posters
<1>1. PICK n \in 0..Len(Queue) : Ordered(n) /\ Counted(n) /\ Ending(n)
  BY DEF MInv
<1>2. n \in (0..Len(Queue))' /\ Ordered(n)' /\ Counted(n)'
  BY <1>1, OrderQuiet
<1>3. pc'[l] = to /\ \A r \in Posters : r # l => pc'[r] = pc[r]
  BY <1>0, Goes DEF LoggerPlaces, Places
<1>4. Holders' # {} => Holders # {} \/ pc[Main] = "up"
  <2>1. \A k \in Loggers : k \in Posters
    BY DEF Posters
  <2> QED
    BY <1>3, <2>1 DEF Holders
<1>5. Ending(n)'
  BY <1>0, <1>1, <1>3, <1>4, EndingQuiet
<1> QED
  BY <1>2, <1>5 DEF MInv

(* A thread logs: the message it will post is a new one.                    *)
LEMMA StampStep ==
    ASSUME MInv, NEW l \in Loggers, Log(l)
    PROVE  MInv'
<1>0. Typed /\ Posting /\ Hands /\ l \in Posters /\ Main \in Posters /\ l # Main /\ \A k \in Loggers : k \in Posters
  BY Configured DEF MInv, Posters, Typed
<1>1. PICK kind \in conf.kinds : Stamp(l, kind)
  BY DEF Log
<1>2. l \in conf.loggers
  BY DEF Log
<1> DEFINE m == Msg(kind, calls', clock)
<1>3. /\ pc[l] = "idle" /\ calls < conf.calls /\ calls' = calls + 1
      /\ posting' = [posting EXCEPT ![l] = m] /\ pc' = [pc EXCEPT ![l] = "stamped"]
      /\ UNCHANGED <<conf, clock, q, entered, wpc, incoming, done, toStop>>
  BY <1>1 DEF Stamp, workVars
<1>4. calls \in 0..conf.calls /\ conf.calls \in 0..MaxCalls /\ MaxCalls \in Nat
  BY <1>0, Configured DEF Typed
<1>5. calls' \in 1..conf.calls /\ calls' \in 1..MaxCalls /\ calls < calls' /\ calls' \in 0..conf.calls
  BY <1>3, <1>4, SMT
<1>6. m \in Messages /\ m.id = calls'
  BY <1>0, <1>1, <1>5, Configured DEF Messages, Msg, Typed
<1> HIDE DEF m
<1>7. /\ pc' \in [Posters -> Places] /\ pc'[l] = "stamped"
      /\ \A r \in Posters : r # l => pc'[r] = pc[r]
  BY <1>0, <1>3, Goes DEF Places
<1>8. /\ posting' \in [Posters -> Posted \cup {None}] /\ posting'[l] = m
      /\ \A r \in Posters : r # l => posting'[r] = posting[r]
  BY <1>0, <1>3, <1>6 DEF Typed, Posted
<1>9. Typed'
  BY <1>0, <1>3, <1>5, <1>7, <1>8, TypedQuiet DEF Typed
<1>10. \A k \in DOMAIN entered : entered[k] \in Nat /\ entered[k] <= calls
  <2>1. \A k \in DOMAIN entered : entered[k] \in 1..MaxCalls
    BY <1>0, ElementOfSeq, LenProperties DEF Typed
  <2> QED
    BY <1>0, <2>1 DEF Posting
<1>11. \A k \in Loggers : Carrying(k) => posting[k].id \in Nat /\ posting[k].id <= calls
  BY <1>0, Kinds DEF Posting
<1>12. \A k \in Loggers : k # l => (Carrying(k)' <=> Carrying(k)) /\ posting'[k] = posting[k]
  BY <1>0, <1>7, <1>8 DEF Carrying
<1>13. Posting'
  <2>1. posting'[Main] = Terminate
    BY <1>0, <1>8 DEF Posting
  <2>2. \A k \in Loggers : pc'[k] \in {"idle", "stamped", "enqueue", "waiting", "notify", "crashed"}
    BY <1>0, <1>7 DEF Posting
  <2>3. ASSUME NEW k \in Loggers, Carrying(k)'
        PROVE  /\ k \in conf.loggers /\ posting'[k] \in Messages /\ posting'[k].id <= calls'
               /\ \A j \in DOMAIN entered : entered[j] # posting'[k].id
    <3>1. CASE k = l
      BY <1>2, <1>4, <1>5, <1>6, <1>8, <1>10, <3>1
    <3>2. CASE k # l
      <4>1. Carrying(k) /\ posting'[k] = posting[k]
        BY <1>12, <2>3, <3>2
      <4> QED
        BY <1>0, <1>4, <1>5, <1>11, <4>1 DEF Posting
    <3> QED
      BY <3>1, <3>2
  <2>4. ASSUME NEW j \in Loggers, NEW k \in Loggers, Carrying(j)', Carrying(k)',
               posting'[j].id = posting'[k].id
        PROVE  j = k
    <3>1. j # l => Carrying(j) /\ posting'[j] = posting[j] /\ posting[j].id \in Nat /\ posting[j].id <= calls
      BY <1>11, <1>12, <2>4
    <3>2. k # l => Carrying(k) /\ posting'[k] = posting[k] /\ posting[k].id \in Nat /\ posting[k].id <= calls
      BY <1>11, <1>12, <2>4
    <3>3. (j = l => posting'[j].id = calls') /\ (k = l => posting'[k].id = calls')
      BY <1>6, <1>8
    <3>4. (j # l /\ k # l) => j = k
      BY <1>0, <2>4, <3>1, <3>2 DEF Posting
    <3> QED
      BY <1>4, <1>5, <2>4, <3>1, <3>2, <3>3, <3>4
  <2>5. \A k \in DOMAIN entered : entered[k] <= calls'
    BY <1>4, <1>5, <1>10
  <2>6. \A i, j \in DOMAIN entered : entered[i] = entered[j] => i = j
    BY <1>0 DEF Posting
  <2> QED
    BY <1>3, <2>1, <2>2, <2>3, <2>4, <2>5, <2>6 DEF Posting
<1>14. Hands'
  BY <1>0, <1>3, HandsQuiet
<1> QED
  BY <1>3, <1>9, <1>13, <1>14, LoggerMoves DEF LoggerPlaces

(* It takes hold of the pool, or finds it gone and drops the message.       *)
LEMMA LockPoolStep ==
    ASSUME MInv, NEW l \in Loggers, LockPool(l)
    PROVE  MInv'
<1>0. Typed /\ Posting /\ Hands /\ l \in Posters /\ l # Main /\ Main \in Posters /\ \A k \in Loggers : k \in Posters
  BY Configured DEF MInv, Posters, Typed
<1> DEFINE to == IF PoolIsAlive THEN "enqueue" ELSE "idle"
<1>1. /\ pc[l] = "stamped" /\ pc' = [pc EXCEPT ![l] = to]
      /\ posting' = [posting EXCEPT ![l] = IF PoolIsAlive THEN @ ELSE None]
      /\ UNCHANGED <<conf, clock, q, entered, wpc, incoming, done, calls, toStop>>
  BY DEF LockPool, workVars
<1>2. to \in LoggerPlaces /\ to \in Places
  BY DEF LoggerPlaces, Places
<1>3. to = "enqueue" => Holders # {} \/ pc[Main] = "up"
  BY DEF PoolIsAlive
<1>4. to = "enqueue" => posting' = posting
  BY <1>0, <1>1 DEF Typed
<1>5. posting' \in [Posters -> Posted \cup {None}] /\ \A r \in Posters : r # l => posting'[r] = posting[r]
  BY <1>0, <1>1 DEF Typed
<1>t. to \in {"enqueue", "idle"}
  OBVIOUS
<1> HIDE DEF to
<1>6. /\ pc' \in [Posters -> Places] /\ pc'[l] = to
      /\ \A r \in Posters : r # l => pc'[r] = pc[r]
  BY <1>0, <1>1, <1>2, Goes
<1>7. Typed'
  BY <1>0, <1>1, <1>5, <1>6, TypedQuiet DEF Typed
<1>8. Posting'
  <2>1. \A k \in Loggers : /\ pc'[k] \in LoggerPlaces
                           /\ Carrying(k)' => Carrying(k) /\ posting'[k] = posting[k]
    BY <1>0, <1>1, <1>2, <1>t, <1>4, <1>5, <1>6 DEF Posting, Carrying, LoggerPlaces
  <2> QED
    BY <1>0, <1>1, <1>5, <2>1, PostingQuiet
<1>9. Hands'
  BY <1>0, <1>1, HandsQuiet
<1> QED
  BY <1>1, <1>2, <1>t, <1>3, <1>7, <1>8, <1>9, LoggerMoves

(* A full queue: the thread waits.                                          *)
LEMMA WaitForRoomStep ==
    ASSUME MInv, NEW p \in Posters, WaitForRoom(p)
    PROVE  MInv'
<1>0. Typed /\ Posting /\ Hands /\ Main \in Posters /\ \A k \in Loggers : k \in Posters
  BY DEF MInv, Posters
<1>1. /\ pc[p] = "enqueue" /\ pc' = [pc EXCEPT ![p] = "waiting"]
      /\ UNCHANGED <<conf, clock, q, posting, entered, wpc, incoming, done, calls, toStop>>
  BY DEF WaitForRoom, workVars
<1>2. /\ pc' \in [Posters -> Places] /\ pc'[p] = "waiting"
      /\ \A r \in Posters : r # p => pc'[r] = pc[r]
  BY <1>0, <1>1, Goes DEF Places
<1>3. Typed'
  BY <1>0, <1>1, <1>2, TypedQuiet DEF Typed
<1>4. Posting'
  <2>1. \A k \in Loggers : /\ pc'[k] \in LoggerPlaces
                           /\ Carrying(k)' => Carrying(k) /\ posting'[k] = posting[k]
    BY <1>0, <1>1, <1>2 DEF Posting, Carrying, LoggerPlaces
  <2> QED
    BY <1>0, <1>1, <2>1, PostingQuiet
<1>5. Hands'
  BY <1>0, <1>1, HandsQuiet
<1>6. PICK n \in 0..Len(Queue) : Ordered(n) /\ Counted(n) /\ Ending(n)
  BY DEF MInv
<1>7. n \in (0..Len(Queue))' /\ Ordered(n)' /\ Counted(n)'
  BY <1>1, <1>6, OrderQuiet
<1>8. Holders' # {} => Holders # {}
  BY <1>0, <1>1, <1>2 DEF Holders
<1>9. Ending(n)'
  BY <1>0, <1>1, <1>2, <1>6, <1>8, EndingQuiet
<1> QED
  BY <1>3, <1>4, <1>5, <1>7, <1>9 DEF MInv

(* It tells a worker, and is done.                                          *)
LEMMA NotifyStep ==
    ASSUME MInv, NEW p \in Posters, Notify(p)
    PROVE  MInv'
<1>0. Typed /\ Posting /\ Hands /\ Main \in Posters /\ Main \notin Loggers /\ \A k \in Loggers : k \in Posters
  BY Configured DEF MInv, Posters, Typed
<1> DEFINE to == IF p = Main THEN "destroy" ELSE "idle"
<1>1. /\ pc[p] = "notify" /\ pc' = [pc EXCEPT ![p] = to] /\ WakeWorker
      /\ posting' = [posting EXCEPT ![p] = IF p = Main THEN @ ELSE None]
      /\ UNCHANGED <<conf, clock, q, entered, incoming, done, calls, toStop>>
  BY DEF Notify
<1>2. /\ pc' \in [Posters -> Places] /\ pc'[p] = to
      /\ \A r \in Posters : r # p => pc'[r] = pc[r]
  BY <1>0, <1>1, Goes DEF Places
<1>3. /\ wpc' \in [Workers -> WorkerPlaces]
      /\ \A v \in Workers : wpc'[v] = wpc[v] \/ (wpc[v] = "sleeping" /\ wpc'[v] = "dequeue")
  BY <1>0, <1>1, Woken
<1>4. /\ posting' \in [Posters -> Posted \cup {None}]
      /\ \A r \in Posters : r # p \/ p = Main => posting'[r] = posting[r]
  BY <1>0, <1>1 DEF Typed
<1>5. Typed'
  BY <1>0, <1>1, <1>2, <1>3, <1>4, TypedQuiet DEF Typed
<1>6. Posting'
  <2>1. \A k \in Loggers : /\ pc'[k] \in LoggerPlaces
                           /\ Carrying(k)' => Carrying(k) /\ posting'[k] = posting[k]
    BY <1>0, <1>1, <1>2, <1>4 DEF Posting, Carrying, LoggerPlaces
  <2>2. posting'[Main] = posting[Main]
    BY <1>0, <1>4
  <2> QED
    BY <1>0, <1>1, <2>1, <2>2, PostingQuiet
<1>7. Hands'
  BY <1>0, <1>1, <1>3, HandsQuiet
<1>8. PICK n \in 0..Len(Queue) : Ordered(n) /\ Counted(n) /\ Ending(n)
  BY DEF MInv
<1>9. n \in (0..Len(Queue))' /\ Ordered(n)' /\ Counted(n)'
  BY <1>1, <1>8, OrderQuiet
<1>10. Ending(n)'
  <2>1. Holders' # {} => Holders # {}
    BY <1>0, <1>1, <1>2 DEF Holders
  <2>2. CASE p # Main
    BY <1>0, <1>1, <1>2, <1>3, <1>8, <2>1, <2>2, EndingQuiet
  <2>3. CASE p = Main
    <3>1. pc[Main] = "notify" /\ pc'[Main] = "destroy"
      BY <1>1, <1>2, <2>3
    <3>2. Leaving' = Leaving
      BY <1>1, <1>3 DEF Leaving
    <3>3. Queue' = Queue
      BY <1>1, Zenon DEF Queue
    <3>4. Holders' = {}
      BY <1>8, <2>1, <3>1 DEF Ending
    <3>5. toStop + n + Cardinality(Leaving) = Cardinality(conf.workers)
      BY <1>0, <1>8, <3>1, Leavers, SMT DEF Ending, AboutToPost
    <3>6. AboutToPost' = 0 /\ (toStop + AboutToPost + n + Cardinality(Leaving))' = Cardinality(conf.workers)'
      BY <1>0, <1>1, <1>8, <3>1, <3>2, <3>5, Leavers, SMT DEF AboutToPost
    <3> QED
      BY <1>1, <1>8, <3>1, <3>2, <3>3, <3>4, <3>6 DEF Ending, Places
  <2> QED
    BY <2>2, <2>3
<1> QED
  BY <1>5, <1>6, <1>7, <1>9, <1>10 DEF MInv

-----------------------------------------------------------------------------
(* The steps of the queue *)

(* What left the queue left it once. *)
LEMMA EachOnce ==
    ASSUME Typed, Posting, NEW n \in 0..Len(Queue), Ordered(n)
    PROVE  /\ Len(Queue) \in Nat /\ Len(entered) \in Nat /\ Left(n) \in Nat
           /\ Left(n) + (Len(Queue) - n) = Len(entered)
           /\ \A k \in 1..Len(Queue) : Queue[k] \in Posted
           /\ \A k \in 1..Len(entered) : entered[k] \in 1..MaxCalls
           /\ \A i, j \in 1..Len(entered) : entered[i] = entered[j] => i = j
           /\ \A w \in Workers : incoming[w] \in Messages => \E i \in 1..Left(n) : entered[i] = incoming[w].id
           /\ \A d \in done : \E i \in 1..Left(n) : entered[i] = d
<1>1. Len(Queue) \in Nat /\ \A k \in 1..Len(Queue) : Queue[k] \in Posted
  <2>1. Queue \in Seq(Posted)
    BY DEF Typed
  <2> HIDE DEF Queue
  <2> QED
    BY <2>1, LenProperties, ElementOfSeq
<1>2. /\ Len(entered) \in Nat /\ DOMAIN entered = 1..Len(entered)
      /\ \A k \in 1..Len(entered) : entered[k] \in 1..MaxCalls
  BY LenProperties, ElementOfSeq DEF Typed
<1>3. Left(n) \in Nat /\ Left(n) + (Len(Queue) - n) = Len(entered)
  BY <1>1, <1>2 DEF Ordered, Left
<1> QED
  BY <1>1, <1>2, <1>3 DEF Ordered, Posting

(* InHand holds the numbers of what the workers took.                       *)
LEMMA InHandTyped ==
    ASSUME Typed
    PROVE  InHand = {incoming[w].id : w \in {v \in Workers : incoming[v] \in Messages}}
<1>1. \A w \in Workers : incoming[w] \in Messages \/ incoming[w].id = 0
  BY Kinds DEF Typed, Posted
<1>2. \A w \in Workers : incoming[w] \in Messages => incoming[w].id \in 1..MaxCalls
  BY Kinds
<1>3. MaxCalls \in Nat
  BY Configured DEF Typed
<1> QED
  <2>1. \A i \in InHand : \E w \in Workers : incoming[w] \in Messages /\ incoming[w].id = i
    <3> SUFFICES ASSUME NEW i \in 1..MaxCalls, NEW w \in Workers, incoming[w].id = i
                 PROVE  incoming[w] \in Messages
      BY DEF InHand
    <3>1. i # 0
      BY <1>3
    <3> QED
      BY <1>1, <3>1
  <2>2. \A w \in Workers : incoming[w] \in Messages => incoming[w].id \in InHand
    BY <1>2 DEF InHand
  <2> QED
    BY <2>1, <2>2
(* Nothing in hand or dealt with is among the messages that wait. *)
LEMMA NotAhead ==
    ASSUME Typed, Posting, NEW n \in 0..Len(Queue), Ordered(n), NEW k \in (Left(n) + 1)..Len(entered)
    PROVE  entered[k] \notin {entered[i] : i \in 1..Left(n)} /\ entered[k] \notin InHand \cup done
<1>1. k \in 1..Len(entered) /\ \A i \in 1..Left(n) : i \in 1..Len(entered) /\ i # k
  BY EachOnce
<1>2. \A i \in 1..Left(n) : entered[i] # entered[k]
  BY <1>1, EachOnce
<1>3. \A d \in done : \E i \in 1..Left(n) : entered[i] = d
  BY EachOnce
<1>4. \A d \in InHand : \E i \in 1..Left(n) : entered[i] = d
  <2>1. \A d \in InHand : \E w \in Workers : incoming[w] \in Messages /\ incoming[w].id = d
    BY InHandTyped
  <2>2. \A w \in Workers : incoming[w] \in Messages => \E i \in 1..Left(n) : entered[i] = incoming[w].id
    BY EachOnce
  <2> QED
    BY <2>1, <2>2
<1> QED
  BY <1>2, <1>3, <1>4

(* The thread that posts holds the pool: no terminate message was posted.   *)
LEMMA NoneTerminates ==
    ASSUME MInv, NEW l \in Loggers, pc[l] \in {"enqueue", "waiting", "notify"}, NEW n \in 0..Len(Queue), Ending(n)
    PROVE  n = 0 /\ Leaving = {} /\ pc[Main] \in {"up", "destroy"} /\ toStop = Cardinality(conf.workers)
<1>1. Holders # {}
  BY DEF Holders
<1>2. pc[Main] \in {"up", "destroy"} /\ toStop = Cardinality(conf.workers)
  BY <1>1 DEF Ending
<1>3. IsFiniteSet(Leaving) /\ Cardinality(Leaving) \in Nat /\ Cardinality(conf.workers) \in Nat
  BY Leavers, Configured DEF MInv, Typed
<1>4. n + Cardinality(Leaving) = 0
  BY <1>2, <1>3, SMT DEF Ending, AboutToPost
<1>5. n = 0 /\ Cardinality(Leaving) = 0
  BY <1>3, <1>4, SMT
<1> QED
  BY <1>2, <1>3, <1>5, FS_EmptySet

(* The message of l enters the history. *)
LEMMA PostingEntered ==
    ASSUME Typed, Posting, NEW l \in Loggers, pc[l] = "enqueue",
           entered' = Append(entered, posting[l].id), pc' = [pc EXCEPT ![l] = "notify"],
           UNCHANGED <<conf, calls, posting>>
    PROVE  /\ Posting' /\ entered' \in Seq(1..MaxCalls) /\ Len(entered') = Len(entered) + 1
           /\ posting[l] \in Messages /\ Len(entered) \in Nat
           /\ \A k \in 1..Len(entered) : entered'[k] = entered[k]
           /\ entered'[Len(entered) + 1] = posting[l].id
<1>0. l \in Posters /\ l # Main /\ \A k \in Loggers : k \in Posters
  BY Configured DEF Posters, Typed
<1>1. Carrying(l) /\ posting[l] \in Messages
  BY DEF Posting, Carrying
<1>2. posting[l].id \in 1..MaxCalls
  BY <1>1, Kinds
<1>3. /\ entered' \in Seq(1..MaxCalls) /\ Len(entered') = Len(entered) + 1 /\ Len(entered) \in Nat
      /\ \A k \in 1..Len(entered) : entered'[k] = entered[k]
      /\ entered'[Len(entered) + 1] = posting[l].id
  BY <1>2, Appended DEF Typed
<1>4. DOMAIN entered' = 1..Len(entered') /\ DOMAIN entered = 1..Len(entered)
  BY <1>3, LenProperties DEF Typed
<1>5. \A k \in DOMAIN entered' : k = Len(entered) + 1 \/ (k \in DOMAIN entered /\ entered'[k] = entered[k])
  BY <1>3, <1>4
<1>6. /\ pc'[l] = "notify" /\ \A r \in Posters : r # l => pc'[r] = pc[r]
  BY <1>0, Goes DEF Places
<1>7. \A k \in Loggers : Carrying(k)' => k # l /\ Carrying(k)
  BY <1>0, <1>6 DEF Carrying
<1>8. \A k \in DOMAIN entered : entered[k] # posting[l].id
  BY <1>1 DEF Posting
<1>9. posting[l].id <= calls /\ \A k \in DOMAIN entered' : entered'[k] <= calls
  BY <1>1, <1>3, <1>5 DEF Posting
<1>10. ASSUME NEW k \in Loggers, Carrying(k)', NEW j \in DOMAIN entered'
       PROVE  entered'[j] # posting[k].id
  <2>1. posting[k].id # posting[l].id
    BY <1>1, <1>7, <1>10 DEF Posting
  <2>2. \A i \in DOMAIN entered : entered[i] # posting[k].id
    BY <1>7, <1>10 DEF Posting
  <2> QED
    BY <1>3, <1>5, <2>1, <2>2
<1>11. ASSUME NEW i \in DOMAIN entered', NEW j \in DOMAIN entered', entered'[i] = entered'[j]
       PROVE  i = j
  <2>1. CASE i = Len(entered) + 1
    BY <1>3, <1>5, <1>8, <1>11, <2>1
  <2>2. CASE j = Len(entered) + 1
    BY <1>3, <1>5, <1>8, <1>11, <2>2
  <2>3. CASE i \in DOMAIN entered /\ j \in DOMAIN entered
    BY <1>5, <1>11, <2>3, <1>3, <1>4 DEF Posting
  <2> QED
    BY <1>5, <2>1, <2>2, <2>3
<1>12. \A k \in Loggers : pc'[k] \in {"idle", "stamped", "enqueue", "waiting", "notify", "crashed"}
  BY <1>0, <1>6 DEF Posting
<1>13. /\ posting'[Main] = Terminate
       /\ \A k \in Loggers : Carrying(k)' =>
             k \in conf'.loggers /\ posting'[k] \in Messages /\ posting'[k].id <= calls'
       /\ \A j, k \in Loggers : Carrying(j)' /\ Carrying(k)' /\ posting'[j].id = posting'[k].id => j = k
  BY <1>7 DEF Posting
<1>14. Posting'
  BY <1>9, <1>10, <1>11, <1>12, <1>13 DEF Posting
<1> QED
  BY <1>1, <1>3, <1>14

(* A message enters a queue with room: what left stays the same. *)
LEMMA OrderedAppend ==
    ASSUME Typed, Posting, Ordered(0), NEW m \in Messages,
           UNCHANGED <<incoming, done>>, Queue' = Append(Queue, m),
           Len(entered') = Len(entered) + 1, entered'[Len(entered) + 1] = m.id,
           \A k \in 1..Len(entered) : entered'[k] = entered[k]
    PROVE  /\ Ordered(0)' /\ Lost(0)' = Lost(0)
           /\ Queue' \in Seq(Posted) /\ Len(Queue)' = Len(Queue) + 1
<1>1. /\ Len(Queue) \in Nat /\ Len(entered) \in Nat /\ Left(0) \in Nat
      /\ Left(0) + Len(Queue) = Len(entered) /\ 0 \in 0..Len(Queue)
  BY EachOnce, SMT DEF Ordered
<1>2. m \in Posted /\ m # Terminate /\ Queue \in Seq(Posted)
  BY Kinds DEF Posted, Typed
<1>3. /\ Queue' \in Seq(Posted) /\ Len(Queue') = Len(Queue) + 1 /\ Queue'[Len(Queue) + 1] = m
      /\ \A k \in 1..Len(Queue) : Queue'[k] = Queue[k]
  <2> HIDE DEF Queue
  <2> QED
    BY <1>2, Appended
<1>4. Left(0)' = Left(0)
  BY <1>1, <1>3, SMT DEF Left
<1>5. \A k \in 1..Left(0) : entered'[k] = entered[k]
  BY <1>1
<1>6. \A k \in 1..Len(Queue') : Queue'[k] # Terminate /\ Queue'[k].id = entered'[Left(0) + k]
  <2> SUFFICES ASSUME NEW k \in 1..Len(Queue')
               PROVE  Queue'[k] # Terminate /\ Queue'[k].id = entered'[Left(0) + k]
    OBVIOUS
  <2>1. CASE k = Len(Queue) + 1
    BY <1>1, <1>2, <1>3, <2>1
  <2>2. CASE k # Len(Queue) + 1
    <3>1. k \in 1..Len(Queue) /\ Left(0) + k \in 1..Len(entered)
      BY <1>1, <1>3, <2>2
    <3>2. Queue[k] # Terminate /\ Queue[k].id = entered[Left(0) + k]
      BY <1>1, <3>1 DEF Ordered
    <3> QED
      BY <1>3, <3>1, <3>2
  <2> QED
    BY <2>1, <2>2
<1>7. Ordered(0)'
  BY <1>1, <1>3, <1>4, <1>5, <1>6 DEF Ordered
<1>8. InHand' = InHand
  BY DEF InHand
<1>9. Lost(0)' = Lost(0)
  BY <1>4, <1>5, <1>8 DEF Lost
<1> QED
  BY <1>3, <1>7, <1>9

(* The places of a queue that lost its oldest element, in the one before.   *)
LEMMA Within ==
    ASSUME NEW left \in Nat, NEW len \in Nat, NEW k \in 1..len, k # len
    PROVE  k \in 1..(len - 1) /\ k + 1 \in 1..len /\ left + (k + 1) \in 1..(left + len)
BY SMT

(* The oldest message is dropped for a new one: one more is lost. *)
LEMMA OrderedOverrun ==
    ASSUME Typed, Posting, Ordered(0), NEW m \in Messages, Queue # <<>>,
           UNCHANGED <<incoming, done>>, Queue' = Append(Tail(Queue), m),
           Len(entered') = Len(entered) + 1, entered'[Len(entered) + 1] = m.id,
           \A k \in 1..Len(entered) : entered'[k] = entered[k]
    PROVE  /\ Ordered(0)' /\ Queue' \in Seq(Posted) /\ Len(Queue)' = Len(Queue)
           /\ Cardinality(Lost(0)') = Cardinality(Lost(0)) + 1
<1>1. /\ Len(Queue) \in Nat /\ Len(entered) \in Nat /\ Left(0) \in Nat
      /\ Left(0) + Len(Queue) = Len(entered) /\ 0 \in 0..Len(Queue)
  <2>1. 0 \in 0..Len(Queue)
    BY DEF Ordered
  <2>2. /\ Len(Queue) \in Nat /\ Len(entered) \in Nat /\ Left(0) \in Nat
        /\ Left(0) + (Len(Queue) - 0) = Len(entered)
    BY <2>1, EachOnce, Zenon
  <2>3. \A a, b \in Nat : a + (b - 0) = a + b
    BY SMT
  <2> QED
    BY <2>1, <2>2, <2>3, Zenon
<1>2. m \in Posted /\ m # Terminate /\ Queue \in Seq(Posted)
  BY Kinds DEF Posted, Typed
<1>3. /\ Queue' \in Seq(Posted) /\ Len(Queue') = Len(Queue) /\ Queue'[Len(Queue)] = m
      /\ \A k \in 1..(Len(Queue) - 1) : Queue'[k] = Queue[k + 1]
      /\ Len(Queue) # 0
  <2> HIDE DEF Queue
  <2> QED
    BY <1>2, ShiftedAndAppended, EmptySeq
<1>4. Left(0)' = Left(0) + 1 /\ Left(0) + 1 \in 1..Len(entered)
  BY <1>1, <1>3, SMT DEF Left
<1>5. \A k \in 1..(Left(0) + 1) : entered'[k] = entered[k]
  BY <1>1, <1>4
<1>6. \A k \in 1..Len(Queue') : Queue'[k] # Terminate /\ Queue'[k].id = entered'[Left(0) + 1 + k]
  <2> SUFFICES ASSUME NEW k \in 1..Len(Queue')
               PROVE  Queue'[k] # Terminate /\ Queue'[k].id = entered'[Left(0) + 1 + k]
    OBVIOUS
  <2>1. CASE k = Len(Queue)
    BY <1>1, <1>2, <1>3, <2>1
  <2>2. CASE k # Len(Queue)
    <3>1. k \in 1..Len(Queue)
      BY <1>3
    <3>a. /\ k \in 1..(Len(Queue) - 1) /\ k + 1 \in 1..Len(Queue)
          /\ Left(0) + (k + 1) \in 1..Len(entered)
      BY <1>1, <2>2, <3>1, Within, Zenon
    <3>2. \A i \in 1..Len(Queue) : Queue[i] # Terminate /\ Queue[i].id = entered[Left(0) + i]
      BY <1>1 DEF Ordered
    <3>3. Left(0) + (k + 1) = Left(0) + 1 + k
      BY <1>1
    <3> QED
      BY <1>3, <1>5, <1>1, <3>1, <3>a, <3>2, <3>3
  <2> QED
    BY <2>1, <2>2
<1>7. Ordered(0)'
  <2>1. \A w \in Workers : incoming'[w] \in Messages => \E i \in 1..Left(0)' : entered'[i] = incoming'[w].id
    BY <1>1, <1>4, <1>5 DEF Ordered
  <2>2. \A d \in done' : \E i \in 1..Left(0)' : entered'[i] = d
    BY <1>1, <1>4, <1>5 DEF Ordered
  <2>3. \A k \in 1..Len(Queue') : /\ Queue'[k] = Terminate <=> k > Len(Queue') - 0
                                  /\ Queue'[k].id = entered'[Left(0)' + k]
    <3>1. Len(Queue') \in Nat
      BY <1>1, <1>3, Zenon
    <3>2. \A x \in Nat : \A k \in 1..x : ~(k > x - 0)
      BY SMT
    <3>3. \A k \in 1..Len(Queue') : ~(k > Len(Queue') - 0)
      BY <3>1, <3>2, Zenon
    <3> QED
      BY <1>4, <1>6, <3>3, Zenon
  <2>4. 0 \in 0..Len(Queue') /\ Left(0)' \in Nat /\ Len(Queue') - 0 = Len(Queue')
    <3>1. Len(Queue') \in Nat
      BY <1>1, <1>3, Zenon
    <3>2. Left(0) + 1 \in Nat
      BY <1>1
    <3>3. \A x \in Nat : 0 \in 0..x /\ x - 0 = x
      BY SMT
    <3> QED
      BY <1>4, <3>1, <3>2, <3>3, Zenon
  <2> QED
    BY <2>1, <2>2, <2>3, <2>4 DEF Ordered
<1>8. InHand' = InHand
  BY DEF InHand
<1> DEFINE d == entered[Left(0) + 1]
<1>9. d \notin {entered[i] : i \in 1..Left(0)} /\ d \notin InHand \cup done
  BY <1>1, <1>4, NotAhead
<1>10. Lost(0)' = Lost(0) \cup {d}
  <2>1. {entered'[k] : k \in 1..Left(0)'} = {entered[k] : k \in 1..Left(0)} \cup {d}
    <3>1. 1..Left(0)' = 1..Left(0) \cup {Left(0) + 1}
      BY <1>1, <1>4, SMT
    <3>2. \A k \in 1..Left(0)' : entered'[k] = entered[k]
      BY <1>4, <1>5
    <3> QED
      BY <3>1, <3>2
  <2> HIDE DEF d
  <2> QED
    BY <1>8, <1>9, <2>1 DEF Lost
<1>11. d \notin Lost(0)
  BY <1>9 DEF Lost
<1>12. IsFiniteSet(Lost(0))
  <2>1. Lost(0) \subseteq 1..MaxCalls
    BY <1>1, EachOnce DEF Lost
  <2>2. IsFiniteSet(1..MaxCalls)
    BY Configured, FS_Interval DEF Typed
  <2> QED
    BY <2>1, <2>2, FS_Subset
<1> HIDE DEF d
<1> QED
  BY <1>3, <1>7, <1>10, <1>11, <1>12, FS_AddElement

(* A thread puts its message in the queue, which overruns the oldest one    *)
(* when full.                                                               *)
LEMMA EnqueueStepOf ==
    ASSUME MInv, NEW l \in Loggers, Enqueue(l)
    PROVE  MInv'
<1>0. Typed /\ Posting /\ Hands /\ l \in Posters /\ l # Main /\ Main \in Posters /\ \A k \in Loggers : k \in Posters
  BY Configured DEF MInv, Posters, Typed
<1>1. /\ pc[l] = "enqueue" /\ pc' = [pc EXCEPT ![l] = "notify"]
      /\ ~(Blocks(l) /\ full(q))
      /\ entered' = Append(entered, posting[l].id)
      /\ UNCHANGED <<conf, clock, posting, wpc, incoming, done, calls, toStop>>
  BY <1>0 DEF Enqueue, workVars
<1>2. PICK n \in 0..Len(Queue) : Ordered(n) /\ Counted(n) /\ Ending(n)
  BY DEF MInv
<1>3. n = 0 /\ Leaving = {} /\ pc[Main] \in {"up", "destroy"} /\ toStop = Cardinality(conf.workers)
  BY <1>1, <1>2, NoneTerminates
<1>4. /\ Posting' /\ entered' \in Seq(1..MaxCalls) /\ Len(entered') = Len(entered) + 1
      /\ posting[l] \in Messages
      /\ \A k \in 1..Len(entered) : entered'[k] = entered[k]
      /\ entered'[Len(entered) + 1] = posting[l].id
  BY <1>0, <1>1, PostingEntered
<1>5. posting[l] \in Posted
  BY <1>4 DEF Posted
<1>6. /\ q' \in Circular(Capacity, Slots)
      /\ ~full(q) => Queue' = Append(Queue, posting[l]) /\ q'.overrun_counter = q.overrun_counter
      /\ full(q) => /\ Queue # <<>> /\ Queue' = Append(Tail(Queue), posting[l])
                    /\ q'.overrun_counter = q.overrun_counter + 1
  BY <1>0, <1>5, QueueAfterEnqueue
<1>7. Ordered(0)' /\ Counted(0)' /\ Queue' \in Seq(Posted) /\ 0 \in 0..Len(Queue)'
  <2>1. CASE ~full(q)
    <3>1. /\ Ordered(0)' /\ Lost(0)' = Lost(0) /\ Queue' \in Seq(Posted) 
      BY <1>0, <1>1, <1>2, <1>3, <1>4, <1>6, <2>1, OrderedAppend
    <3> QED
      BY <1>1, <1>2, <1>3, <1>6, <2>1, <3>1 DEF Counted, Ordered
  <2>2. CASE full(q)
    <3>1. /\ Ordered(0)' /\ Queue' \in Seq(Posted)
          /\ Cardinality(Lost(0)') = Cardinality(Lost(0)) + 1
      BY <1>0, <1>1, <1>2, <1>3, <1>4, <1>6, <2>2, OrderedOverrun
    <3>2. conf.policy # "block"
      BY <1>1, <2>2 DEF Blocks
    <3> QED
      BY <1>1, <1>2, <1>3, <1>6, <2>2, <3>1, <3>2 DEF Counted, Ordered
  <2> QED
    BY <2>1, <2>2
<1>8. /\ pc' \in [Posters -> Places] /\ pc'[l] = "notify"
      /\ \A r \in Posters : r # l => pc'[r] = pc[r]
  BY <1>0, <1>1, Goes DEF Places
<1>9. Typed'
  <2>1. q' \in Circular(conf'.queue_size + 1, Posted \cup {Moved})
    BY <1>1, <1>6 DEF Capacity, Slots
  <2> QED
    BY <1>0, <1>1, <1>4, <1>7, <1>8, <2>1 DEF Typed
<1>10. Hands'
  BY <1>0, <1>1, HandsQuiet
<1>11. Ending(0)'
  <2>1. Leaving' = {} /\ AboutToPost' = AboutToPost /\ pc'[Main] = pc[Main] /\ AboutToPost = 0
    BY <1>0, <1>1, <1>3, <1>8 DEF Leaving, AboutToPost
  <2>2. Cardinality(Leaving') = 0 /\ Cardinality(conf.workers) \in Nat
    BY <1>0, <2>1, FS_EmptySet, Configured DEF Typed
  <2>3. (toStop + AboutToPost + 0 + Cardinality(Leaving))' = Cardinality(conf.workers)'
    BY <1>1, <1>3, <2>1, <2>2, SMT
  <2> QED
    BY <1>1, <1>3, <2>1, <2>3 DEF Ending, Places
<1> QED
  BY <1>4, <1>7, <1>9, <1>10, <1>11 DEF MInv

(* A terminate message comes after every other. *)
LEMMA OrderedTerminate ==
    ASSUME Typed, Posting, NEW n \in 0..Len(Queue), Ordered(n),
           UNCHANGED <<incoming, done, entered>>, Queue' = Append(Queue, Terminate)
    PROVE  /\ Ordered(n + 1)' /\ Lost(n + 1)' = Lost(n)
           /\ Queue' \in Seq(Posted) /\ n + 1 \in 0..Len(Queue') /\ Len(Queue') = Len(Queue) + 1
<1>1. /\ Len(Queue) \in Nat /\ Len(entered) \in Nat /\ Left(n) \in Nat /\ n \in Nat
      /\ Left(n) + (Len(Queue) - n) = Len(entered)
  BY EachOnce, SMT
<1>2. Terminate \in Posted /\ Queue \in Seq(Posted)
  BY DEF Posted, Typed
<1>3. /\ Queue' \in Seq(Posted) /\ Len(Queue') = Len(Queue) + 1 /\ Queue'[Len(Queue) + 1] = Terminate
      /\ \A k \in 1..Len(Queue) : Queue'[k] = Queue[k]
  <2> HIDE DEF Queue
  <2> QED
    BY <1>2, Appended
<1>4. Left(n + 1)' = Left(n)
  <2>1. (Len(Queue) + 1) - (n + 1) = Len(Queue) - n
    BY <1>1
  <2> QED
    BY <1>3, <2>1 DEF Left
<1>5. Len(Queue') - (n + 1) = Len(Queue) - n /\ n + 1 \in 0..Len(Queue')
  <2>1. \A x, y \in Nat : y \in 0..x => (x + 1) - (y + 1) = x - y /\ y + 1 \in 0..(x + 1)
    BY SMT
  <2> QED
    BY <1>1, <1>3, <2>1, Zenon
<1>6. \A k \in 1..Len(Queue') : Queue'[k] = Terminate <=> k > Len(Queue) - n
  <2> SUFFICES ASSUME NEW k \in 1..(Len(Queue) + 1)
               PROVE  Queue'[k] = Terminate <=> k > Len(Queue) - n
    BY <1>3
  <2>1. CASE k = Len(Queue) + 1
    BY <1>1, <1>3, <2>1
  <2>2. CASE k # Len(Queue) + 1
    <3>1. k \in 1..Len(Queue)
      BY <1>1, <2>2, SMT
    <3>2. Queue[k] = Terminate <=> k > Len(Queue) - n
      BY <3>1 DEF Ordered
    <3> QED
      BY <1>3, <3>1, <3>2, Zenon
  <2> QED
    BY <2>1, <2>2
<1>7. \A k \in 1..(Len(Queue) - n) : Queue'[k].id = entered[Left(n) + k]
  <2>1. \A k \in 1..(Len(Queue) - n) : k \in 1..Len(Queue)
    BY <1>1, SMT
  <2>2. \A k \in 1..(Len(Queue) - n) : Queue[k].id = entered[Left(n) + k]
    BY DEF Ordered
  <2> QED
    BY <1>3, <2>1, <2>2, Zenon
<1>8. Ordered(n + 1)'
  BY <1>1, <1>4, <1>5, <1>6, <1>7 DEF Ordered
<1>9. InHand' = InHand
  BY DEF InHand
<1>10. Lost(n + 1)' = Lost(n)
  BY <1>4, <1>9 DEF Lost
<1> QED
  BY <1>3, <1>5, <1>8, <1>10

(* The destructor puts a terminate message in the queue, which overruns     *)
(* none.                                                                    *)
LEMMA EnqueueStepOfMain == MInv /\ Enqueue(Main) => MInv'
<1> SUFFICES ASSUME MInv, Enqueue(Main) PROVE MInv'
  OBVIOUS
<1>0. Typed /\ Posting /\ Hands /\ Main \in Posters /\ Main \notin Loggers /\ \A k \in Loggers : k \in Posters
  BY Configured DEF MInv, Posters, Typed
<1>1. /\ pc[Main] = "enqueue" /\ pc' = [pc EXCEPT ![Main] = "notify"]
      /\ ~full(q)
      /\ UNCHANGED <<conf, clock, posting, entered, wpc, incoming, done, calls, toStop>>
  BY <1>0 DEF Enqueue, workVars, Blocks
<1>2. PICK n \in 0..Len(Queue) : Ordered(n) /\ Counted(n) /\ Ending(n)
  BY DEF MInv
<1>3. posting[Main] = Terminate /\ Terminate \in Posted
  BY <1>0 DEF Posting, Posted
<1>4. /\ q' \in Circular(Capacity, Slots)
      /\ Queue' = Append(Queue, Terminate) /\ q'.overrun_counter = q.overrun_counter
  BY <1>0, <1>1, <1>3, QueueAfterEnqueue
<1>5. /\ Ordered(n + 1)' /\ Lost(n + 1)' = Lost(n)
      /\ Queue' \in Seq(Posted) /\ n + 1 \in 0..Len(Queue') /\ Len(Queue') = Len(Queue) + 1
  BY <1>0, <1>1, <1>2, <1>4, OrderedTerminate
<1>6. Counted(n + 1)'
  BY <1>1, <1>2, <1>4, <1>5 DEF Counted
<1>7. /\ pc' \in [Posters -> Places] /\ pc'[Main] = "notify"
      /\ \A r \in Posters : r # Main => pc'[r] = pc[r]
  BY <1>0, <1>1, Goes DEF Places
<1>8. Typed'
  <2>1. q' \in Circular(conf'.queue_size + 1, Posted \cup {Moved})
    BY <1>1, <1>4 DEF Capacity, Slots
  <2> QED
    BY <1>0, <1>1, <1>5, <1>7, <2>1 DEF Typed
<1>9. Posting'
  <2>1. \A k \in Loggers : /\ pc'[k] \in LoggerPlaces
                           /\ Carrying(k)' => Carrying(k) /\ posting'[k] = posting[k]
    BY <1>0, <1>1, <1>7 DEF Posting, Carrying, LoggerPlaces
  <2> QED
    BY <1>0, <1>1, <2>1, PostingQuiet
<1>10. Hands'
  BY <1>0, <1>1, HandsQuiet
<1>11. Ending(n + 1)'
  <2>1. Leaving' = Leaving /\ AboutToPost' = 0 /\ AboutToPost = 1 /\ Holders' = Holders
    BY <1>0, <1>1, <1>7 DEF Leaving, AboutToPost, Holders
  <2>2. Holders = {}
    BY <1>1, <1>2 DEF Ending
  <2>3. IsFiniteSet(Leaving) /\ Cardinality(Leaving) \in Nat /\ toStop \in Nat /\ n \in Nat
    BY <1>0, Leavers
  <2>4. toStop + 1 + n + Cardinality(Leaving) = Cardinality(conf.workers)
    BY <1>1, <1>2, <2>1 DEF Ending
  <2>5. (toStop + AboutToPost + (n + 1) + Cardinality(Leaving))' = Cardinality(conf.workers)'
    BY <1>1, <2>1, <2>3, <2>4, SMT
  <2>6. Leaving # {} => n + 1 = Len(Queue')
    BY <1>2, <1>5 DEF Ending
  <2> QED
    BY <1>1, <1>2, <1>7, <2>1, <2>2, <2>5, <2>6 DEF Ending, Places
<1> QED
  BY <1>5, <1>6, <1>8, <1>9, <1>10, <1>11 DEF MInv

(* The places of a queue without its first element: a message, or a         *)
(* terminate message after all of them.                                     *)
LEMMA FirstOf ==
    ASSUME NEW len \in Nat, NEW n \in 0..len, len # 0
    PROVE  /\ 1 \in 1..len /\ len - 1 \in Nat
           /\ n # len => /\ 1 \in 1..(len - n) /\ ~(1 > len - n) /\ n \in 0..(len - 1)
                         /\ \A k \in 1..((len - 1) - n) : k + 1 \in 1..(len - n)
                         /\ \A k \in 1..(len - 1) : k + 1 \in 1..len /\ (k + 1 > len - n <=> k > (len - 1) - n)
           /\ n = len => /\ 1 > len - n /\ n - 1 \in 0..(len - 1) /\ (len - 1) - (n - 1) = 0
                         /\ \A k \in 1..(len - 1) : k + 1 \in 1..len /\ (k + 1 > len - n <=> k > 0)
BY SMT

(* What a worker takes from the queue. *)
LEMMA Taken ==
    ASSUME Typed, Hands, NEW w \in Workers, Dequeue(w)
    PROVE  /\ Queue # <<>> /\ Len(Queue) \in Nat /\ Len(Queue) # 0
           /\ Queue' \in Seq(Posted) /\ Len(Queue') = Len(Queue) - 1
           /\ \A k \in 1..(Len(Queue) - 1) : Queue'[k] = Queue[k + 1]
           /\ q' \in Circular(Capacity, Slots) /\ q'.overrun_counter = q.overrun_counter
           /\ Queue[1] \in Posted /\ incoming[w] = None /\ wpc[w] = "dequeue"
           /\ incoming' \in [Workers -> Posted \cup {None}] /\ incoming'[w] = Queue[1]
           /\ \A v \in Workers : v # w => incoming'[v] = incoming[v]
           /\ wpc' \in [Workers -> WorkerPlaces] /\ wpc'[w] = "notify"
           /\ \A v \in Workers : v # w => wpc'[v] = wpc[v]
           /\ UNCHANGED <<conf, clock, pc, posting, entered, done, calls, toStop>>
<1>1. /\ q' \in Circular(Capacity, Slots) /\ q'.overrun_counter = q.overrun_counter
      /\ Queue # <<>> /\ Queue' = Tail(Queue)
      /\ incoming' = [incoming EXCEPT ![w] = Queue[1]]
  BY QueueAfterDequeue
<1>2. Queue \in Seq(Posted)
  BY DEF Typed
<1>3. /\ Queue' \in Seq(Posted) /\ Len(Queue') = Len(Queue) - 1 /\ Len(Queue) \in Nat \ {0}
      /\ Queue[1] \in Posted
      /\ \A k \in 1..(Len(Queue) - 1) : Queue'[k] = Queue[k + 1]
  <2> HIDE DEF Queue
  <2> QED
    BY <1>1, <1>2, Shifted
<1>4. /\ incoming' \in [Workers -> Posted \cup {None}] /\ incoming'[w] = Queue[1]
      /\ \A v \in Workers : v # w => incoming'[v] = incoming[v]
  BY <1>1, <1>3 DEF Typed
<1>5. /\ wpc[w] = "dequeue" /\ wpc' = [wpc EXCEPT ![w] = "notify"]
      /\ UNCHANGED <<conf, clock, pc, posting, entered, done, calls, toStop>>
  BY DEF Dequeue
<1>6. /\ wpc' \in [Workers -> WorkerPlaces] /\ wpc'[w] = "notify"
      /\ \A v \in Workers : v # w => wpc'[v] = wpc[v]
  BY <1>5, WorkerGoes DEF WorkerPlaces
<1>7. incoming[w] = None
  BY <1>5 DEF Hands
<1> QED
  BY <1>1, <1>3, <1>4, <1>5, <1>6, <1>7

(* A worker takes the oldest message: it moves to the worker's hands. *)
LEMMA MessageTaken ==
    ASSUME Typed, Posting, Hands, NEW w \in Workers, Dequeue(w),
           NEW n \in 0..Len(Queue), Ordered(n), n # Len(Queue)
    PROVE  /\ Ordered(n)' /\ Lost(n)' = Lost(n) /\ Hands' /\ n \in 0..Len(Queue')
           /\ Queue[1] \in Messages
<1>1. /\ Len(Queue) \in Nat /\ Len(Queue) # 0
      /\ Len(Queue') = Len(Queue) - 1
      /\ \A k \in 1..(Len(Queue) - 1) : Queue'[k] = Queue[k + 1]
      /\ Queue[1] \in Posted /\ incoming[w] = None /\ wpc[w] = "dequeue"
      /\ incoming' \in [Workers -> Posted \cup {None}] /\ incoming'[w] = Queue[1]
      /\ \A v \in Workers : v # w => incoming'[v] = incoming[v]
      /\ wpc' \in [Workers -> WorkerPlaces] /\ wpc'[w] = "notify"
      /\ \A v \in Workers : v # w => wpc'[v] = wpc[v]
      /\ UNCHANGED <<conf, entered, done>>
  BY Taken
<1>2. /\ 1 \in 1..Len(Queue) /\ 1 \in 1..(Len(Queue) - n) /\ ~(1 > Len(Queue) - n)
      /\ n \in 0..(Len(Queue) - 1)
      /\ \A k \in 1..((Len(Queue) - 1) - n) : k + 1 \in 1..(Len(Queue) - n)
      /\ \A k \in 1..(Len(Queue) - 1) : k + 1 \in 1..Len(Queue) /\ (k + 1 > Len(Queue) - n <=> k > (Len(Queue) - 1) - n)
  BY <1>1, FirstOf, Zenon
<1>3. /\ \A k \in 1..Len(Queue) : Queue[k] = Terminate <=> k > Len(Queue) - n
      /\ \A k \in 1..(Len(Queue) - n) : Queue[k].id = entered[Left(n) + k]
      /\ \A v \in Workers : incoming[v] \in Messages => \E i \in 1..Left(n) : entered[i] = incoming[v].id
      /\ \A d \in done : \E i \in 1..Left(n) : entered[i] = d
  BY DEF Ordered
<1>4. Queue[1] \in Messages /\ Queue[1].id = entered[Left(n) + 1]
  BY <1>1, <1>2, <1>3, Zenon DEF Posted
<1>5. /\ Left(n) \in Nat /\ Len(entered) \in Nat /\ Left(n) + (Len(Queue) - n) = Len(entered)
  BY EachOnce, Zenon
<1>6. Left(n)' = Left(n) + 1
  <2>1. \A a, b \in Nat : \A c \in 0..b : a - ((b - 1) - c) = (a - (b - c)) + 1
    BY SMT
  <2> QED
    BY <1>1, <1>5, <2>1, Zenon DEF Left
<1>7. Left(n) + 1 \in (Left(n) + 1)..Len(entered)
  <2>1. \A a, b, c \in Nat : \A d \in 0..b : a + (b - d) = c /\ d # b => a + 1 \in (a + 1)..c
    BY SMT
  <2> QED
    BY <1>1, <1>5, <2>1, Zenon
<1> DEFINE d == entered[Left(n) + 1]
<1>8. d \notin {entered[i] : i \in 1..Left(n)} /\ d \notin InHand \cup done
  BY <1>7, NotAhead
<1>9. \A x \in Nat : x + 1 \in 1..(x + 1) /\ \A i \in 1..x : i \in 1..(x + 1)
  BY SMT
<1>10. Ordered(n)'
  <2>1. \A k \in 1..Len(Queue') : Queue'[k] = Terminate <=> k > Len(Queue') - n
    <3> SUFFICES ASSUME NEW k \in 1..(Len(Queue) - 1)
                 PROVE  Queue'[k] = Terminate <=> k > (Len(Queue) - 1) - n
      BY <1>1, Zenon
    <3>1. Queue'[k] = Queue[k + 1] /\ (Queue[k + 1] = Terminate <=> k + 1 > Len(Queue) - n)
      BY <1>1, <1>2, <1>3, Zenon
    <3> QED
      BY <1>2, <3>1, Zenon
  <2>2. \A k \in 1..(Len(Queue') - n) : Queue'[k].id = entered[(Left(n) + 1) + k]
    <3> SUFFICES ASSUME NEW k \in 1..((Len(Queue) - 1) - n) PROVE Queue'[k].id = entered[(Left(n) + 1) + k]
      BY <1>1, Zenon
    <3>1. k + 1 \in 1..(Len(Queue) - n)
      BY <1>2, Zenon
    <3>2. Queue[k + 1].id = entered[Left(n) + (k + 1)]
      BY <1>3, <3>1, Zenon
    <3>3. \A a, b \in Nat : \A c \in 0..b : \A x \in 1..((b - 1) - c) : a + (x + 1) = (a + 1) + x /\ x \in 1..(b - 1)
      BY SMT
    <3>4. Left(n) + (k + 1) = (Left(n) + 1) + k /\ k \in 1..(Len(Queue) - 1)
      BY <1>1, <1>5, <3>3, Zenon
    <3> QED
      BY <1>1, <3>2, <3>4, Zenon
  <2>3. \A v \in Workers : incoming'[v] \in Messages =>
            \E i \in 1..(Left(n) + 1) : entered[i] = incoming'[v].id
    <3> SUFFICES ASSUME NEW v \in Workers, incoming'[v] \in Messages
                 PROVE  \E i \in 1..(Left(n) + 1) : entered[i] = incoming'[v].id
      OBVIOUS
    <3>1. CASE v = w
      <4>1. Left(n) + 1 \in 1..(Left(n) + 1)
        BY <1>5, <1>9, Zenon
      <4>2. incoming'[v].id = entered[Left(n) + 1]
        BY <1>1, <1>4, <3>1, Zenon
      <4> QED
        BY <4>1, <4>2, Zenon
    <3>2. CASE v # w
      <4>1. incoming'[v] = incoming[v]
        BY <1>1, <3>2, Zenon
      <4>2. \E i \in 1..Left(n) : entered[i] = incoming[v].id
        BY <1>3, <4>1, Zenon
      <4> QED
        BY <1>5, <1>9, <4>1, <4>2, Zenon
    <3> QED
      BY <3>1, <3>2
  <2>4. \A e \in done : \E i \in 1..(Left(n) + 1) : entered[i] = e
    BY <1>3, <1>5, <1>9, Zenon
  <2>5. n \in 0..Len(Queue') /\ Left(n) + 1 \in Nat
    BY <1>1, <1>2, <1>5
  <2> QED
    BY <1>1, <1>6, <2>1, <2>2, <2>3, <2>4, <2>5, Zenon DEF Ordered
<1>11. \A v \in Workers : incoming[v] \in Messages => incoming[v].id \in InHand
  BY InHandTyped, Zenon
<1>12. Hands'
  <2>1. \A v \in Workers : wpc'[v] = "absent" <=> v \notin conf.workers
    <3>1. \A v \in Workers : wpc[v] = "absent" <=> v \notin conf.workers
      BY Zenon DEF Hands
    <3>2. wpc[w] # "absent" /\ wpc'[w] # "absent" /\ conf' = conf
      BY <1>1, Zenon
    <3>3. ASSUME NEW v \in Workers, v # w PROVE wpc'[v] = wpc[v]
      BY <1>1, <3>3, Zenon
    <3> QED
      BY <3>1, <3>2, <3>3, Zenon
  <2>2. \A v \in Workers : incoming'[v] # None <=> wpc'[v] \in {"notify", "process"}
    <3>1. \A v \in Workers : incoming[v] # None <=> wpc[v] \in {"notify", "process"}
      BY Zenon DEF Hands
    <3>2. Queue[1] # None
      BY <1>4, Kinds, Zenon
    <3>3. incoming'[w] # None /\ wpc'[w] \in {"notify", "process"}
      BY <1>1, <3>2, Zenon
    <3>4. ASSUME NEW v \in Workers, v # w PROVE incoming'[v] = incoming[v] /\ wpc'[v] = wpc[v]
      BY <1>1, <3>4, Zenon
    <3> QED
      BY <3>1, <3>3, <3>4, Zenon
  <2>a. /\ \A v, u \in Workers :
             incoming[v] \in Messages /\ incoming[u] \in Messages /\ incoming[v].id = incoming[u].id => v = u
        /\ \A v \in Workers : incoming[v] \in Messages => incoming[v].id \notin done
    BY DEF Hands
  <2>b. incoming'[w].id = d /\ d \notin InHand /\ d \notin done
    BY <1>1, <1>4, <1>8
  <2>c. \A v \in Workers : v # w /\ incoming'[v] \in Messages =>
            incoming'[v] = incoming[v] /\ incoming[v] \in Messages /\ incoming[v].id # d
    BY <1>1, <1>11, <2>b, Zenon
  <2>3. \A v, u \in Workers :
          incoming'[v] \in Messages /\ incoming'[u] \in Messages /\ incoming'[v].id = incoming'[u].id => v = u
    BY <2>a, <2>b, <2>c
  <2>4. \A v \in Workers : incoming'[v] \in Messages => incoming'[v].id \notin done
    BY <2>a, <2>b, <2>c
  <2> QED
    BY <1>1, <2>1, <2>2, <2>3, <2>4, Zenon DEF Hands
<1>13. InHand' = InHand \cup {d}
  <2>1. d \in 1..MaxCalls /\ MaxCalls \in Nat /\ d = incoming'[w].id
    BY <1>1, <1>4, Kinds, Configured, Zenon DEF Typed
  <2>2. \A i \in 1..MaxCalls : incoming[w].id # i
    BY <1>1, <2>1, Kinds
  <2> HIDE DEF d
  <2>3. \A i \in 1..MaxCalls : (\E v \in Workers : incoming'[v].id = i) <=> (i = d \/ \E v \in Workers : incoming[v].id = i)
    BY <1>1, <2>1, <2>2, Zenon
  <2> QED
    BY <2>1, <2>3 DEF InHand
<1>14. Lost(n)' = Lost(n)
  <2>1. {entered[k] : k \in 1..(Left(n) + 1)} = {entered[k] : k \in 1..Left(n)} \cup {d}
    <3>1. 1..(Left(n) + 1) = 1..Left(n) \cup {Left(n) + 1}
      BY <1>5, SMT
    <3> QED
      BY <3>1
  <2>2. Lost(n)' = {entered[k] : k \in 1..(Left(n) + 1)} \ (InHand' \cup done)
    <3>1. entered' = entered /\ done' = done
      BY <1>1, Zenon
    <3> QED
      BY <1>6, <3>1, Zenon DEF Lost
  <2> HIDE DEF d
  <2> QED
    BY <1>8, <1>13, <2>1, <2>2 DEF Lost
<1> QED
  BY <1>1, <1>2, <1>4, <1>10, <1>12, <1>14

(* Only terminate messages are left: a worker takes one of them.            *)
LEMMA TerminateTaken ==
    ASSUME Typed, Posting, Hands, NEW w \in Workers, Dequeue(w),
           NEW n \in 0..Len(Queue), Ordered(n), n = Len(Queue)
    PROVE  /\ Ordered(n - 1)' /\ Lost(n - 1)' = Lost(n) /\ Hands' /\ n - 1 \in 0..Len(Queue')
           /\ Queue[1] = Terminate /\ n - 1 = Len(Queue') /\ n \in Nat \ {0}
<1>1. /\ Len(Queue) \in Nat /\ Len(Queue) # 0
      /\ Len(Queue') = Len(Queue) - 1
      /\ \A k \in 1..(Len(Queue) - 1) : Queue'[k] = Queue[k + 1]
      /\ Queue[1] \in Posted /\ incoming[w] = None /\ wpc[w] = "dequeue"
      /\ incoming' \in [Workers -> Posted \cup {None}] /\ incoming'[w] = Queue[1]
      /\ \A v \in Workers : v # w => incoming'[v] = incoming[v]
      /\ wpc' \in [Workers -> WorkerPlaces] /\ wpc'[w] = "notify"
      /\ \A v \in Workers : v # w => wpc'[v] = wpc[v]
      /\ UNCHANGED <<conf, entered, done>>
  BY Taken
<1>2. /\ 1 \in 1..Len(Queue) /\ 1 > Len(Queue) - n
      /\ n - 1 \in 0..(Len(Queue) - 1) /\ (Len(Queue) - 1) - (n - 1) = 0
      /\ \A k \in 1..(Len(Queue) - 1) : k + 1 \in 1..Len(Queue) /\ (k + 1 > Len(Queue) - n <=> k > 0)
  BY <1>1, FirstOf, Zenon
<1>3. /\ \A k \in 1..Len(Queue) : Queue[k] = Terminate <=> k > Len(Queue) - n
      /\ \A v \in Workers : incoming[v] \in Messages => \E i \in 1..Left(n) : entered[i] = incoming[v].id
      /\ \A d \in done : \E i \in 1..Left(n) : entered[i] = d
  BY DEF Ordered
<1>4. Queue[1] = Terminate /\ Terminate \notin Messages /\ Terminate # None
  BY <1>2, <1>3, Kinds, Zenon
<1>5. Left(n) \in Nat
  BY EachOnce, Zenon
<1>6. Left(n - 1)' = Left(n)
  <2>1. \A a, b \in Nat : a - 0 = a - (b - b)
    BY SMT
  <2>2. Left(n - 1)' = Len(entered) - 0 /\ Len(entered) \in Nat
    BY <1>1, <1>2, EachOnce, Zenon DEF Left
  <2> QED
    BY <1>1, <2>1, <2>2, Zenon DEF Left
<1>7. \A v \in Workers : incoming'[v] \in Messages => incoming'[v] = incoming[v]
  BY <1>1, <1>4, Zenon
<1>8. Ordered(n - 1)'
  <2>1. \A k \in 1..Len(Queue') : Queue'[k] = Terminate <=> k > Len(Queue') - (n - 1)
    <3> SUFFICES ASSUME NEW k \in 1..(Len(Queue) - 1)
                 PROVE  Queue'[k] = Terminate <=> k > 0
      BY <1>1, <1>2, Zenon
    <3>1. Queue'[k] = Queue[k + 1] /\ (Queue[k + 1] = Terminate <=> k + 1 > Len(Queue) - n)
      BY <1>1, <1>2, <1>3, Zenon
    <3> QED
      BY <1>2, <3>1, Zenon
  <2>2. \A k \in 1..(Len(Queue') - (n - 1)) : Queue'[k].id = entered[Left(n - 1)' + k]
    <3>1. Len(Queue') - (n - 1) = 0
      BY <1>1, <1>2, Zenon
    <3>2. 1..0 = {}
      BY SMT
    <3> QED
      BY <3>1, <3>2, Zenon
  <2>3. \A v \in Workers : incoming'[v] \in Messages => \E i \in 1..Left(n) : entered[i] = incoming'[v].id
    BY <1>3, <1>7, Zenon
  <2>4. n - 1 \in 0..Len(Queue')
    BY <1>1, <1>2, Zenon
  <2> QED
    <3>1. \A d \in done' : \E i \in 1..Left(n - 1)' : entered'[i] = d
      BY <1>1, <1>3, <1>6, Zenon
    <3>2. \A v \in Workers : incoming'[v] \in Messages =>
              \E i \in 1..Left(n - 1)' : entered'[i] = incoming'[v].id
      BY <1>1, <1>6, <2>3, Zenon
    <3>3. \A k \in 1..(Len(Queue') - (n - 1)) : Queue'[k].id = entered'[Left(n - 1)' + k]
      BY <1>1, <2>2, Zenon
    <3>4. Left(n - 1)' \in Nat
      BY <1>5, <1>6, Zenon
    <3> QED
      BY <2>1, <2>4, <3>1, <3>2, <3>3, <3>4, Zenon DEF Ordered
<1>9. Hands'
  <2>1. \A v \in Workers : wpc'[v] = "absent" <=> v \notin conf.workers
    <3>1. \A v \in Workers : wpc[v] = "absent" <=> v \notin conf.workers
      BY DEF Hands
    <3>2. wpc'[w] # "absent" /\ wpc[w] # "absent" /\ conf' = conf
      BY <1>1, Zenon
    <3> QED
      BY <1>1, <3>1, <3>2, Zenon
  <2>2. \A v \in Workers : incoming'[v] # None <=> wpc'[v] \in {"notify", "process"}
    <3>1. \A v \in Workers : incoming[v] # None <=> wpc[v] \in {"notify", "process"}
      BY DEF Hands
    <3>2. incoming'[w] # None /\ wpc'[w] \in {"notify", "process"}
      BY <1>1, <1>4, Zenon
    <3> QED
      BY <1>1, <3>1, <3>2, Zenon
  <2>3. /\ \A v, u \in Workers :
             incoming[v] \in Messages /\ incoming[u] \in Messages /\ incoming[v].id = incoming[u].id => v = u
        /\ \A v \in Workers : incoming[v] \in Messages => incoming[v].id \notin done
    BY DEF Hands
  <2>4. /\ \A v, u \in Workers :
             incoming'[v] \in Messages /\ incoming'[u] \in Messages /\ incoming'[v].id = incoming'[u].id => v = u
        /\ \A v \in Workers : incoming'[v] \in Messages => incoming'[v].id \notin done
    BY <1>7, <2>3
  <2> QED
    BY <1>1, <2>1, <2>2, <2>4 DEF Hands
<1>10. InHand' = InHand
  <2>1. incoming[w].id = 0 /\ incoming'[w].id = 0 /\ \A i \in 1..MaxCalls : i # 0
    BY <1>1, <1>4, Kinds, Configured DEF Typed
  <2>2. \A i \in 1..MaxCalls : (\E v \in Workers : incoming'[v].id = i) <=> (\E v \in Workers : incoming[v].id = i)
    BY <1>1, <2>1, Zenon
  <2> QED
    BY <2>2 DEF InHand
<1>11. Lost(n - 1)' = Lost(n)
  <2>1. entered' = entered /\ done' = done
    BY <1>1, Zenon
  <2>2. {entered'[k] : k \in 1..Left(n - 1)'} = {entered[k] : k \in 1..Left(n)}
    BY <1>6, <2>1, Zenon
  <2> QED
    BY <1>10, <2>1, <2>2, Zenon DEF Lost
<1>12. n \in Nat \ {0} /\ n - 1 = Len(Queue')
  BY <1>1, Zenon
<1> QED
  BY <1>1, <1>2, <1>4, <1>8, <1>9, <1>11, <1>12, Zenon

(* A worker takes the oldest message.                                       *)
LEMMA DequeueStep ==
    ASSUME MInv, NEW w \in Workers, Dequeue(w)
    PROVE  MInv'
<1>0. Typed /\ Posting /\ Hands /\ Main \in Posters /\ \A k \in Loggers : k \in Posters
  BY DEF MInv, Posters
<1>1. /\ Len(Queue) \in Nat /\ Len(Queue) # 0
      /\ Queue' \in Seq(Posted) /\ Len(Queue') = Len(Queue) - 1
      /\ q' \in Circular(Capacity, Slots) /\ q'.overrun_counter = q.overrun_counter
      /\ Queue[1] \in Posted /\ incoming[w] = None /\ wpc[w] = "dequeue"
      /\ incoming' \in [Workers -> Posted \cup {None}] /\ incoming'[w] = Queue[1]
      /\ \A v \in Workers : v # w => incoming'[v] = incoming[v]
      /\ wpc' \in [Workers -> WorkerPlaces] /\ wpc'[w] = "notify"
      /\ \A v \in Workers : v # w => wpc'[v] = wpc[v]
      /\ UNCHANGED <<conf, clock, pc, posting, entered, done, calls, toStop>>
  BY <1>0, Taken
<1>2. PICK n \in 0..Len(Queue) : Ordered(n) /\ Counted(n) /\ Ending(n)
  BY DEF MInv
<1>3. Typed'
  <2>1. q' \in Circular(conf'.queue_size + 1, Posted \cup {Moved})
    BY <1>1, Zenon DEF Capacity, Slots
  <2> QED
    BY <1>0, <1>1, <2>1 DEF Typed
<1>4. Posting'
  BY <1>0, <1>1, PostingQuiet DEF Posting, LoggerPlaces, Carrying
<1>5. /\ Holders' = Holders /\ AboutToPost' = AboutToPost
      /\ \A v \in conf.workers : wpc[v] = "exited" => wpc'[v] = "exited"
  BY <1>0, <1>1, Configured DEF Holders, AboutToPost, Typed
<1>6. CASE n # Len(Queue)
  <2>1. /\ Ordered(n)' /\ Lost(n)' = Lost(n) /\ Hands' /\ n \in 0..Len(Queue') /\ Queue[1] \in Messages
    BY <1>0, <1>2, <1>6, MessageTaken
  <2>2. Leaving = {}
    BY <1>2, <1>6 DEF Ending
  <2>3. Leaving' = {}
    <3> SUFFICES ASSUME NEW v \in Workers, wpc'[v] = "exited" \/ incoming'[v] = Terminate PROVE FALSE
      BY DEF Leaving
    <3>1. v # w
      BY <1>1, <2>1, Kinds
    <3> QED
      BY <1>1, <2>2, <3>1, Zenon DEF Leaving
  <2>4. Ending(n)'
    BY <1>1, <1>2, <1>5, <2>2, <2>3, Zenon DEF Ending
  <2>5. Counted(n)'
    BY <1>1, <1>2, <2>1, Zenon DEF Counted
  <2> QED
    BY <1>3, <1>4, <2>1, <2>4, <2>5, Zenon DEF MInv
<1>7. CASE n = Len(Queue)
  <2>1. /\ Ordered(n - 1)' /\ Lost(n - 1)' = Lost(n) /\ Hands' /\ n - 1 \in 0..Len(Queue')
        /\ Queue[1] = Terminate /\ n - 1 = Len(Queue') /\ n \in Nat \ {0}
    BY <1>0, <1>2, <1>7, TerminateTaken
  <2>2. Leaving' = Leaving \cup {w} /\ w \notin Leaving
    <3>1. w \notin Leaving
      BY <1>1, Kinds DEF Leaving
    <3>2. \A v \in Workers : (wpc'[v] = "exited" \/ incoming'[v] = Terminate)
                                <=> (v = w \/ wpc[v] = "exited" \/ incoming[v] = Terminate)
      BY <1>1, <2>1, Zenon
    <3> QED
      BY <3>1, <3>2 DEF Leaving
  <2>3. Cardinality(Leaving') = Cardinality(Leaving) + 1 /\ Cardinality(Leaving) \in Nat /\ toStop \in Nat
    BY <1>0, <2>2, Leavers, FS_AddElement
  <2>4. pc[Main] # "crashed" =>
           (toStop + AboutToPost + (n - 1) + Cardinality(Leaving))' = Cardinality(conf.workers)'
    <3> SUFFICES ASSUME pc[Main] # "crashed"
                 PROVE  toStop + AboutToPost + (n - 1) + (Cardinality(Leaving) + 1) = Cardinality(conf.workers)
      BY <1>1, <1>5, <2>3, Zenon
    <3>1. toStop + AboutToPost + n + Cardinality(Leaving) = Cardinality(conf.workers)
      BY <1>2 DEF Ending
    <3>2. AboutToPost \in Nat
      BY DEF AboutToPost
    <3>3. \A a, b, c, d \in Nat : a + b + (c - 1) + (d + 1) = a + b + c + d
      BY SMT
    <3>4. n \in Nat
      OBVIOUS
    <3>5. toStop + AboutToPost + (n - 1) + (Cardinality(Leaving) + 1)
             = toStop + AboutToPost + n + Cardinality(Leaving)
      BY <2>3, <3>2, <3>4, SMT
    <3> QED
      BY <3>1, <3>5, Zenon
  <2>5. Holders # {} => FALSE
    <3> SUFFICES ASSUME NEW l \in Holders PROVE FALSE
      OBVIOUS
    <3>0. l \in Loggers /\ pc[l] \in {"enqueue", "waiting", "notify"}
      BY DEF Holders
    <3>1. n = 0
      BY <1>2, <3>0, NoneTerminates
    <3> QED
      BY <2>1, <3>1, Zenon
  <2>6. Ending(n - 1)'
    <3>1. /\ pc[Main] \in Places \ {"idle", "stamped"}
          /\ pc[Main] \in {"start", "opened"} => entered = <<>>
          /\ pc[Main] \in {"start", "opened", "up"} => toStop = Cardinality(conf.workers)
          /\ pc[Main] \in {"join", "gone"} => toStop = 0
          /\ pc[Main] = "gone" => \A v \in conf.workers : wpc[v] = "exited"
      BY <1>2 DEF Ending
    <3> QED
      BY <1>1, <1>5, <2>1, <2>4, <2>5, <3>1, Zenon DEF Ending
  <2>7. Counted(n - 1)'
    BY <1>1, <1>2, <2>1, Zenon DEF Counted
  <2> QED
    BY <1>3, <1>4, <2>1, <2>6, <2>7, Zenon DEF MInv
<1> QED
  BY <1>6, <1>7

(* A worker that goes to sleep, wakes, or tells that there is room. *)
LEMMA WorkerWaits ==
    ASSUME MInv, NEW w \in Workers, WaitForMessage(w) \/ WaitTimesOut(w) \/ NotifyRoom(w)
    PROVE  MInv'
<1>0. Typed /\ Posting /\ Hands /\ Main \in Posters /\ \A k \in Loggers : k \in Posters
  BY DEF MInv, Posters
<1>1. UNCHANGED <<conf, clock, q, posting, entered, incoming, done, calls, toStop>>
  BY DEF WaitForMessage, WaitTimesOut, NotifyRoom, poolVars
<1>2. /\ wpc' \in [Workers -> WorkerPlaces]
      /\ \A v \in Workers : \/ wpc'[v] = wpc[v]
                            \/ wpc[v] \in {"dequeue", "sleeping"} /\ wpc'[v] \in {"dequeue", "sleeping"}
                            \/ wpc[v] = "notify" /\ wpc'[v] = "process"
  <2>1. CASE WaitForMessage(w)
    BY <1>0, <2>1 DEF WaitForMessage, Typed, WorkerPlaces
  <2>2. CASE WaitTimesOut(w)
    BY <1>0, <2>2 DEF WaitTimesOut, Typed, WorkerPlaces
  <2>3. CASE NotifyRoom(w)
    BY <1>0, <2>3 DEF NotifyRoom, Typed, WorkerPlaces
  <2> QED
    BY <2>1, <2>2, <2>3
<1>3. /\ pc' \in [Posters -> Places]
      /\ \A r \in Posters : pc'[r] = pc[r] \/ (pc[r] = "waiting" /\ pc'[r] = "enqueue")
  <2>1. CASE UNCHANGED pc
    BY <1>0, <2>1 DEF Typed
  <2>2. CASE NotifyRoom(w)
    BY <1>0, <2>2, RoomTold DEF NotifyRoom
  <2> QED
    BY <2>1, <2>2 DEF WaitForMessage, WaitTimesOut, poolVars
<1>4. Typed'
  BY <1>0, <1>1, <1>2, <1>3, TypedQuiet DEF Typed
<1>5. Posting'
  <2>1. \A k \in Loggers : /\ pc'[k] \in LoggerPlaces
                           /\ Carrying(k)' => Carrying(k) /\ posting'[k] = posting[k]
    BY <1>0, <1>1, <1>3 DEF Posting, Carrying, LoggerPlaces
  <2> QED
    BY <1>0, <1>1, <2>1, PostingQuiet
<1>6. Hands'
  BY <1>0, <1>1, <1>2, HandsQuiet
<1>7. PICK n \in 0..Len(Queue) : Ordered(n) /\ Counted(n) /\ Ending(n)
  BY DEF MInv
<1>8. n \in (0..Len(Queue))' /\ Ordered(n)' /\ Counted(n)'
  BY <1>1, <1>7, OrderQuiet
<1>9. Holders' # {} => Holders # {}
  BY <1>0, <1>3 DEF Holders
<1>10. Ending(n)'
  <2>1. \A v \in Workers : wpc'[v] = "exited" <=> wpc[v] = "exited"
    BY <1>2
  <2> QED
    BY <1>0, <1>1, <1>3, <1>7, <1>9, <2>1, EndingQuiet
<1> QED
  BY <1>4, <1>5, <1>6, <1>8, <1>10 DEF MInv

(* What a worker does with its message. *)
LEMMA Processed ==
    ASSUME Typed, Hands, NEW w \in Workers, NEW kind \in {"log", "flush", "terminate"},
           NEW next \in {"dequeue", "exited"}, Process(w, kind, next)
    PROVE  /\ wpc[w] = "process" /\ incoming[w] \in Posted /\ incoming[w].kind = kind
           /\ kind = "terminate" => incoming[w] = Terminate /\ done' = done
           /\ kind # "terminate" => incoming[w] \in Messages /\ done' = done \cup {incoming[w].id}
           /\ wpc' \in [Workers -> WorkerPlaces] /\ wpc'[w] = next
           /\ \A v \in Workers : v # w => wpc'[v] = wpc[v]
           /\ incoming' \in [Workers -> Posted \cup {None}] /\ incoming'[w] = None
           /\ \A v \in Workers : v # w => incoming'[v] = incoming[v]
           /\ UNCHANGED <<conf, clock, q, posting, entered, calls, starts, toStop>>
<1>1. /\ wpc[w] = "process" /\ incoming[w].kind = kind
      /\ wpc' = [wpc EXCEPT ![w] = next] /\ incoming' = [incoming EXCEPT ![w] = None]
      /\ done' = IF kind = "terminate" THEN done ELSE done \cup {incoming[w].id}
      /\ UNCHANGED <<conf, clock, q, posting, entered, calls, starts, toStop>>
  BY DEF Process
<1>2. incoming[w] \in Posted
  BY <1>1 DEF Hands, Typed
<1>3. (kind = "terminate" => incoming[w] = Terminate) /\ (kind # "terminate" => incoming[w] \in Messages)
  BY <1>1, <1>2, Kinds DEF Posted
<1>4. /\ wpc' \in [Workers -> WorkerPlaces] /\ wpc'[w] = next
      /\ \A v \in Workers : v # w => wpc'[v] = wpc[v]
  BY <1>1, WorkerGoes DEF WorkerPlaces
<1>5. /\ incoming' \in [Workers -> Posted \cup {None}] /\ incoming'[w] = None
      /\ \A v \in Workers : v # w => incoming'[v] = incoming[v]
  BY <1>1 DEF Typed
<1> QED
  BY <1>1, <1>2, <1>3, <1>4, <1>5

(* A message is dealt with, or a terminate message obeyed: what has left    *)
(* the queue is accounted for as before.                                    *)
LEMMA StillOrdered ==
    ASSUME Typed, Posting, Hands, NEW w \in Workers, NEW kind \in {"log", "flush", "terminate"},
           NEW next \in {"dequeue", "exited"}, Process(w, kind, next),
           NEW n \in 0..Len(Queue), Ordered(n), Counted(n)
    PROVE  Ordered(n)' /\ Counted(n)' /\ n \in 0..Len(Queue') /\ Queue' = Queue
           /\ done' \subseteq 1..MaxCalls
<1>1. /\ incoming[w] \in Posted
      /\ kind = "terminate" => incoming[w] = Terminate /\ done' = done
      /\ kind # "terminate" => incoming[w] \in Messages /\ done' = done \cup {incoming[w].id}
      /\ incoming'[w] = None
      /\ \A v \in Workers : v # w => incoming'[v] = incoming[v]
      /\ UNCHANGED <<conf, clock, q, posting, entered, calls, starts, toStop>>
  BY Processed
<1>2. Queue' = Queue
  BY <1>1, Zenon DEF Queue
<1>3. Left(n)' = Left(n)
  BY <1>1, <1>2, Zenon DEF Left
<1>4. /\ \A v \in Workers : incoming[v] \in Messages => \E i \in 1..Left(n) : entered[i] = incoming[v].id
      /\ \A d \in done : \E i \in 1..Left(n) : entered[i] = d
  BY DEF Ordered
<1>5. \A d \in done' : \E i \in 1..Left(n) : entered[i] = d
  <2>1. CASE kind = "terminate"
    BY <1>1, <1>4, <2>1, Zenon
  <2>2. CASE kind # "terminate"
    <3>1. done' = done \cup {incoming[w].id} /\ \E i \in 1..Left(n) : entered[i] = incoming[w].id
      BY <1>1, <1>4, <2>2, Zenon
    <3> QED
      BY <1>4, <3>1
  <2> QED
    BY <2>1, <2>2
<1>6. \A v \in Workers : incoming'[v] \in Messages => incoming'[v] = incoming[v]
  BY <1>1, Kinds, Zenon
<1>7. Ordered(n)'
  BY <1>1, <1>2, <1>3, <1>4, <1>5, <1>6, Zenon DEF Ordered
<1>8. InHand' \cup done' = InHand \cup done
  <2>1. InHand' = {incoming[v].id : v \in {u \in Workers \ {w} : incoming[u] \in Messages}}
    <3>1. \A i \in 1..MaxCalls : i # 0
      BY Configured DEF Typed
    <3>2. \A v \in Workers : incoming'[v].id \in 1..MaxCalls => v # w
      BY <1>1, <3>1, Kinds
    <3>3. \A v \in Workers : incoming[v].id \in 1..MaxCalls => incoming[v] \in Messages
      BY <3>1, Kinds DEF Typed, Posted
    <3>4. \A v \in Workers : incoming[v] \in Messages => incoming[v].id \in 1..MaxCalls
      BY Kinds
    <3> QED
      BY <1>1, <3>2, <3>3, <3>4 DEF InHand
  <2>2. InHand = {incoming[v].id : v \in {u \in Workers : incoming[u] \in Messages}}
    BY InHandTyped
  <2>3. CASE kind = "terminate"
    <3>1. incoming[w] \notin Messages /\ done' = done
      BY <1>1, <2>3, Kinds
    <3> QED
      BY <2>1, <2>2, <3>1
  <2>4. CASE kind # "terminate"
    <3>1. incoming[w] \in Messages /\ done' = done \cup {incoming[w].id}
      BY <1>1, <2>4
    <3> QED
      BY <2>1, <2>2, <3>1
  <2> QED
    BY <2>3, <2>4
<1>9. Lost(n)' = Lost(n)
  BY <1>1, <1>3, <1>8, Zenon DEF Lost
<1>10. Counted(n)'
  BY <1>1, <1>9, Zenon DEF Counted
<1>11. done' \subseteq 1..MaxCalls
  <2>1. done \subseteq 1..MaxCalls
    BY Zenon DEF Typed
  <2>2. kind # "terminate" => incoming[w].id \in 1..MaxCalls
    BY <1>1, Kinds, Zenon
  <2>3. CASE kind = "terminate"
    BY <1>1, <2>1, <2>3, Zenon
  <2>4. CASE kind # "terminate"
    <3>1. done' = done \cup {incoming[w].id} /\ incoming[w].id \in 1..MaxCalls
      BY <1>1, <2>2, <2>4, Zenon
    <3> QED
      BY <2>1, <3>1, Zenon
  <2> QED
    BY <2>3, <2>4, Zenon
<1> QED
  BY <1>2, <1>7, <1>10, <1>11, Zenon

(* The message a worker is done with is in no other hand.                   *)
LEMMA StillInHand ==
    ASSUME Typed, Hands, NEW w \in Workers, NEW kind \in {"log", "flush", "terminate"},
           NEW next \in {"dequeue", "exited"}, Process(w, kind, next),
           kind = "terminate" <=> next = "exited"
    PROVE  Hands' /\ Leaving' = Leaving
<1>1. /\ wpc[w] = "process" /\ incoming[w] \in Posted
      /\ kind = "terminate" => incoming[w] = Terminate /\ done' = done
      /\ kind # "terminate" => incoming[w] \in Messages /\ done' = done \cup {incoming[w].id}
      /\ wpc' \in [Workers -> WorkerPlaces] /\ wpc'[w] = next
      /\ \A v \in Workers : v # w => wpc'[v] = wpc[v]
      /\ incoming'[w] = None
      /\ \A v \in Workers : v # w => incoming'[v] = incoming[v]
      /\ UNCHANGED conf
  BY Processed
<1>2. \A v \in Workers : incoming'[v] \in Messages => v # w /\ incoming'[v] = incoming[v]
  BY <1>1, Kinds, Zenon
<1>3. /\ \A v \in Workers : wpc[v] = "absent" <=> v \notin conf.workers
      /\ \A v \in Workers : incoming[v] # None <=> wpc[v] \in {"notify", "process"}
      /\ \A v, u \in Workers :
          incoming[v] \in Messages /\ incoming[u] \in Messages /\ incoming[v].id = incoming[u].id => v = u
      /\ \A v \in Workers : incoming[v] \in Messages => incoming[v].id \notin done
  BY DEF Hands
<1>4. \A v \in Workers : wpc'[v] = "absent" <=> v \notin conf'.workers
  BY <1>1, <1>3
<1>5. \A v \in Workers : incoming'[v] # None <=> wpc'[v] \in {"notify", "process"}
  BY <1>1, <1>3
<1>6. \A v, u \in Workers :
          incoming'[v] \in Messages /\ incoming'[u] \in Messages /\ incoming'[v].id = incoming'[u].id => v = u
  BY <1>2, <1>3
<1>7. \A v \in Workers : incoming'[v] \in Messages => incoming'[v].id \notin done'
  <2> SUFFICES ASSUME NEW v \in Workers, incoming'[v] \in Messages PROVE incoming'[v].id \notin done'
    OBVIOUS
  <2>1. v # w /\ incoming'[v] = incoming[v] /\ incoming[v].id \notin done
    BY <1>2, <1>3
  <2>2. incoming[w] \in Messages => incoming[w].id # incoming[v].id
    BY <1>2, <1>3, <2>1
  <2> QED
    BY <1>1, <2>1, <2>2
<1>8. Leaving' = Leaving
  <2>1. (wpc'[w] = "exited" \/ incoming'[w] = Terminate) <=> (wpc[w] = "exited" \/ incoming[w] = Terminate)
    BY <1>1, Kinds
  <2>2. \A v \in Workers : (wpc'[v] = "exited" \/ incoming'[v] = Terminate)
                              <=> (wpc[v] = "exited" \/ incoming[v] = Terminate)
    BY <1>1, <2>1, Zenon
  <2> QED
    BY <2>2 DEF Leaving
<1> QED
  BY <1>4, <1>5, <1>6, <1>7, <1>8 DEF Hands

(* A worker is done with its message, whichever it was.                     *)
LEMMA ProcessStep ==
    ASSUME MInv, NEW w \in Workers, NEW kind \in {"log", "flush", "terminate"},
           NEW next \in {"dequeue", "exited"}, Process(w, kind, next),
           kind = "terminate" <=> next = "exited",
           pc' = pc \/ pc' = [p \in Posters |-> "crashed"]
    PROVE  MInv'
<1>0. Typed /\ Posting /\ Hands /\ Main \in Posters /\ \A k \in Loggers : k \in Posters
  BY DEF MInv, Posters
<1>1. PICK n \in 0..Len(Queue) : Ordered(n) /\ Counted(n) /\ Ending(n)
  BY DEF MInv
<1>2. Ordered(n)' /\ Counted(n)' /\ n \in 0..Len(Queue') /\ Queue' = Queue /\ done' \subseteq 1..MaxCalls
  BY <1>0, <1>1, StillOrdered
<1>3. Hands' /\ Leaving' = Leaving
  BY <1>0, StillInHand
<1>4. /\ wpc[w] = "process" /\ wpc'[w] = next /\ \A v \in Workers : v # w => wpc'[v] = wpc[v]
      /\ wpc' \in [Workers -> WorkerPlaces] /\ incoming' \in [Workers -> Posted \cup {None}]
      /\ UNCHANGED <<conf, clock, q, posting, entered, calls, starts, toStop>>
  BY <1>0, Processed
<1>5. pc' \in [Posters -> Places]
  BY <1>0 DEF Typed, Places
<1>6. Typed'
  BY <1>0, <1>2, <1>4, <1>5 DEF Typed
<1>7. Posting'
  <2>1. \A k \in Loggers : /\ pc'[k] \in LoggerPlaces
                           /\ Carrying(k)' => Carrying(k) /\ posting'[k] = posting[k]
    BY <1>0, <1>4 DEF Posting, Carrying, LoggerPlaces
  <2> QED
    BY <1>0, <1>4, <2>1, PostingQuiet
<1>8. Ending(n)'
  <2>1. pc'[Main] = pc[Main] \/ pc'[Main] = "crashed"
    BY <1>0
  <2>2. \A v \in conf.workers : wpc[v] = "exited" => wpc'[v] = "exited"
    BY <1>0, <1>4, Configured DEF Typed
  <2>3. Holders' # {} => Holders # {} /\ pc' = pc
    BY <1>0 DEF Holders
  <2>4. /\ pc[Main] \in Places \ {"idle", "stamped"}
        /\ pc[Main] \in {"start", "opened"} => entered = <<>>
        /\ pc[Main] \in {"start", "opened", "up"} => toStop = Cardinality(conf.workers)
        /\ pc[Main] \in {"join", "gone"} => toStop = 0
        /\ pc[Main] = "gone" => \A v \in conf.workers : wpc[v] = "exited"
        /\ Holders # {} => pc[Main] \in {"up", "destroy"} /\ toStop = Cardinality(conf.workers)
        /\ pc[Main] # "crashed" => toStop + AboutToPost + n + Cardinality(Leaving) = Cardinality(conf.workers)
        /\ Leaving # {} => n = Len(Queue)
    BY <1>1 DEF Ending
  <2>5. pc'[Main] # "crashed" => AboutToPost' = AboutToPost
    BY <2>1 DEF AboutToPost
  <2>6. pc'[Main] \in Places \ {"idle", "stamped"}
    BY <2>1, <2>4 DEF Places
  <2>7. CASE pc'[Main] = pc[Main]
    <3>1. AboutToPost' = AboutToPost
      BY <2>7 DEF AboutToPost
    <3>2. Holders' # {} => pc'[Main] \in {"up", "destroy"} /\ toStop' = Cardinality(conf'.workers)
      BY <1>4, <2>3, <2>4, <2>7, Zenon
    <3> QED
      BY <1>2, <1>3, <1>4, <2>2, <2>4, <2>6, <2>7, <3>1, <3>2, Zenon DEF Ending
  <2>8. CASE pc'[Main] # pc[Main]
    <3>1. pc'[Main] = "crashed" /\ Holders' = {}
      BY <2>1, <2>3, <2>8, Zenon
    <3> QED
      BY <1>2, <1>3, <1>4, <2>4, <2>6, <3>1 DEF Ending
  <2> QED
    BY <2>7, <2>8
<1> QED
  BY <1>2, <1>3, <1>6, <1>7, <1>8, Zenon DEF MInv

-----------------------------------------------------------------------------
(* A new pool *)

(* A pool whose threads have just been started. *)
Fresh ==
    /\ conf \in Configurations /\ clock \in conf.days /\ calls \in 0..conf.calls
    /\ q = circular_q(conf.queue_size)
    /\ pc = [p \in Posters |-> IF p = Main THEN "start" ELSE "idle"]
    /\ posting = [p \in Posters |-> IF p = Main THEN Msg("terminate", 0, 0) ELSE None]
    /\ wpc = [w \in Workers |-> IF w \in conf.workers THEN "dequeue" ELSE "absent"]
    /\ incoming = [w \in Workers |-> None]
    /\ toStop = Cardinality(conf.workers) /\ entered = <<>> /\ done = {}

(* In a new program no message is anywhere, which satisfies the invariant.  *)
LEMMA FreshPoolIsFine == Fresh => MInv
<1> SUFFICES ASSUME Fresh PROVE MInv
  OBVIOUS
<1>0. /\ Main \in Posters /\ Main \notin Loggers /\ \A l \in Loggers : l \in Posters
      /\ Cardinality(conf.workers) \in Nat /\ conf.queue_size \in Nat /\ conf.workers \subseteq Workers
  BY Configured DEF Posters, Fresh
<1>1. /\ conf \in Configurations /\ clock \in conf.days /\ calls \in 0..conf.calls
      /\ toStop = Cardinality(conf.workers) /\ entered = <<>> /\ done = {}
      /\ pc \in [Posters -> Places] /\ pc[Main] = "start" /\ \A l \in Loggers : pc[l] = "idle"
      /\ posting \in [Posters -> Posted \cup {None}] /\ posting[Main] = Terminate
      /\ wpc \in [Workers -> WorkerPlaces]
      /\ \A w \in Workers : wpc[w] = IF w \in conf.workers THEN "dequeue" ELSE "absent"
      /\ incoming \in [Workers -> Posted \cup {None}] /\ \A w \in Workers : incoming[w] = None
  BY <1>0, FreshTyped DEF Fresh, WorkerPlaces, Terminate
<1>2. q \in Circular(conf.queue_size + 1, Posted \cup {Moved}) /\ Queue = <<>> /\ q.overrun_counter = 0
  BY <1>1, FreshTyped, Zenon DEF Fresh, Queue
<1>3. <<>> \in Seq(Posted) /\ <<>> \in Seq(1..MaxCalls) /\ Len(<<>>) = 0 /\ DOMAIN <<>> = {}
  OBVIOUS
<1>4. Typed
  BY <1>0, <1>1, <1>2, <1>3 DEF Typed
<1>5. Posting
  BY <1>0, <1>1, <1>3 DEF Posting, Carrying
<1>6. Hands
  BY <1>1, Kinds DEF Hands
<1>7. 0 \in 0..Len(Queue) /\ Len(Queue) = 0 /\ Left(0) = 0
  BY <1>1, <1>2, <1>3 DEF Left
<1>8. Ordered(0)
  <2>1. /\ \A w \in Workers : incoming[w] \notin Messages
        /\ \A k \in 1..Len(Queue) : FALSE
        /\ \A k \in 1..(Len(Queue) - 0) : FALSE
    BY <1>1, <1>7, Kinds
  <2> QED
    BY <1>1, <1>7, <2>1 DEF Ordered
<1>9. Counted(0)
  <2>1. Lost(0) = {}
    BY <1>7 DEF Lost
  <2> QED
    BY <1>2, <2>1, FS_EmptySet DEF Counted
<1>10. Ending(0)
  <2>1. Holders = {} /\ Leaving = {} /\ AboutToPost = 0
    BY <1>1, Kinds DEF Holders, Leaving, AboutToPost
  <2>2. Cardinality(Leaving) = 0
    BY <2>1, FS_EmptySet
  <2> QED
    BY <1>0, <1>1, <1>7, <2>1, <2>2 DEF Ending, Places
<1> QED
  BY <1>4, <1>5, <1>6, <1>7, <1>8, <1>9, <1>10 DEF MInv

(* The program starts in the invariant.                                     *)
LEMMA InitStep == Init => MInv
<1>1. Init => Fresh
  BY FirstDay, Configured DEF Init, Fresh
<1> QED
  BY <1>1, FreshPoolIsFine

(* So does the program that is started after it.                            *)
LEMMA RestartStep == MInv /\ Restart => MInv'
<1>1. MInv /\ Restart => Fresh'
  <2> SUFFICES ASSUME MInv, Restart PROVE Fresh'
    OBVIOUS
  <2>1. Typed /\ Hands
    BY DEF MInv
  <2>2. Running = conf.workers /\ \A w \in Workers : wpc[w] = "absent" <=> w \notin conf.workers
    BY <2>1, Configured DEF Running, Hands, Typed
  <2> QED
    BY <2>1, <2>2 DEF Restart, FreshPool, Fresh, Typed
<1>2. Fresh' => MInv'
  BY FreshPoolIsFine, PTL
<1> QED
  BY <1>1, <1>2

(* MInv only speaks of the state.                                           *)
LEMMA UnchangedStep == MInv /\ UNCHANGED vars => MInv'
<1> SUFFICES ASSUME MInv, UNCHANGED vars PROVE MInv'
  OBVIOUS
<1>0. Typed /\ Posting /\ Hands
  BY DEF MInv
<1>1. UNCHANGED <<conf, clock, q, pc, posting, entered, wpc, incoming, done, calls, toStop>>
  BY DEF vars, poolVars, workVars
<1>2. Typed'
  BY <1>0, <1>1, TypedQuiet DEF Typed
<1>3. Posting'
  BY <1>0, <1>1, PostingQuiet DEF Posting, Carrying, LoggerPlaces
<1>4. Hands'
  BY <1>0, <1>1, HandsQuiet
<1>5. PICK n \in 0..Len(Queue) : Ordered(n) /\ Counted(n) /\ Ending(n)
  BY DEF MInv
<1>6. n \in (0..Len(Queue))' /\ Ordered(n)' /\ Counted(n)'
  BY <1>1, <1>5, OrderQuiet
<1>7. Ending(n)'
  BY <1>0, <1>1, <1>5, EndingQuiet DEF Holders
<1> QED
  BY <1>2, <1>3, <1>4, <1>6, <1>7 DEF MInv

(* The invariant of the messages is inductive on its own.                   *)
LEMMA MessagesStep == MInv /\ [Next]_vars => MInv'
<1> SUFFICES ASSUME MInv, [Next]_vars PROVE MInv'
  OBVIOUS
<1>0. Main \in Posters /\ \A l \in Loggers : l \in Posters
  BY DEF Posters
<1>1. CASE UNCHANGED vars
  BY <1>1, UnchangedStep
<1>2. CASE Advance \/ Shutdown \/ Restart
  BY <1>2, AdvanceStep, ShutdownStep, RestartStep
<1>3. CASE MainThread
  BY <1>0, <1>3, OpenFirstStep, ConstructSinkStep, WaitForRoomStep, EnqueueStepOfMain, NotifyStep,
     TerminateNextStep, JoinStep DEF MainThread, Post
<1>4. ASSUME NEW l \in Loggers, Log(l) \/ Logger(l) PROVE MInv'
  BY <1>0, <1>4, StampStep, LockPoolStep, WaitForRoomStep, EnqueueStepOf, NotifyStep DEF Logger, Post
<1>5. ASSUME NEW w \in Workers, worker_loop(w) PROVE MInv'
  <2>1. CASE WaitForMessage(w) \/ WaitTimesOut(w) \/ NotifyRoom(w)
    BY <2>1, WorkerWaits
  <2>2. CASE Dequeue(w)
    BY <2>2, DequeueStep
  <2>3. CASE SinkIt(w) \/ WriteToNoFile(w)
    <3>1. Process(w, "log", "dequeue") /\ (pc' = pc \/ pc' = [p \in Posters |-> "crashed"])
      BY <2>3 DEF SinkIt, WriteToNoFile
    <3> QED
      BY <3>1, ProcessStep
  <2>4. CASE Flush(w)
    <3>1. Process(w, "flush", "dequeue") /\ pc' = pc
      BY <2>4 DEF Flush
    <3> QED
      BY <3>1, ProcessStep
  <2>5. CASE LeaveLoop(w)
    <3>1. Process(w, "terminate", "exited") /\ pc' = pc
      BY <2>5 DEF LeaveLoop
    <3> QED
      BY <3>1, ProcessStep
  <2> QED
    BY <1>5, <2>1, <2>2, <2>3, <2>4, <2>5 DEF worker_loop
<1> QED
  BY <1>1, <1>2, <1>3, <1>4, <1>5 DEF Next

(* The queue, by what entered it. *)
LEMMA QueuedEntered ==
    ASSUME Typed, Posting, NEW n \in 0..Len(Queue), Ordered(n)
    PROVE  /\ size(q) = Len(Queue)
           /\ Queued = {entered[k] : k \in (Left(n) + 1)..Len(entered)}
<1>1. Capacity \in Nat \ {0} /\ q \in Circular(Capacity, Slots)
  BY Configured, SMT DEF Typed, Capacity, Slots
<1>2. size(q) = Len(Queue)
  BY <1>1, ItemsTyped, Zenon DEF Queue
<1>3. /\ Len(Queue) \in Nat /\ Len(entered) \in Nat /\ Left(n) \in Nat
      /\ Left(n) + (Len(Queue) - n) = Len(entered)
      /\ \A k \in 1..Len(entered) : entered[k] \in 1..MaxCalls
  BY EachOnce
<1>4. /\ \A k \in 1..Len(Queue) : Queue[k] = Terminate <=> k > Len(Queue) - n
      /\ \A k \in 1..(Len(Queue) - n) : Queue[k].id = entered[Left(n) + k]
  BY DEF Ordered
<1>5. Queued = {i \in 1..MaxCalls : \E k \in 1..Len(Queue) : Queue[k].id = i}
  BY <1>2, Zenon DEF Queued, Queue
<1>6. \A k \in 1..Len(Queue) : Queue[k].id \in 1..MaxCalls =>
          k \in 1..(Len(Queue) - n) /\ Left(n) + k \in (Left(n) + 1)..Len(entered)
  <2> SUFFICES ASSUME NEW k \in 1..Len(Queue), Queue[k].id \in 1..MaxCalls
               PROVE  k \in 1..(Len(Queue) - n) /\ Left(n) + k \in (Left(n) + 1)..Len(entered)
    OBVIOUS
  <2>1. Queue[k] # Terminate
    BY Kinds, Configured DEF Typed
  <2>2. ~(k > Len(Queue) - n)
    BY <1>4, <2>1, Zenon
  <2> QED
    BY <1>3, <2>2
<1>7. \A j \in (Left(n) + 1)..Len(entered) :
          /\ j - Left(n) \in 1..(Len(Queue) - n) /\ j - Left(n) \in 1..Len(Queue)
          /\ j \in 1..Len(entered) /\ Left(n) + (j - Left(n)) = j
  BY <1>3
<1>8. \A i \in Queued : \E j \in (Left(n) + 1)..Len(entered) : i = entered[j]
  BY <1>4, <1>5, <1>6
<1>9. \A j \in (Left(n) + 1)..Len(entered) : entered[j] \in Queued
  BY <1>3, <1>4, <1>5, <1>7
<1> QED
  BY <1>2, <1>8, <1>9

(* Every message that entered is in the queue, in a hand, done or overrun.  *)
LEMMA Accounted == MInv => EveryMessageAccounted
<1> SUFFICES ASSUME MInv PROVE EveryMessageAccounted
  OBVIOUS
<1>0. Typed /\ Posting /\ Hands
  BY DEF MInv
<1>1. PICK n \in 0..Len(Queue) : Ordered(n) /\ Counted(n) /\ Ending(n)
  BY DEF MInv
<1> DEFINE past == {entered[k] : k \in 1..Left(n)}
<1>2. /\ size(q) = Len(Queue) /\ Queued = {entered[k] : k \in (Left(n) + 1)..Len(entered)}
  BY <1>0, <1>1, QueuedEntered
<1>3. /\ Len(Queue) \in Nat /\ Len(entered) \in Nat /\ Left(n) \in Nat
      /\ Left(n) + (Len(Queue) - n) = Len(entered)
      /\ \A i, j \in 1..Len(entered) : entered[i] = entered[j] => i = j
      /\ \A w \in Workers : incoming[w] \in Messages => \E i \in 1..Left(n) : entered[i] = incoming[w].id
      /\ \A d \in done : \E i \in 1..Left(n) : entered[i] = d
  BY <1>0, <1>1, EachOnce
<1>4. DOMAIN entered = 1..Len(entered)
  BY <1>0, LenProperties DEF Typed
<1>5. 1..Len(entered) = 1..Left(n) \cup (Left(n) + 1)..Len(entered)
  BY <1>3
<1>6. Entered = past \cup Queued
  BY <1>2, <1>4, <1>5 DEF Entered
<1>7. past \cap Queued = {}
  BY <1>2, <1>3, <1>5
<1>8. InHand = {incoming[w].id : w \in {v \in Workers : incoming[v] \in Messages}}
  BY <1>0, InHandTyped
<1>9. InHand \subseteq past /\ done \subseteq past
  BY <1>3, <1>8
<1>10. InHand \cap done = {}
  BY <1>0, <1>8 DEF Hands
<1>11. Lost(n) = past \ (InHand \cup done)
  BY DEF Lost
<1>12. /\ q.overrun_counter = Cardinality(Lost(n))
       /\ conf.policy = "block" => q.overrun_counter = 0
  BY <1>1 DEF Counted
<1>13. ASSUME pc[Main] = "gone" PROVE empty(q) /\ InHand = {} /\ Holders = {}
  <2>1. /\ toStop = 0 /\ \A w \in conf.workers : wpc[w] = "exited"
        /\ toStop + AboutToPost + n + Cardinality(Leaving) = Cardinality(conf.workers)
        /\ Leaving # {} => n = Len(Queue)
        /\ Holders # {} => pc[Main] \in {"up", "destroy"}
    BY <1>1, <1>13 DEF Ending
  <2>2. \A w \in Workers : incoming[w] = None
    BY <1>0, <2>1 DEF Hands
  <2>3. Leaving = conf.workers
    <3>1. \A w \in Workers : wpc[w] = "exited" <=> w \in conf.workers
      BY <1>0, <2>1 DEF Hands
    <3> QED
      BY <1>0, <2>2, <3>1, Kinds, Configured DEF Leaving, Typed
  <2>4. conf.workers # {} /\ Cardinality(conf.workers) \in Nat
    BY <1>0, Configured DEF Typed
  <2>5. n = 0 /\ n = Len(Queue)
    <3>1. AboutToPost = 0
      BY <1>13 DEF AboutToPost
    <3> QED
      BY <2>1, <2>3, <2>4, <3>1
  <2>6. empty(q)
    <3>1. size(q) = 0
      BY <1>2, <2>5
    <3>2. q.head \in 0..(Capacity - 1) /\ q.tail \in 0..(Capacity - 1) /\ q.max_items = Capacity /\ Capacity \in Nat
      BY <1>0, Configured, SMT DEF Typed, Circular, Capacity
    <3> QED
      BY <3>1, <3>2, SMT DEF size, empty
  <2>7. InHand = {}
    BY <1>8, <2>2, Kinds
  <2>8. Holders = {}
    BY <1>13, <2>1
  <2> QED
    BY <2>6, <2>7, <2>8
<1>14. Entered \ (Queued \cup InHand \cup done) = Lost(n) /\ (Queued \cup InHand \cup done) \subseteq Entered
       /\ Queued \cap InHand = {} /\ Queued \cap done = {}
  <2> HIDE DEF past
  <2> QED
    BY <1>6, <1>7, <1>9, <1>11
<1> QED
  BY <1>10, <1>12, <1>13, <1>14, Zenon DEF EveryMessageAccounted

(* What a worker holds entered before what is queued. *)
LEMMA Barrier == MInv => FlushIsABarrier
<1> SUFFICES ASSUME MInv, NEW w \in conf.workers, wpc[w] = "process", incoming[w].kind = "flush",
                    NEW i \in DOMAIN entered, NEW j \in DOMAIN entered,
                    i < j, entered[j] = incoming[w].id
             PROVE  entered[i] \notin Queued
  BY DEF FlushIsABarrier
<1>0. Typed /\ Posting /\ Hands
  BY DEF MInv
<1>1. PICK n \in 0..Len(Queue) : Ordered(n)
  BY DEF MInv
<1>2. Queued = {entered[k] : k \in (Left(n) + 1)..Len(entered)}
  BY <1>0, <1>1, QueuedEntered
<1>3. /\ Len(entered) \in Nat /\ Left(n) \in Nat /\ Left(n) <= Len(entered)
      /\ \A h, k \in 1..Len(entered) : entered[h] = entered[k] => h = k
      /\ \A v \in Workers : incoming[v] \in Messages => \E k \in 1..Left(n) : entered[k] = incoming[v].id
  <2>1. /\ Len(Queue) \in Nat /\ Len(entered) \in Nat /\ Left(n) \in Nat
        /\ Left(n) + (Len(Queue) - n) = Len(entered)
    BY <1>0, <1>1, EachOnce
  <2>2. Left(n) <= Len(entered)
    BY <2>1
  <2> QED
    BY <1>0, <1>1, <2>1, <2>2, EachOnce, Zenon
<1>4. DOMAIN entered = 1..Len(entered)
  BY <1>0, LenProperties DEF Typed
<1>5. w \in Workers /\ incoming[w] \in Messages
  <2>1. w \in Workers /\ incoming[w] \in Posted \cup {None}
    BY <1>0, Configured DEF Typed
  <2> QED
    BY <2>1, Kinds DEF Posted
<1>6. PICK k \in 1..Left(n) : entered[k] = entered[j]
  BY <1>3, <1>5
<1>7. j = k
  BY <1>3, <1>4, <1>6
<1> QED
  BY <1>2, <1>3, <1>4, <1>6, <1>7

-----------------------------------------------------------------------------
(* The inductive invariant of the sink *)

(* The messages on their way from a thread to the sink. *)
UnderWay ==
    {posting[l] : l \in {k \in Loggers : Carrying(k)}} \cup {Queue[k] : k \in 1..Len(Queue)}
      \cup {incoming[w] : w \in Workers}

Awaited == UnderWay \cap Messages

(* They were stamped in the order of their numbers, and not in the future.  *)
Stamped ==
    /\ \A m \in Awaited : m.id <= calls /\ m.time <= clock
    /\ \A m, k \in Awaited : m.id <= k.id => m.time <= k.time

Ready == pc[Main] \notin {"start", "opened"}

Sink(names) ==
    [open : BOOLEAN, file : Months, stamp : CalendarDays, late : BOOLEAN, rotation : Int,
     names : names, opened : Seq(Months)]

Sinks ==
    /\ \E names : sink \in Sink(names)
    /\ files \in [DOMAIN files -> SUBSET (1..MaxCalls)] /\ DOMAIN files \subseteq Months
    /\ sunk \subseteq [id : 1..MaxCalls, file : Months, month : Months, prompt : BOOLEAN]
    /\ sink.file <= MonthOf(clock)
    /\ pc[Main] = "opened" => sink.open

(* The rotation is due at the end of a month, and not before the end of the *)
(* month the file is named after.                                           *)
Rotation ==
    Ready => /\ RotatesAtTheTurn
             /\ sink.open => /\ MonthStart[sink.file + 1] <= sink.rotation
                             /\ ~sink.late => sink.rotation = MonthStart[sink.file + 1]

(* No rotation goes back to a file that was written to.                     *)
Sunk ==
    /\ ~Ready => sunk = {}
    /\ \A r \in sunk : /\ MonthStart[r.file + 1] <= sink.rotation
                       /\ r.file \in DOMAIN files => r.id \in files[r.file]
                       /\ r.prompt => r.file = r.month

(* The messages of a thread alone enter the queue in the order of their     *)
(* numbers.                                                                 *)
InSequence ==
    Cardinality(conf.loggers) = 1 =>
        /\ \A i, j \in DOMAIN entered : i < j => entered[i] < entered[j]
        /\ \A l \in Loggers, k \in DOMAIN entered : Carrying(l) => entered[k] < posting[l].id

Alone == Cardinality(conf.loggers) = 1 /\ Cardinality(conf.workers) = 1

(* After a failed open, none of them is too old to try again.               *)
Reopens ==
    Alone =>
        /\ pc[Main] # "crashed"
        /\ ~sink.open => /\ sink.rotation <= clock
                         /\ \A m \in Awaited : sink.rotation <= m.time

CarryOn == \A l \in Loggers : Carrying(l)' => Carrying(l) /\ posting'[l] = posting[l]

(* A step that brings nothing new on its way.                               *)
LEMMA AwaitedKept ==
    ASSUME CarryOn,
           \A k \in 1..Len(Queue') : Queue'[k] \in UnderWay \cup {Terminate},
           \A w \in Workers : incoming'[w] \in UnderWay \cup {None}
    PROVE  Awaited' \subseteq Awaited
<1>1. \A l \in Loggers : Carrying(l)' => posting'[l] \in UnderWay
  BY DEF CarryOn, UnderWay
<1>2. UnderWay' \subseteq UnderWay \cup {Terminate, None}
  BY <1>1, Zenon DEF UnderWay
<1> QED
  BY <1>2, Kinds DEF Awaited

(* A step that neither posts nor takes a message. *)
LEMMA AwaitedQuiet ==
    ASSUME CarryOn, UNCHANGED <<q, incoming>>
    PROVE  Awaited' \subseteq Awaited
<1>1. Queue' = Queue
  BY Zenon DEF Queue
<1>2. \A k \in 1..Len(Queue) : Queue[k] \in UnderWay
  BY DEF UnderWay
<1>3. \A w \in Workers : incoming[w] \in UnderWay
  BY DEF UnderWay
<1> QED
  BY <1>1, <1>2, <1>3, AwaitedKept

(* The message a thread stamps, and no other, is new. *)
LEMMA AwaitedStamped ==
    ASSUME Typed, NEW l \in Loggers, Log(l)
    PROVE  /\ \A m \in Awaited' : m \in Awaited \/ (m.id = calls' /\ m.time = clock)
           /\ calls' = calls + 1 /\ UNCHANGED <<conf, clock, entered, sinkVars>>
           /\ \A k \in Loggers : Carrying(k)' =>
                 \/ Carrying(k) /\ posting'[k] = posting[k]
                 \/ k = l /\ posting'[k].id = calls'
<1>0. l \in Posters /\ \A k \in Loggers : k \in Posters
  BY DEF Posters
<1>1. PICK kind \in conf.kinds : Stamp(l, kind)
  BY DEF Log
<1> DEFINE m == Msg(kind, calls', clock)
<1>2. /\ calls' = calls + 1 /\ posting' = [posting EXCEPT ![l] = m] /\ pc' = [pc EXCEPT ![l] = "stamped"]
      /\ UNCHANGED <<conf, clock, q, entered, incoming, sinkVars>>
  BY <1>1 DEF Stamp, workVars
<1>3. m.id = calls' /\ m.time = clock
  BY DEF Msg
<1> HIDE DEF m
<1>4. posting'[l] = m /\ \A k \in Loggers : k # l => posting'[k] = posting[k] /\ pc'[k] = pc[k]
  BY <1>0, <1>2 DEF Typed
<1>5. \A k \in Loggers : Carrying(k)' => (Carrying(k) /\ posting'[k] = posting[k]) \/ (k = l /\ posting'[k] = m)
  BY <1>4 DEF Carrying
<1>6. Queue' = Queue
  BY <1>2, Zenon DEF Queue
<1>7. UnderWay' \subseteq UnderWay \cup {m}
  BY <1>2, <1>5, <1>6, Zenon DEF UnderWay
<1>8. \A x \in Awaited' : x \in Awaited \/ x = m
  BY <1>7 DEF Awaited
<1> QED
  BY <1>2, <1>3, <1>5, <1>8

(* An enqueue moves a message from the thread to the queue.                 *)
LEMMA AwaitedEnqueued ==
    ASSUME MInv, MInv', NEW p \in Posters, Enqueue(p)
    PROVE  /\ Awaited' \subseteq Awaited /\ CarryOn /\ UNCHANGED <<conf, clock, calls, sinkVars>>
           /\ p \in Loggers => /\ Carrying(p) /\ entered' = Append(entered, posting[p].id)
                               /\ ~Carrying(p)' /\ pc'[Main] = pc[Main]
           /\ p = Main => entered' = entered /\ pc[Main] = "enqueue" /\ pc'[Main] = "notify"
<1>0. Typed /\ Posting /\ Main \in Posters /\ Main \notin Loggers /\ \A k \in Loggers : k \in Posters
  BY Configured DEF MInv, Typed, Posters
<1>1. /\ pc[p] = "enqueue" /\ pc' = [pc EXCEPT ![p] = "notify"]
      /\ entered' = IF p = Main THEN entered ELSE Append(entered, posting[p].id)
      /\ UNCHANGED <<conf, clock, posting, incoming, calls, sinkVars>>
  BY DEF Enqueue, workVars
<1>2. p \in Loggers => Carrying(p)
  BY <1>1 DEF Carrying
<1>3. posting[p] \in Posted /\ (p = Main => posting[p] = Terminate)
  BY <1>0, <1>2 DEF Posting, Posted, Posters
<1>4. /\ ~full(q) => Queue' = Append(Queue, posting[p])
      /\ full(q) => Queue # <<>> /\ Queue' = Append(Tail(Queue), posting[p])
  BY <1>0, <1>3, QueueAfterEnqueue
<1>5. posting[p] \in UnderWay \cup {Terminate}
  BY <1>2, <1>3 DEF UnderWay, Posters
<1>6. \A k \in 1..Len(Queue) : Queue[k] \in UnderWay
  BY DEF UnderWay
<1>7. Queue \in Seq(Posted)
  BY <1>0 DEF Typed
<1>8. \A k \in 1..Len(Queue') : Queue'[k] \in UnderWay \cup {Terminate}
  <2> HIDE DEF Queue
  <2>1. CASE ~full(q)
    <3> DEFINE s == Append(Queue, posting[p])
    <3>1. /\ Len(s) = Len(Queue) + 1 /\ Len(Queue) \in Nat
          /\ \A k \in 1..Len(Queue) : s[k] = Queue[k]
          /\ s[Len(Queue) + 1] = posting[p]
      BY <1>3, <1>7, Appended
    <3> HIDE DEF s
    <3>2. \A k \in 1..Len(s) : s[k] \in UnderWay \cup {Terminate}
      BY <1>5, <1>6, <3>1
    <3> QED
      BY <1>4, <2>1, <3>2, Zenon DEF s
  <2>2. CASE full(q)
    <3> DEFINE s == Append(Tail(Queue), posting[p])
    <3>1. /\ Len(s) = Len(Queue) /\ Len(Queue) \in Nat
          /\ \A k \in 1..(Len(Queue) - 1) : s[k] = Queue[k + 1]
          /\ s[Len(Queue)] = posting[p]
      BY <1>3, <1>4, <1>7, <2>2, ShiftedAndAppended, LenProperties
    <3> HIDE DEF s
    <3>2. \A k \in 1..Len(s) : s[k] \in UnderWay \cup {Terminate}
      BY <1>5, <1>6, <3>1
    <3> QED
      BY <1>4, <2>2, <3>2, Zenon DEF s
  <2> QED
    BY <2>1, <2>2
<1>9. pc'[p] = "notify" /\ \A r \in Posters : r # p => pc'[r] = pc[r]
  BY <1>0, <1>1, Goes DEF Places
<1>10. CarryOn
  BY <1>0, <1>1, <1>9 DEF CarryOn, Carrying
<1>11. Awaited' \subseteq Awaited
  <2>1. \A w \in Workers : incoming'[w] \in UnderWay
    BY <1>1 DEF UnderWay
  <2> QED
    BY <1>8, <1>10, <2>1, AwaitedKept
<1> QED
  BY <1>0, <1>1, <1>2, <1>9, <1>10, <1>11 DEF Carrying

(* A dequeue moves a message from the queue to a worker.                    *)
LEMMA AwaitedDequeued ==
    ASSUME MInv, NEW w \in Workers, Dequeue(w)
    PROVE  /\ Awaited' \subseteq Awaited /\ CarryOn
           /\ UNCHANGED <<conf, clock, pc, entered, calls, sinkVars>>
<1>0. Typed /\ Hands
  BY DEF MInv
<1>1. /\ Queue # <<>> /\ Len(Queue) \in Nat /\ Len(Queue) # 0
      /\ Len(Queue') = Len(Queue) - 1
      /\ \A k \in 1..(Len(Queue) - 1) : Queue'[k] = Queue[k + 1]
      /\ incoming'[w] = Queue[1] /\ \A v \in Workers : v # w => incoming'[v] = incoming[v]
      /\ UNCHANGED <<conf, clock, pc, posting, entered, calls>>
  BY <1>0, Taken
<1>2. CarryOn
  BY <1>1 DEF CarryOn, Carrying
<1>3. \A k \in 1..Len(Queue) : Queue[k] \in UnderWay
  BY DEF UnderWay
<1>4. \A v \in Workers : incoming[v] \in UnderWay
  BY DEF UnderWay
<1>5. \A k \in 1..(Len(Queue) - 1) : k + 1 \in 1..Len(Queue)
  BY <1>1, FirstOf, SMT
<1>6. 1 \in 1..Len(Queue)
  BY <1>1, SMT
<1>7. \A k \in 1..Len(Queue') : Queue'[k] \in UnderWay
  <2>1. \A k \in 1..(Len(Queue) - 1) : Queue'[k] \in UnderWay
    BY <1>1, <1>3, <1>5, Zenon
  <2> QED
    BY <1>1, <2>1, Zenon
<1>8. \A v \in Workers : incoming'[v] \in UnderWay
  BY <1>1, <1>3, <1>4, <1>6, Zenon
<1> QED
  BY <1>1, <1>2, <1>7, <1>8, AwaitedKept DEF Dequeue

(* A worker that is done with a message forgets it.                         *)
LEMMA AwaitedProcessed ==
    ASSUME MInv, NEW w \in Workers, NEW kind \in {"log", "flush", "terminate"},
           NEW next \in {"dequeue", "exited"}, Process(w, kind, next),
           pc' = pc \/ pc' = [p \in Posters |-> "crashed"]
    PROVE  Awaited' \subseteq Awaited /\ CarryOn /\ UNCHANGED <<conf, clock, entered, calls>>
<1>0. Typed /\ Hands /\ \A k \in Loggers : k \in Posters
  BY DEF MInv, Posters
<1>1. /\ incoming'[w] = None /\ \A v \in Workers : v # w => incoming'[v] = incoming[v]
      /\ UNCHANGED <<conf, clock, q, posting, entered, calls>>
  BY <1>0, Processed
<1>2. CarryOn
  BY <1>0, <1>1 DEF CarryOn, Carrying
<1>3. Queue' = Queue
  BY <1>1, Zenon DEF Queue
<1>4. /\ \A k \in 1..Len(Queue) : Queue[k] \in UnderWay
      /\ \A v \in Workers : incoming[v] \in UnderWay
  BY DEF UnderWay
<1>5. \A v \in Workers : incoming'[v] \in UnderWay \cup {None}
  BY <1>1, <1>4
<1> QED
  BY <1>1, <1>2, <1>3, <1>4, <1>5, AwaitedKept

(* A new program knows of no message.                                       *)
LEMMA AwaitedRestarted ==
    ASSUME MInv, Restart
    PROVE  /\ Awaited' = {} /\ \A l \in Loggers : ~Carrying(l)'
           /\ UNCHANGED <<conf, clock, files, sink, calls>>
           /\ entered' = <<>> /\ sunk' = {} /\ pc[Main] = "gone" /\ pc'[Main] = "start"
<1>0. Main \in Posters /\ Main \notin Loggers /\ (\A l \in Loggers : l \in Posters) /\ conf \in Configurations
  BY Configured DEF MInv, Typed, Posters
<1>1. /\ q' = circular_q(conf.queue_size)
      /\ pc' = [p \in Posters |-> IF p = Main THEN "start" ELSE "idle"]
      /\ incoming' = [w \in Workers |-> None]
      /\ entered' = <<>> /\ sunk' = {} /\ pc[Main] = "gone"
      /\ UNCHANGED <<conf, clock, files, sink, calls>>
  BY DEF Restart, FreshPool
<1>2. \A l \in Loggers : ~Carrying(l)'
  BY <1>0, <1>1 DEF Carrying
<1>3. Queue' = <<>>
  BY <1>0, <1>1, FreshTyped, Zenon DEF Queue
<1>4. \A k \in 1..Len(Queue') : FALSE
  BY <1>3
<1>5. UnderWay' \subseteq {None}
  BY <1>1, <1>2, <1>4 DEF UnderWay
<1>6. Awaited' = {}
  BY <1>5, Kinds DEF Awaited
<1> QED
  BY <1>0, <1>1, <1>2, <1>6

(* A step of Main that leaves the queue alone. *)
LEMMA MainCarriesNothing ==
    ASSUME MInv, NEW to, pc' = [pc EXCEPT ![Main] = to], UNCHANGED <<q, posting, incoming>>
    PROVE  Awaited' \subseteq Awaited /\ CarryOn
<1>1. Main \notin Loggers /\ (\A l \in Loggers : l \in Posters) /\ pc \in [Posters -> Places]
  BY Configured DEF MInv, Typed, Posters
<1>2. CarryOn
  BY <1>1 DEF CarryOn, Carrying
<1> QED
  BY <1>2, AwaitedQuiet

Onward == /\ Awaited' \subseteq Awaited /\ CarryOn /\ clock <= clock'
          /\ UNCHANGED <<conf, entered, calls>>

(* The clock shows a day of the calendar.                                   *)
LEMMA Today ==
    ASSUME Typed
    PROVE  clock \in CalendarDays /\ clock \in Nat
BY Configured DEF Typed, CalendarDays

(* The main thread brings no message to the sink.                           *)
LEMMA OnwardMain ==
    ASSUME MInv, OpenFirst \/ ConstructSink \/ TerminateNext \/ Join \/ Shutdown
    PROVE  Onward
<1>1. Typed
  BY DEF MInv
<1>2. /\ \E to : pc' = [pc EXCEPT ![Main] = to]
      /\ UNCHANGED <<conf, clock, q, entered, posting, incoming, calls>>
  <2>1. CASE OpenFirst
    BY <2>1 DEF OpenFirst, workVars
  <2>2. CASE ConstructSink
    BY <2>2 DEF ConstructSink, workVars
  <2>3. CASE TerminateNext
    BY <2>3, Zenon DEF TerminateNext, workVars
  <2>4. CASE Join
    BY <2>4 DEF Join, workVars
  <2>5. CASE Shutdown
    BY <2>5 DEF Shutdown, workVars
  <2> QED
    BY <2>1, <2>2, <2>3, <2>4, <2>5
<1>3. Awaited' \subseteq Awaited /\ CarryOn
  BY <1>2, MainCarriesNothing
<1>4. clock <= clock'
  BY <1>1, <1>2, Today
<1> QED
  BY <1>2, <1>3, <1>4 DEF Onward

(* A thread that waits, or tells a worker, brings no message.               *)
LEMMA OnwardPosting ==
    ASSUME MInv, NEW p \in Posters, WaitForRoom(p) \/ Notify(p) \/ LockPool(p)
    PROVE  Onward
<1>1. Typed /\ \A l \in Loggers : l \in Posters
  BY DEF MInv, Posters
<1>2. UNCHANGED <<conf, clock, q, entered, incoming, calls>>
  BY DEF WaitForRoom, Notify, LockPool, workVars
<1>3. CarryOn
  <2>1. CASE WaitForRoom(p)
    BY <1>1, <2>1 DEF WaitForRoom, CarryOn, Carrying, Typed
  <2>2. CASE Notify(p)
    <3>1. \A r \in Posters : r # p => pc'[r] = pc[r] /\ posting'[r] = posting[r]
      BY <1>1, <2>2 DEF Notify, Typed
    <3>2. pc'[p] \in {"destroy", "idle"}
      BY <1>1, <2>2 DEF Notify, Typed
    <3> QED
      BY <1>1, <3>1, <3>2 DEF CarryOn, Carrying
  <2>3. CASE LockPool(p)
    <3>1. \A r \in Posters : r # p => pc'[r] = pc[r] /\ posting'[r] = posting[r]
      BY <1>1, <2>3 DEF LockPool, Typed
    <3>2. pc[p] = "stamped" /\ (pc'[p] = "idle" \/ posting'[p] = posting[p])
      BY <1>1, <2>3 DEF LockPool, Typed
    <3> QED
      BY <1>1, <3>1, <3>2 DEF CarryOn, Carrying
  <2> QED
    BY <2>1, <2>2, <2>3
<1>4. Awaited' \subseteq Awaited
  BY <1>2, <1>3, AwaitedQuiet
<1>5. clock <= clock'
  BY <1>1, <1>2, Today
<1> QED
  BY <1>2, <1>3, <1>4, <1>5 DEF Onward

(* The workers only take messages and forget them.                          *)
LEMMA OnwardWorking ==
    ASSUME MInv, NEW w \in Workers, worker_loop(w)
    PROVE  Onward
<1>1. Typed /\ \A l \in Loggers : l \in Posters
  BY DEF MInv, Posters
<1>2. CASE WaitForMessage(w) \/ WaitTimesOut(w) \/ NotifyRoom(w)
  <2>1. UNCHANGED <<conf, clock, q, entered, posting, incoming, calls>>
    BY <1>2 DEF WaitForMessage, WaitTimesOut, NotifyRoom, poolVars
  <2>2. pc' = pc \/ \A r \in Posters : pc'[r] = pc[r] \/ (pc[r] = "waiting" /\ pc'[r] = "enqueue")
    BY <1>1, <1>2, RoomTold DEF WaitForMessage, WaitTimesOut, NotifyRoom, poolVars
  <2>3. CarryOn
    BY <1>1, <2>1, <2>2 DEF CarryOn, Carrying
  <2>4. Awaited' \subseteq Awaited /\ clock <= clock'
    BY <1>1, <2>1, <2>3, AwaitedQuiet, Today
  <2> QED
    BY <2>1, <2>3, <2>4 DEF Onward
<1>3. CASE Dequeue(w)
  BY <1>1, <1>3, AwaitedDequeued, Today DEF Onward
<1>4. ASSUME NEW kind \in {"log", "flush", "terminate"}, NEW next \in {"dequeue", "exited"},
             Process(w, kind, next), pc' = pc \/ pc' = [p \in Posters |-> "crashed"]
      PROVE  Onward
  BY <1>1, <1>4, AwaitedProcessed, Today DEF Onward
<1>5. CASE SinkIt(w) \/ WriteToNoFile(w) \/ Flush(w) \/ LeaveLoop(w)
  BY <1>4, <1>5 DEF SinkIt, WriteToNoFile, Flush, LeaveLoop
<1> QED
  BY <1>2, <1>3, <1>5 DEF worker_loop

(* So a step brings nothing new, except a thread that logs.                 *)
LEMMA Travels ==
    ASSUME MInv, MInv', [Next]_vars
    PROVE  \/ Onward
           \/ \E l \in Loggers : Log(l)
           \/ \E l \in Loggers : Enqueue(l)
           \/ Restart
<1>0. Typed /\ Main \in Posters /\ \A l \in Loggers : l \in Posters
  BY DEF MInv, Posters
<1>1. CASE UNCHANGED vars
  <2>1. UNCHANGED <<conf, clock, q, pc, posting, entered, incoming, calls>>
    BY <1>1 DEF vars, poolVars, workVars
  <2>2. CarryOn
    BY <2>1 DEF CarryOn, Carrying
  <2> QED
    BY <1>0, <2>1, <2>2, AwaitedQuiet, Today DEF Onward
<1>2. CASE Advance
  <2>1. UNCHANGED <<conf, q, pc, posting, entered, incoming, calls>>
    BY <1>2 DEF Advance, poolVars, workVars
  <2>2. CarryOn
    BY <2>1 DEF CarryOn, Carrying
  <2>3. clock <= clock'
    <3>1. clock' \in conf.days /\ clock' > clock
      BY <1>0, <1>2, NextDay DEF Typed
    <3>2. clock' \in Nat /\ clock \in Nat
      BY <1>0, <3>1, Configured DEF Typed, CalendarDays
    <3> QED
      BY <3>1, <3>2
  <2> QED
    BY <2>1, <2>2, <2>3, AwaitedQuiet DEF Onward
<1>3. ASSUME NEW p \in Posters, Post(p) PROVE Onward \/ (p \in Loggers /\ Enqueue(p))
  <2>1. CASE Enqueue(p)
    BY <1>0, <2>1, AwaitedEnqueued, Today DEF Onward, Posters
  <2> QED
    BY <1>3, <2>1, OnwardPosting DEF Post
<1>4. CASE Shutdown \/ MainThread
  BY <1>0, <1>3, <1>4, OnwardMain, Configured DEF MainThread, Typed
<1>5. ASSUME NEW l \in Loggers, Logger(l) PROVE Onward \/ Enqueue(l)
  BY <1>0, <1>3, <1>5, OnwardPosting DEF Logger
<1>6. ASSUME NEW w \in Workers, worker_loop(w) PROVE Onward
  BY <1>6, OnwardWorking
<1> QED
  BY <1>1, <1>2, <1>4, <1>5, <1>6 DEF Next

(* What is on its way has a number and a day.                               *)
LEMMA AwaitedTyped ==
    ASSUME Typed
    PROVE  \A m \in Awaited : m.id \in 1..MaxCalls /\ m.time \in CalendarDays /\ m.id \in Nat /\ m.time \in Nat
BY Kinds DEF Awaited, CalendarDays

(* The order of the stamps is kept: the clock never goes back.              *)
LEMMA StampedStep ==
    ASSUME MInv, MInv', Stamped, [Next]_vars
    PROVE  Stamped'
<1>0. Typed /\ Typed'
  BY DEF MInv
<1>1. /\ clock \in Nat /\ calls \in Nat
      /\ \A m \in Awaited : m.id \in Nat /\ m.time \in Nat
      /\ \A m \in Awaited : m.id <= calls /\ m.time <= clock
      /\ \A m, k \in Awaited : m.id <= k.id => m.time <= k.time
  BY <1>0, Today, AwaitedTyped DEF Stamped, Typed
<1>2. clock' \in Nat
  <2>1. conf' \in Configurations /\ clock' \in conf'.days
    BY <1>0 DEF Typed
  <2>2. \A c \in Configurations : c.days \subseteq Nat
    BY AsyncLoggerAssumption
  <2> QED
    BY <2>1, <2>2
<1>3. CASE Onward
  BY <1>1, <1>2, <1>3 DEF Onward, Stamped
<1>4. ASSUME NEW l \in Loggers, Log(l) PROVE Stamped'
  <2>1. /\ \A m \in Awaited' : m \in Awaited \/ (m.id = calls' /\ m.time = clock)
        /\ calls' = calls + 1 /\ clock' = clock
    BY <1>0, <1>4, AwaitedStamped
  <2> QED
    BY <1>1, <2>1 DEF Stamped
<1>5. ASSUME NEW l \in Loggers, Enqueue(l) PROVE Stamped'
  <2>1. Awaited' \subseteq Awaited /\ calls' = calls /\ clock' = clock
    BY <1>5, AwaitedEnqueued DEF Posters
  <2> QED
    BY <1>1, <2>1 DEF Stamped
<1>6. CASE Restart
  BY <1>6, AwaitedRestarted DEF Stamped
<1> QED
  BY <1>3, <1>4, <1>5, <1>6, Travels

(* There is one thread that logs.                                           *)
LEMMA OneLogger ==
    ASSUME Typed, Posting, Cardinality(conf.loggers) = 1,
           NEW l \in Loggers, NEW k \in Loggers, l \in conf.loggers, k \in conf.loggers
    PROVE  l = k
<1>1. IsFiniteSet(conf.loggers)
  BY AsyncLoggerAssumption, Configured, FS_Subset DEF Typed
<1> QED
  BY <1>1, FS_Singleton

(* Its messages enter in the order it stamped them in.                      *)
LEMMA InSequenceStep ==
    ASSUME MInv, MInv', InSequence, [Next]_vars
    PROVE  InSequence'
<1>0. Typed /\ Typed' /\ Posting /\ Posting'
  BY DEF MInv
<1>1. CASE Onward
  BY <1>1 DEF Onward, CarryOn, InSequence
<1>2. ASSUME NEW l \in Loggers, Log(l) PROVE InSequence'
  <2>1. /\ calls' = calls + 1 /\ UNCHANGED <<conf, entered>>
        /\ \A k \in Loggers : Carrying(k)' =>
              \/ Carrying(k) /\ posting'[k] = posting[k]
              \/ k = l /\ posting'[k].id = calls'
    BY <1>0, <1>2, AwaitedStamped
  <2>2. \A k \in DOMAIN entered : entered[k] < calls'
    <3>1. \A k \in DOMAIN entered : entered[k] \in Nat /\ entered[k] <= calls
      <4>1. \A k \in DOMAIN entered : entered[k] \in 1..MaxCalls
        BY <1>0, ElementOfSeq, LenProperties DEF Typed
      <4> QED
        BY <1>0, <4>1 DEF Posting
    <3>2. calls \in Nat
      BY <1>0, Configured DEF Typed
    <3> QED
      BY <2>1, <3>1, <3>2
  <2> QED
    BY <2>1, <2>2 DEF InSequence
<1>3. ASSUME NEW l \in Loggers, Enqueue(l) PROVE InSequence'
  <2>1. /\ CarryOn /\ conf' = conf /\ Carrying(l) /\ entered' = Append(entered, posting[l].id)
        /\ ~Carrying(l)'
    BY <1>3, AwaitedEnqueued DEF Posters
  <2> SUFFICES ASSUME Cardinality(conf.loggers) = 1 PROVE InSequence'
    BY <2>1 DEF InSequence
  <2>2. posting[l] \in Messages /\ l \in conf.loggers
    BY <1>0, <2>1 DEF Posting
  <2>3. \A k \in Loggers : ~Carrying(k)'
    <3> SUFFICES ASSUME NEW k \in Loggers, Carrying(k)' PROVE FALSE
      OBVIOUS
    <3>1. Carrying(k)
      BY <2>1 DEF CarryOn
    <3>2. k \in conf.loggers
      BY <1>0, <3>1 DEF Posting
    <3>3. k = l
      BY <1>0, <2>2, <3>2, OneLogger
    <3> QED
      BY <2>1, <3>3
  <2>4. /\ Len(entered') = Len(entered) + 1 /\ Len(entered) \in Nat
        /\ \A k \in 1..Len(entered) : entered'[k] = entered[k]
        /\ entered'[Len(entered) + 1] = posting[l].id
    BY <1>0, <2>1, <2>2, Kinds, Appended DEF Typed
  <2>5. DOMAIN entered = 1..Len(entered) /\ DOMAIN entered' = 1..Len(entered')
    BY <1>0, LenProperties DEF Typed
  <2>6. /\ \A i, j \in 1..Len(entered) : i < j => entered[i] < entered[j]
        /\ \A i \in 1..Len(entered) : entered[i] < posting[l].id
    BY <2>1, <2>5 DEF InSequence
  <2>7. \A i, j \in 1..Len(entered') : i < j => entered'[i] < entered'[j]
    <3> SUFFICES ASSUME NEW i \in 1..Len(entered'), NEW j \in 1..Len(entered'), i < j
                 PROVE  entered'[i] < entered'[j]
      OBVIOUS
    <3>1. i \in 1..Len(entered) /\ (j = Len(entered) + 1 \/ j \in 1..Len(entered))
      BY <2>4
    <3> QED
      BY <2>4, <2>6, <3>1
  <2> QED
    BY <2>3, <2>5, <2>7 DEF InSequence
<1>4. CASE Restart
  <2>1. entered' = <<>> /\ \A l \in Loggers : ~Carrying(l)'
    BY <1>4, AwaitedRestarted
  <2>2. DOMAIN entered' = {}
    BY <2>1
  <2> QED
    BY <2>1, <2>2 DEF InSequence
<1> QED
  BY <1>1, <1>2, <1>3, <1>4, Travels

-----------------------------------------------------------------------------
(* The directory *)

Directory(f) == f \in [DOMAIN f -> SUBSET (1..MaxCalls)] /\ DOMAIN f \subseteq Months

(* g is f with another file of this name, or less some files, or with more  *)
(* in them.                                                                 *)
Kept(f, g, name) ==
    \A m \in DOMAIN g : m # name => m \in DOMAIN f /\ f[m] \subseteq g[m]

(* Opening a file makes it, and touches no other.                           *)
LEMMA OpenedFile ==
    ASSUME NEW f, Directory(f), NEW name \in Months, NEW truncate
    PROVE  /\ Directory(Opened(f, name, truncate)) /\ Kept(f, Opened(f, name, truncate), name)
           /\ name \in DOMAIN Opened(f, name, truncate)
BY DEF Directory, Kept, Opened

(* Removing a file touches no other.                                        *)
LEMMA RemovedFile ==
    ASSUME NEW f, Directory(f), NEW other, NEW name
    PROVE  /\ Directory(Removed(f, other)) /\ Kept(f, Removed(f, other), name)
           /\ \A m \in DOMAIN Removed(f, other) : m \in DOMAIN f /\ Removed(f, other)[m] = f[m]
BY DEF Directory, Kept, Removed

(* Writing to a file adds to it alone.                                      *)
LEMMA WrittenFile ==
    ASSUME NEW f, Directory(f), NEW other, NEW name, NEW id \in 1..MaxCalls
    PROVE  /\ Directory(Written(f, other, id)) /\ Kept(f, Written(f, other, id), name)
           /\ other \in DOMAIN Written(f, other, id) => id \in Written(f, other, id)[other]
           /\ DOMAIN Written(f, other, id) = DOMAIN f
           /\ \A m \in DOMAIN f : f[m] \subseteq Written(f, other, id)[m]
<1>1. CASE other \in DOMAIN f
  <2>1. Written(f, other, id) = [f EXCEPT ![other] = @ \cup {id}]
    BY <1>1 DEF Written
  <2> QED
    BY <1>1, <2>1 DEF Directory, Kept
<1>2. CASE other \notin DOMAIN f
  BY <1>2 DEF Written, Kept, Directory
<1> QED
  BY <1>1, <1>2

(* What two such steps in a row keep, they keep together.                   *)
LEMMA KeptOn ==
    ASSUME NEW f, NEW g, NEW h, NEW name, Kept(f, g, name), Kept(g, h, name)
    PROVE  Kept(f, h, name)
BY DEF Kept

(* A rotation keeps what is in the other files, as long as they exist.      *)
LEMMA RotatedFiles ==
    ASSUME Directory(files), NEW m \in Messages, MonthOf(m.time) \in Months, Rotate(m)
    PROVE  /\ Directory(files') /\ Kept(files, files', MonthOf(m.time))
           /\ MonthOf(m.time) \in DOMAIN files' => m.id \in files'[MonthOf(m.time)]
<1> DEFINE name   == MonthOf(m.time)
           opened == Opened(files, name, conf.truncate)
           kept   == IF conf.periodical THEN Removed(opened, MonthOf(before_7_month(m.time))) ELSE opened
           fresh  == Written(kept, name, m.id)
           old    == delete_old(fresh, sink.names, name)
<1>1. files' = IF conf.max_files > 0 THEN old.files ELSE fresh
  BY Zenon DEF Rotate
<1>2. m.id \in 1..MaxCalls
  BY Kinds
<1> HIDE DEF name
<1>3. Directory(opened) /\ Kept(files, opened, name)
  BY OpenedFile DEF name
<1>4. Directory(kept) /\ Kept(files, kept, name)
  <2>1. CASE conf.periodical
    <3>1. kept = Removed(opened, MonthOf(before_7_month(m.time)))
      BY <2>1
    <3> HIDE DEF opened, kept
    <3>2. Directory(kept) /\ Kept(opened, kept, name)
      BY <1>3, <3>1, RemovedFile
    <3> QED
      BY <1>3, <3>2, KeptOn
  <2>2. CASE ~conf.periodical
    BY <1>3, <2>2
  <2> QED
    BY <2>1, <2>2
<1> HIDE DEF kept
<1>5. /\ Directory(fresh) /\ Kept(files, fresh, name)
      /\ name \in DOMAIN fresh => m.id \in fresh[name]
  <2>1. Kept(kept, fresh, name) /\ Directory(fresh) /\ (name \in DOMAIN fresh => m.id \in fresh[name])
    BY <1>2, <1>4, WrittenFile
  <2> HIDE DEF fresh
  <2> QED
    BY <1>4, <2>1, KeptOn
<1> HIDE DEF fresh
<1>6. old.files = fresh \/ \E other : old.files = Removed(fresh, other)
  BY DEF delete_old
<1> HIDE DEF old
<1>7. CASE files' = fresh
  BY <1>5, <1>7 DEF name
<1>8. CASE \E other : files' = Removed(fresh, other)
  <2>1. PICK other : files' = Removed(fresh, other)
    BY <1>8
  <2>2. /\ Directory(files') /\ Kept(fresh, files', name)
        /\ \A k \in DOMAIN files' : k \in DOMAIN fresh /\ files'[k] = fresh[k]
    BY <1>5, <2>1, RemovedFile
  <2>3. Kept(files, files', name)
    BY <1>5, <2>2, KeptOn
  <2> QED
    BY <1>5, <2>2, <2>3 DEF name
<1> QED
  BY <1>1, <1>6, <1>7, <1>8

-----------------------------------------------------------------------------
(* The months *)

(* What a day tells of the beginnings of the months. *)
LEMMA DayAndMonth ==
    ASSUME NEW t \in CalendarDays, NEW m \in Months, m + 1 \in Calendar
    PROVE  /\ t < MonthStart[m + 1] => MonthOf(t) <= m
           /\ MonthStart[m + 1] <= t => m < MonthOf(t)
<1> USE FileSinkAssumption
<1> DEFINE a == MonthOf(t)
<1>1. /\ a \in Months /\ a + 1 \in Months /\ MonthStart[a] <= t /\ t < MonthStart[a + 1]
  BY MonthOfDay
<1>2. a \in Int /\ m \in Int /\ a \in Calendar /\ a + 1 \in Calendar /\ t \in Int
  BY <1>1 DEF Months, Calendar, CalendarDays
<1>3. MonthStart[a] \in Int /\ MonthStart[a + 1] \in Int /\ MonthStart[m + 1] \in Int
  BY <1>2, MonthBegins
<1> HIDE DEF a
<1>4. ASSUME t < MonthStart[m + 1] PROVE a <= m
  <2> SUFFICES ASSUME m < a PROVE FALSE
    BY <1>2
  <2>1. m + 1 = a \/ m + 1 < a
    BY <1>2
  <2>2. m + 1 < a => MonthStart[m + 1] < MonthStart[a]
    BY <1>2, MonthsInOrder
  <2> QED
    BY <1>1, <1>2, <1>3, <1>4, <2>1, <2>2
<1>5. ASSUME MonthStart[m + 1] <= t PROVE m < a
  <2> SUFFICES ASSUME a <= m PROVE FALSE
    BY <1>2
  <2>1. a + 1 = m + 1 \/ a + 1 < m + 1
    BY <1>2
  <2>2. a + 1 < m + 1 => MonthStart[a + 1] < MonthStart[m + 1]
    BY <1>2, MonthsInOrder
  <2> QED
    BY <1>1, <1>2, <1>3, <1>5, <2>1, <2>2
<1> QED
  BY <1>4, <1>5 DEF a

(* Months in order begin in order.                                          *)
LEMMA StartsInOrder ==
    ASSUME NEW a \in Calendar, NEW b \in Calendar, a <= b
    PROVE  MonthStart[a] <= MonthStart[b]
<1>1. MonthStart[a] \in Int /\ MonthStart[b] \in Int /\ a \in Int /\ b \in Int
  BY MonthBegins, FileSinkAssumption DEF Calendar
<1>2. a = b \/ a < b
  BY <1>1
<1> QED
  BY <1>1, <1>2, MonthsInOrder

(* Months are numbers, of the calendar, as are the days they begin on.      *)
LEMMA MonthsTyped ==
    \A m \in Months : /\ m \in Int /\ m \in Calendar /\ m + 1 \in Calendar /\ MonthStart[m] \in Int
                      /\ MonthStart[m + 1] \in Int
<1>1. \A m \in Months : m \in Int /\ m \in Calendar /\ m + 1 \in Calendar
  BY FileSinkAssumption DEF Months, Calendar
<1> QED
  BY <1>1, MonthBegins

(* The rotation that is set is not before the one that was due.             *)
LEMMA RotationsGoOn ==
    ASSUME Typed, Ready, RotatesAtTheTurn
    PROVE  /\ sink.rotation \in Int
           /\ sink.rotation <= next_rotation_tp(clock)
           /\ next_rotation_tp(clock) = MonthStart[MonthOf(clock) + 1]
           /\ MonthOf(clock) + 1 \in Months
           /\ next_rotation_tp(clock) \in Int
<1>1. clock \in CalendarDays
  BY Today
<1>2. PICK m \in Months : sink.rotation = MonthStart[m] /\ m <= MonthOf(clock) + 1
  BY DEF RotatesAtTheTurn, Ready
<1>3. MonthOf(clock) + 1 \in Months /\ next_rotation_tp(clock) = MonthStart[MonthOf(clock) + 1]
  BY <1>1, MonthOfDay, RotationAtTheTurn
<1>4. MonthStart[m] <= MonthStart[MonthOf(clock) + 1]
  BY <1>2, <1>3, MonthsTyped, StartsInOrder
<1> QED
  BY <1>2, <1>3, <1>4, MonthsTyped

(* A message is logged once the sink is made. *)
LEMMA LogTaken ==
    ASSUME MInv, NEW w \in Workers, Process(w, "log", "dequeue")
    PROVE  /\ Ready /\ incoming[w] \in Messages /\ incoming[w] \in Awaited
           /\ UNCHANGED <<conf, clock>> /\ wpc[w] = "process"
<1>0. Typed /\ Posting /\ Hands
  BY DEF MInv
<1>1. incoming[w] \in Messages /\ UNCHANGED <<conf, clock>> /\ wpc[w] = "process"
  BY <1>0, Processed
<1>2. PICK n \in 0..Len(Queue) : Ordered(n) /\ Ending(n)
  BY DEF MInv
<1>3. /\ Len(Queue) \in Nat /\ Left(n) + (Len(Queue) - n) = Len(entered) /\ Left(n) \in Nat
      /\ \A v \in Workers : incoming[v] \in Messages => \E i \in 1..Left(n) : entered[i] = incoming[v].id
  BY <1>0, <1>2, EachOnce
<1>4. entered # <<>>
  <2> SUFFICES ASSUME entered = <<>> PROVE FALSE
    OBVIOUS
  <2>1. Len(entered) = 0
    OBVIOUS
  <2>2. Left(n) = 0
    BY <1>3, <2>1
  <2> QED
    BY <1>1, <1>3, <2>2
<1>5. Ready
  BY <1>2, <1>4 DEF Ending, Ready
<1>6. incoming[w] \in Awaited
  BY <1>1 DEF Awaited, UnderWay
<1> QED
  BY <1>1, <1>5, <1>6

Aside ==
    /\ UNCHANGED <<conf, sinkVars>> /\ (Ready' <=> Ready)
    /\ pc'[Main] = "opened" => pc[Main] = "opened"
    /\ pc'[Main] = "crashed" => pc[Main] = "crashed" \/ \E w \in Workers : WriteToNoFile(w)

(* The steps that do not touch the sink. *)
LEMMA OtherSteps ==
    ASSUME MInv, [Next]_vars
    PROVE  \/ OpenFirst \/ ConstructSink \/ Restart
           \/ \E w \in Workers : SinkIt(w)
           \/ Aside
<1>0. /\ Typed /\ Main \in Posters /\ Main \notin Loggers /\ \A l \in Loggers : l \in Posters
      /\ pc \in [Posters -> Places]
  BY Configured DEF MInv, Typed, Posters
<1>1. ASSUME UNCHANGED <<conf, sinkVars>>,
             pc'[Main] = pc[Main] \/ {pc[Main], pc'[Main]} \cap {"start", "opened", "crashed"} = {}
      PROVE  Aside
  BY <1>1 DEF Aside, Ready
<1>2. CASE UNCHANGED vars
  BY <1>1, <1>2 DEF vars, poolVars
<1>3. CASE Advance
  BY <1>1, <1>3 DEF Advance, poolVars
<1>4. ASSUME NEW p \in Posters, Post(p) PROVE Aside
  <2>1. CASE WaitForRoom(p)
    BY <1>0, <1>1, <2>1 DEF WaitForRoom
  <2>2. CASE Enqueue(p)
    BY <1>0, <1>1, <2>2 DEF Enqueue
  <2>3. CASE Notify(p)
    <3>1. pc[p] = "notify" /\ UNCHANGED <<conf, sinkVars>>
          /\ pc' = [pc EXCEPT ![p] = IF p = Main THEN "destroy" ELSE "idle"]
      BY <2>3 DEF Notify
    <3> QED
      BY <1>0, <1>1, <3>1
  <2> QED
    BY <1>4, <2>1, <2>2, <2>3 DEF Post
<1>5. CASE Shutdown
  BY <1>0, <1>1, <1>5 DEF Shutdown
<1>6. CASE MainThread
  <2>1. CASE Post(Main)
    BY <1>0, <1>4, <2>1
  <2>2. CASE TerminateNext
    BY <1>0, <1>1, <2>2 DEF TerminateNext
  <2>3. CASE Join
    BY <1>0, <1>1, <2>3 DEF Join
  <2> QED
    BY <1>6, <2>1, <2>2, <2>3 DEF MainThread
<1>7. ASSUME NEW l \in Loggers, Log(l) \/ Logger(l) PROVE Aside
  <2>1. CASE Log(l)
    BY <1>0, <1>1, <2>1 DEF Log, Stamp
  <2>2. CASE LockPool(l)
    BY <1>0, <1>1, <2>2 DEF LockPool
  <2> QED
    BY <1>0, <1>4, <1>7, <2>1, <2>2 DEF Logger
<1>8. ASSUME NEW w \in Workers, worker_loop(w) PROVE SinkIt(w) \/ Aside
  <2>1. CASE WaitForMessage(w) \/ WaitTimesOut(w)
    BY <1>1, <2>1 DEF WaitForMessage, WaitTimesOut, poolVars
  <2>2. CASE Dequeue(w)
    BY <1>1, <2>2 DEF Dequeue
  <2>3. CASE NotifyRoom(w)
    <3>1. \A r \in Posters : pc'[r] = pc[r] \/ (pc[r] = "waiting" /\ pc'[r] = "enqueue")
      BY <1>0, <2>3, RoomTold DEF NotifyRoom
    <3> QED
      BY <1>0, <1>1, <2>3, <3>1 DEF NotifyRoom
  <2>4. CASE Flush(w) \/ LeaveLoop(w)
    BY <1>1, <2>4 DEF Flush, LeaveLoop, Process
  <2>5. CASE WriteToNoFile(w)
    <3>1. Process(w, "log", "dequeue") /\ pc'[Main] = "crashed" /\ UNCHANGED sinkVars
      BY <1>0, <2>5 DEF WriteToNoFile
    <3>2. Ready /\ UNCHANGED conf
      BY <3>1, LogTaken
    <3> QED
      BY <2>5, <3>1, <3>2 DEF Aside, Ready
  <2> QED
    BY <1>8, <2>1, <2>2, <2>3, <2>4, <2>5 DEF worker_loop
<1> QED
  BY <1>2, <1>3, <1>5, <1>6, <1>7, <1>8 DEF Next

(* A message on its way was stamped before, or now.                         *)
LEMMA AwaitedTimes ==
    ASSUME MInv, MInv', [Next]_vars
    PROVE  /\ conf' = conf /\ clock <= clock'
           /\ \A m \in Awaited' : m \in Awaited \/ m.time = clock
<1>0. Typed
  BY DEF MInv
<1>1. CASE Onward
  BY <1>1 DEF Onward
<1>2. ASSUME NEW l \in Loggers, Log(l)
      PROVE  conf' = conf /\ clock <= clock' /\ \A m \in Awaited' : m \in Awaited \/ m.time = clock
  BY <1>0, <1>2, AwaitedStamped, Today
<1>3. ASSUME NEW l \in Loggers, Enqueue(l)
      PROVE  conf' = conf /\ clock <= clock' /\ \A m \in Awaited' : m \in Awaited \/ m.time = clock
  BY <1>0, <1>3, AwaitedEnqueued, Today DEF Posters
<1>4. CASE Restart
  BY <1>0, <1>4, AwaitedRestarted, Today
<1> QED
  BY <1>1, <1>2, <1>3, <1>4, Travels

(* Of what is under way, a thread alone has taken the oldest. *)
LEMMA OldestInHand ==
    ASSUME MInv, InSequence, Stamped, Alone, NEW w \in Workers, incoming[w] \in Messages,
           wpc[w] = "process"
    PROVE  \A m \in Awaited : incoming[w].time <= m.time
<1>0. Typed /\ Posting /\ Hands
  BY DEF MInv
<1>1. PICK n \in 0..Len(Queue) : Ordered(n)
  BY DEF MInv
<1>2. /\ Len(Queue) \in Nat /\ Left(n) + (Len(Queue) - n) = Len(entered) /\ Left(n) \in Nat
      /\ Len(entered) \in Nat
      /\ \A k \in 1..Len(entered) : entered[k] \in 1..MaxCalls
      /\ \A v \in Workers : incoming[v] \in Messages => \E i \in 1..Left(n) : entered[i] = incoming[v].id
  BY <1>0, <1>1, EachOnce
<1>3. PICK i \in 1..Left(n) : entered[i] = incoming[w].id
  BY <1>2
<1>4. DOMAIN entered = 1..Len(entered)
  BY <1>0, LenProperties DEF Typed
<1>5. /\ \A j, k \in 1..Len(entered) : j < k => entered[j] < entered[k]
      /\ \A l \in Loggers, k \in 1..Len(entered) : Carrying(l) => entered[k] < posting[l].id
  BY <1>4 DEF InSequence, Alone
<1>6. i \in 1..Len(entered)
  BY <1>2
<1>7. incoming[w] \in Awaited
  BY DEF Awaited, UnderWay
<1>8. \A m \in Awaited : incoming[w].id <= m.id
  <2> SUFFICES ASSUME NEW m \in Awaited PROVE incoming[w].id <= m.id
    OBVIOUS
  <2>0. incoming[w].id \in Nat /\ m.id \in Nat /\ m \in Messages /\ m \in UnderWay
    BY <1>0, <1>7, AwaitedTyped DEF Awaited
  <2>1. CASE \E l \in Loggers : Carrying(l) /\ m = posting[l]
    BY <1>3, <1>5, <1>6, <2>0, <2>1
  <2>2. ASSUME NEW k \in 1..Len(Queue), m = Queue[k] PROVE incoming[w].id <= m.id
    <3>1. m # Terminate
      BY <2>0, Kinds
    <3>2. ~(k > Len(Queue) - n)
      BY <1>1, <2>2, <3>1 DEF Ordered
    <3>3. k \in 1..(Len(Queue) - n)
      BY <1>2, <3>2
    <3>4. m.id = entered[Left(n) + k]
      BY <1>1, <2>2, <3>3 DEF Ordered
    <3>5. Left(n) + k \in 1..Len(entered) /\ i < Left(n) + k
      BY <1>2, <3>3
    <3>6. entered[i] < entered[Left(n) + k]
      BY <1>5, <1>6, <3>5
    <3> QED
      BY <1>3, <2>0, <3>4, <3>6
  <2>3. ASSUME NEW v \in Workers, m = incoming[v] PROVE incoming[w].id <= m.id
    <3>1. v \in conf.workers /\ w \in conf.workers
      BY <1>0, <2>0, <2>3, Kinds DEF Hands
    <3>2. IsFiniteSet(conf.workers)
      BY <1>0, Configured DEF Typed
    <3>3. v = w
      BY <3>1, <3>2, FS_Singleton DEF Alone
    <3> QED
      BY <2>0, <2>3, <3>3
  <2> QED
    BY <2>0, <2>1, <2>2, <2>3, Zenon DEF UnderWay
<1> QED
  BY <1>7, <1>8 DEF Stamped

OfSink == Sinks /\ Rotation /\ Sunk

(* The clock and its month go forward.                                      *)
LEMMA ClockTyped ==
    ASSUME MInv, MInv', clock <= clock'
    PROVE  /\ clock \in CalendarDays /\ clock' \in CalendarDays
           /\ MonthOf(clock) \in Months /\ MonthOf(clock') \in Months
           /\ MonthOf(clock) <= MonthOf(clock')
<1>1. clock \in CalendarDays
  BY Today DEF MInv
<1>2. clock' \in CalendarDays
  <2>1. conf' \in Configurations /\ clock' \in conf'.days
    BY DEF MInv, Typed
  <2>2. \A c \in Configurations : c.days \subseteq CalendarDays
    BY AsyncLoggerAssumption DEF CalendarDays
  <2> QED
    BY <2>1, <2>2
<1> QED
  BY <1>1, <1>2, MonthOfDay, DaysInOrder

(* A step aside of the sink keeps what is said of it: time only passes.     *)
LEMMA AsideStep ==
    ASSUME MInv, MInv', OfSink, Aside, clock <= clock'
    PROVE  OfSink'
<1>1. /\ MonthOf(clock) \in Months /\ MonthOf(clock') \in Months
      /\ MonthOf(clock) <= MonthOf(clock')
  BY ClockTyped
<1>2. UNCHANGED <<files, sink, sunk>> /\ (Ready' <=> Ready) /\ (pc'[Main] = "opened" => pc[Main] = "opened")
  BY DEF Aside, sinkVars
<1>3. Sinks'
  <2>1. PICK names : sink \in Sink(names)
    BY DEF OfSink, Sinks
  <2>2. sink' \in Sink(names)
    BY <1>2, <2>1
  <2>3. sink.file \in Months /\ sink.file <= MonthOf(clock)
    BY <2>1 DEF Sink, OfSink, Sinks
  <2>4. sink.file <= MonthOf(clock')
    BY <1>1, <2>3, MonthsTyped
  <2> QED
    BY <1>2, <2>2, <2>4 DEF Sinks, OfSink
<1>4. Rotation'
  <2> SUFFICES ASSUME Ready PROVE Rotation'
    BY <1>2 DEF Rotation
  <2>1. PICK m \in Months : sink.rotation = MonthStart[m] /\ m <= MonthOf(clock) + 1
    BY DEF OfSink, Rotation, RotatesAtTheTurn, Ready
  <2>2. m <= MonthOf(clock') + 1
    BY <1>1, <2>1, MonthsTyped
  <2>3. RotatesAtTheTurn'
    BY <1>2, <2>1, <2>2 DEF RotatesAtTheTurn
  <2> QED
    BY <1>2, <2>3 DEF OfSink, Rotation
<1>5. Sunk'
  BY <1>2 DEF OfSink, Sunk
<1> QED
  BY <1>3, <1>4, <1>5 DEF OfSink

(* The constructor's first file is the month's, and opened.                 *)
LEMMA OpenFirstSinks ==
    ASSUME MInv, OfSink, OpenFirst
    PROVE  OfSink'
<1>0. Typed /\ Main \in Posters
  BY DEF MInv, Posters
<1>1. /\ pc[Main] = "start" /\ pc'[Main] = "opened"
      /\ files' = Opened(files, MonthOf(clock), conf.truncate)
      /\ sink' = NewSink(clock) /\ UNCHANGED <<clock, sunk>>
  BY <1>0 DEF OpenFirst, Typed
<1>2. clock \in CalendarDays /\ MonthOf(clock) \in Months
  BY <1>0, Today, MonthOfDay
<1>3. Directory(files') 
  BY <1>1, <1>2, OpenedFile DEF OfSink, Sinks, Directory
<1>4. sink' \in Sink({circular_q(0)})
  BY <1>1, <1>2 DEF Sink, NewSink
<1>5. sink'.file <= MonthOf(clock') /\ sink'.open
  BY <1>1, <1>2, MonthsTyped DEF NewSink
<1>6. Sinks'
  BY <1>1, <1>3, <1>4, <1>5 DEF OfSink, Sinks, Directory
<1>7. ~Ready /\ ~Ready'
  BY <1>1 DEF Ready
<1>8. sunk' = {}
  BY <1>1, <1>7 DEF OfSink, Sunk
<1> QED
  BY <1>6, <1>7, <1>8 DEF OfSink, Rotation, Sunk

(* The constructor computes when to rotate: at the end of that month.       *)
LEMMA ConstructSinkSinks ==
    ASSUME MInv, OfSink, ConstructSink
    PROVE  OfSink'
<1>0. Typed /\ Main \in Posters
  BY DEF MInv, Posters
<1> DEFINE names == IF conf.max_files > 0 THEN init_filenames_q(files, conf.max_files, clock)
                                          ELSE circular_q(0)
<1>1. /\ pc[Main] = "opened" /\ pc'[Main] = "up"
      /\ sink' = [sink EXCEPT !.rotation = next_rotation_tp(clock),
                              !.late = MonthOf(clock) # sink.file, !.names = names]
      /\ files' = files \/ \E other : files' = Removed(files, other)
      /\ UNCHANGED <<clock, sunk>>
  <2>1. /\ pc[Main] = "opened" /\ pc'[Main] = "up" /\ UNCHANGED <<clock, sunk>>
    BY <1>0 DEF ConstructSink, Typed
  <2>2. sink' = [sink EXCEPT !.rotation = next_rotation_tp(clock),
                             !.late = MonthOf(clock) # sink.file, !.names = names]
    BY Zenon DEF ConstructSink
  <2>3. files' = files \/ \E other : files' = Removed(files, other)
    BY Zenon DEF ConstructSink
  <2> QED
    BY <2>1, <2>2, <2>3
<1> HIDE DEF names
<1>2. clock \in CalendarDays /\ MonthOf(clock) \in Months /\ MonthOf(clock) + 1 \in Months
      /\ next_rotation_tp(clock) = MonthStart[MonthOf(clock) + 1] /\ next_rotation_tp(clock) \in Int
  BY <1>0, Today, MonthOfDay, RotationAtTheTurn
<1>3. PICK old : sink \in Sink(old)
  BY DEF OfSink, Sinks
<1>4. /\ sink.file \in Months /\ sink.file <= MonthOf(clock) /\ sink.open
      /\ sunk = {} /\ Directory(files)
  BY <1>1, <1>3 DEF OfSink, Sinks, Sink, Sunk, Ready, Directory
<1>5. sink' \in Sink({names})
  BY <1>1, <1>2, <1>3 DEF Sink
<1>6. /\ sink'.file = sink.file /\ sink'.open /\ sink'.rotation = MonthStart[MonthOf(clock) + 1]
      /\ sink'.late = (MonthOf(clock) # sink.file)
  BY <1>1, <1>2, <1>3, <1>4 DEF Sink
<1>7. Directory(files')
  BY <1>1, <1>4, RemovedFile
<1>8. Sinks'
  BY <1>1, <1>4, <1>5, <1>6, <1>7 DEF OfSink, Sinks, Directory
<1>9. Rotation'
  <2>1. RotatesAtTheTurn'
    BY <1>1, <1>2, <1>6, MonthsTyped DEF RotatesAtTheTurn
  <2>2. MonthStart[sink.file + 1] <= MonthStart[MonthOf(clock) + 1]
    BY <1>2, <1>4, MonthsTyped, StartsInOrder
  <2> QED
    BY <1>1, <1>2, <1>6, <2>1, <2>2 DEF Rotation
<1>10. Sunk'
  BY <1>1, <1>4 DEF Sunk
<1> QED
  BY <1>8, <1>9, <1>10 DEF OfSink

(* Another program finds the files as they are.                             *)
LEMMA RestartSinks ==
    ASSUME MInv, OfSink, Restart
    PROVE  OfSink'
<1>1. UNCHANGED <<clock, files, sink>> /\ sunk' = {} /\ pc'[Main] = "start"
  BY AwaitedRestarted
<1> QED
  BY <1>1 DEF OfSink, Sinks, Rotation, Sunk, Ready

(* A rotation that cannot open its file leaves the sink closed, due again.  *)
LEMMA RotationFailsSinks ==
    ASSUME MInv, OfSink, Ready, NEW m \in Messages, m.time <= clock, RotationFails(m),
           UNCHANGED <<conf, clock, pc>>
    PROVE  OfSink'
<1>1. /\ sink' = [sink EXCEPT !.open = FALSE, !.file = MonthOf(m.time)]
      /\ UNCHANGED <<files, sunk>>
  BY DEF RotationFails
<1>2. /\ MonthOf(m.time) \in Months /\ MonthOf(m.time) <= MonthOf(clock)
  BY Today, MonthOfDay, DaysInOrder, Kinds DEF MInv
<1>3. PICK names : sink \in Sink(names)
  BY DEF OfSink, Sinks
<1>4. /\ sink' \in Sink(names) /\ sink'.file = MonthOf(m.time) /\ ~sink'.open
      /\ sink'.rotation = sink.rotation
  BY <1>1, <1>2, <1>3 DEF Sink
<1>5. Ready'
  BY DEF Ready
<1>6. Sinks'
  BY <1>1, <1>2, <1>4, <1>5 DEF OfSink, Sinks, Ready
<1>7. Rotation'
  BY <1>4 DEF OfSink, Rotation, RotatesAtTheTurn, Ready
<1>8. Sunk'
  BY <1>1, <1>4, <1>5 DEF OfSink, Sunk
<1> QED
  BY <1>6, <1>7, <1>8 DEF OfSink

(* A message before the rotation is due goes to the open file of its month, *)
(* or of a later one.                                                       *)
LEMMA WriteSinks ==
    ASSUME MInv, OfSink, Ready, NEW m \in Messages, m.time <= clock, Write(m),
           UNCHANGED <<conf, clock, pc>>
    PROVE  OfSink'
<1>1. /\ ~(m.time >= sink.rotation) /\ sink.open
      /\ files' = Written(files, sink.file, m.id) /\ sink' = sink
      /\ sunk' = sunk \cup {Record(m)}
  BY DEF Write, Rotates
<1>2. PICK names : sink \in Sink(names)
  BY DEF OfSink, Sinks
<1>3. sink.file \in Months /\ sink.rotation \in Int /\ sink.file <= MonthOf(clock)
  BY <1>2 DEF Sink, OfSink, Sinks
<1>4. m.id \in 1..MaxCalls /\ m.time \in CalendarDays /\ m.time \in Int
  BY Kinds DEF CalendarDays
<1>5. /\ MonthOf(m.time) \in Months /\ MonthOf(m.time) <= MonthOf(clock) /\ MonthOf(clock) \in Months
  BY <1>4, Today, MonthOfDay, DaysInOrder DEF MInv
<1>6. /\ Directory(files') /\ DOMAIN files' = DOMAIN files
      /\ \A f \in DOMAIN files : files[f] \subseteq files'[f]
      /\ sink.file \in DOMAIN files' => m.id \in files'[sink.file]
  <2>1. Directory(files)
    BY DEF OfSink, Sinks, Directory
  <2> QED
    BY <1>1, <1>4, <2>1, WrittenFile
<1>7. Ready'
  BY DEF Ready
<1>8. Record(m) = [id |-> m.id, file |-> sink.file, month |-> MonthOf(m.time),
                   prompt |-> MonthOf(m.time) = MonthOf(clock) /\ ~sink.late]
  BY <1>1 DEF Record
<1>9. /\ MonthStart[sink.file + 1] <= sink.rotation
      /\ ~sink.late => sink.rotation = MonthStart[sink.file + 1]
  BY <1>1 DEF OfSink, Rotation
<1>10. MonthOf(m.time) = MonthOf(clock) /\ ~sink.late => sink.file = MonthOf(m.time)
  <2> SUFFICES ASSUME MonthOf(m.time) = MonthOf(clock), ~sink.late PROVE sink.file = MonthOf(m.time)
    OBVIOUS
  <2>1. m.time < MonthStart[sink.file + 1]
    BY <1>1, <1>3, <1>4, <1>9
  <2>2. MonthOf(m.time) <= sink.file
    BY <1>3, <1>4, <2>1, DayAndMonth, MonthsTyped
  <2> QED
    BY <1>3, <1>5, <2>2, MonthsTyped
<1>11. Sinks'
  <2>1. Record(m) \in [id : 1..MaxCalls, file : Months, month : Months, prompt : BOOLEAN]
    <3> DEFINE p == MonthOf(m.time) = MonthOf(clock) /\ ~sink.late
    <3>1. p \in BOOLEAN
      OBVIOUS
    <3>2. Record(m) = [id |-> m.id, file |-> sink.file, month |-> MonthOf(m.time), prompt |-> p]
      BY <1>8, Zenon
    <3> HIDE DEF p
    <3> QED
      BY <1>3, <1>4, <1>5, <3>1, <3>2
  <2> QED
    BY <1>1, <1>2, <1>3, <1>6, <1>7, <2>1 DEF OfSink, Sinks, Directory, Ready
<1>12. Rotation'
  BY <1>1 DEF OfSink, Rotation, RotatesAtTheTurn, Ready
<1>13. Sunk'
  <2> SUFFICES ASSUME NEW r \in sunk \cup {Record(m)}
               PROVE  /\ MonthStart[r.file + 1] <= sink.rotation
                      /\ r.file \in DOMAIN files' => r.id \in files'[r.file]
                      /\ r.prompt => r.file = r.month
    BY <1>1, <1>7 DEF Sunk
  <2>1. CASE r \in sunk
    BY <1>6, <2>1 DEF OfSink, Sunk
  <2>2. CASE r = Record(m)
    <3>1. r.id = m.id /\ r.file = sink.file /\ r.month = MonthOf(m.time)
      BY <1>8, <2>2
    <3>2. r.prompt => MonthOf(m.time) = MonthOf(clock) /\ ~sink.late
      <4>1. Record(m).prompt = (MonthOf(m.time) = MonthOf(clock) /\ ~sink'.late)
        BY Zenon DEF Record
      <4> QED
        BY <1>1, <2>2, <4>1, Zenon
    <3>3. r.prompt => r.file = r.month
      BY <1>10, <3>1, <3>2
    <3>4. r.file \in DOMAIN files' => r.id \in files'[r.file]
      BY <1>6, <3>1, Zenon
    <3> QED
      BY <1>9, <3>1, <3>3, <3>4, Zenon
  <2> QED
    BY <2>1, <2>2
<1> QED
  BY <1>11, <1>12, <1>13 DEF OfSink

(* A rotation opens the file of the message's month, and is next due at     *)
(* that month's end.                                                        *)
LEMMA RotateSinks ==
    ASSUME MInv, OfSink, Ready, NEW m \in Messages, m.time <= clock, Rotate(m),
           UNCHANGED <<conf, clock, pc>>
    PROVE  OfSink' /\ sink'.open
<1> DEFINE name  == MonthOf(m.time)
           late  == MonthOf(clock) # name
           names == IF conf.max_files > 0
                    THEN delete_old(Written(IF conf.periodical
                                            THEN Removed(Opened(files, name, conf.truncate), MonthOf(before_7_month(m.time)))
                                            ELSE Opened(files, name, conf.truncate), name, m.id),
                                    sink.names, name).names
                    ELSE sink.names
<1>0. Typed
  BY DEF MInv
<1>1. /\ m.time >= sink.rotation
      /\ sink' = [open |-> TRUE, file |-> name, stamp |-> m.time, late |-> late,
                  rotation |-> next_rotation_tp(clock), names |-> names,
                  opened |-> Append(sink.opened, name)]
      /\ sunk' = sunk \cup {Record(m)}
  BY Zenon DEF Rotate, Rotates
<1>2. m.id \in 1..MaxCalls /\ m.time \in CalendarDays /\ m.time \in Int /\ clock \in CalendarDays
  BY <1>0, Kinds, Today DEF CalendarDays
<1>3. /\ MonthOf(m.time) \in Months /\ MonthOf(m.time) <= MonthOf(clock) /\ MonthOf(clock) \in Months
      /\ m.time < MonthStart[MonthOf(m.time) + 1]
  BY <1>2, MonthOfDay, DaysInOrder
<1>4. PICK old : sink \in Sink(old)
  BY DEF OfSink, Sinks
<1>5. /\ sink.rotation \in Int
      /\ sink.rotation <= next_rotation_tp(clock)
      /\ next_rotation_tp(clock) = MonthStart[MonthOf(clock) + 1]
      /\ MonthOf(clock) + 1 \in Months
      /\ next_rotation_tp(clock) \in Int
  BY <1>0, RotationsGoOn DEF OfSink, Rotation
<1>6. /\ Directory(files') /\ Kept(files, files', name)
      /\ name \in DOMAIN files' => m.id \in files'[name]
  <2>1. Directory(files)
    BY DEF OfSink, Sinks, Directory
  <2> QED
    BY <1>3, <2>1, RotatedFiles
<1>l. late \in BOOLEAN /\ (late = (MonthOf(clock) # name))
  OBVIOUS
<1> HIDE DEF late, names
<1>7. /\ sink'.open /\ sink'.file = name /\ sink'.late = late
      /\ sink'.rotation = next_rotation_tp(clock)
  BY <1>1
<1> HIDE DEF name
<1>n. name = MonthOf(m.time)
  BY DEF name
<1>8. sink' \in Sink({names})
  <2>1. Append(sink.opened, name) \in Seq(Months)
    BY <1>3, <1>4, <1>n DEF Sink
  <2> QED
    BY <1>1, <1>2, <1>3, <1>5, <1>l, <1>n, <2>1 DEF Sink
<1>9. Ready'
  BY DEF Ready
<1>10. MonthStart[name + 1] <= sink'.rotation
  BY <1>3, <1>5, <1>7, <1>n, MonthsTyped, StartsInOrder
<1> DEFINE p == MonthOf(m.time) = MonthOf(clock) /\ ~sink'.late
<1>11. Record(m) = [id |-> m.id, file |-> name, month |-> name, prompt |-> p] /\ p \in BOOLEAN
  BY <1>7, <1>n, Zenon DEF Record
<1> HIDE DEF p
<1>12. Sinks'
  <2>1. Record(m) \in [id : 1..MaxCalls, file : Months, month : Months, prompt : BOOLEAN]
    BY <1>2, <1>3, <1>11, <1>n
  <2>2. sink'.file <= MonthOf(clock')
    BY <1>3, <1>7, <1>n
  <2> QED
    BY <1>1, <1>6, <1>7, <1>8, <2>1, <2>2 DEF OfSink, Sinks, Directory
<1>13. Rotation'
  <2>1. RotatesAtTheTurn'
    BY <1>5, <1>7, MonthOfDay, <1>2, MonthsTyped DEF RotatesAtTheTurn
  <2>2. ~late => sink'.rotation = MonthStart[name + 1]
    BY <1>5, <1>7, <1>l, <1>n
  <2> QED
    BY <1>7, <1>10, <2>1, <2>2 DEF Rotation
<1>14. Sunk'
  <2> SUFFICES ASSUME NEW r \in sunk \cup {Record(m)}
               PROVE  /\ MonthStart[r.file + 1] <= sink'.rotation
                      /\ r.file \in DOMAIN files' => r.id \in files'[r.file]
                      /\ r.prompt => r.file = r.month
    BY <1>1, <1>9 DEF Sunk
  <2>1. CASE r \in sunk
    <3>1. r.file \in Months
      BY <2>1 DEF OfSink, Sinks
    <3>2. /\ MonthStart[r.file + 1] <= sink.rotation
          /\ r.file \in DOMAIN files => r.id \in files[r.file]
          /\ r.prompt => r.file = r.month
      BY <2>1 DEF OfSink, Sunk
    <3>3. MonthStart[r.file + 1] <= m.time /\ MonthStart[r.file + 1] <= sink'.rotation
      BY <1>1, <1>2, <1>5, <1>7, <3>1, <3>2, MonthsTyped
    <3>4. r.file < name
      BY <1>2, <1>n, <3>1, <3>3, DayAndMonth, MonthsTyped
    <3>5. r.file # name
      BY <1>3, <1>n, <3>1, <3>4, MonthsTyped
    <3>6. r.file \in DOMAIN files' => r.id \in files'[r.file]
      BY <1>6, <3>2, <3>5 DEF Kept
    <3> QED
      BY <3>2, <3>3, <3>6
  <2>2. CASE r = Record(m)
    <3>1. r.id = m.id /\ r.file = name /\ r.month = name
      BY <1>11, <2>2
    <3> QED
      BY <1>6, <1>10, <3>1
  <2> QED
    BY <2>1, <2>2
<1> QED
  BY <1>7, <1>12, <1>13, <1>14 DEF OfSink

(* So each message a worker sinks.                                          *)
LEMMA SinkItSinks ==
    ASSUME MInv, OfSink, Stamped, NEW w \in Workers, SinkIt(w)
    PROVE  OfSink'
<1> DEFINE m == incoming[w]
<1>1. /\ Process(w, "log", "dequeue") /\ pc' = pc
      /\ RotationFails(m) \/ Rotate(m) \/ Write(m)
  BY DEF SinkIt
<1>2. Ready /\ m \in Messages /\ m \in Awaited /\ UNCHANGED <<conf, clock>>
  BY <1>1, LogTaken
<1>3. m.time <= clock
  BY <1>2 DEF Stamped
<1> HIDE DEF m
<1> QED
  BY <1>1, <1>2, <1>3, RotationFailsSinks, RotateSinks, WriteSinks

(* What is said of the sink is an invariant, given that of the messages and *)
(* their stamps.                                                            *)
LEMMA OfSinkStep ==
    ASSUME MInv, MInv', OfSink, Stamped, [Next]_vars
    PROVE  OfSink'
<1>1. clock <= clock'
  BY AwaitedTimes
<1> QED
  BY <1>1, OtherSteps, AsideStep, OpenFirstSinks, ConstructSinkSinks, RestartSinks, SinkItSinks

-----------------------------------------------------------------------------
(* A thread alone *)

(* The steps that leave the file and its rotation alone, or end with the    *)
(* file open.                                                               *)
LEMMA ReopensKept ==
    ASSUME MInv, MInv', OfSink, Reopens, [Next]_vars,
           sink'.open \/ (sink'.open = sink.open /\ sink'.rotation = sink.rotation),
           pc'[Main] = "crashed" => pc[Main] = "crashed"
    PROVE  Reopens'
<1>1. /\ conf' = conf /\ clock <= clock'
      /\ \A m \in Awaited' : m \in Awaited \/ m.time = clock
  BY AwaitedTimes
<1>2. clock \in Int /\ clock' \in Int
  BY <1>1, ClockTyped DEF CalendarDays
<1>3. sink.rotation \in Int
  BY DEF OfSink, Sinks, Sink
<1> QED
  BY <1>1, <1>2, <1>3 DEF Reopens, Alone

(* With one thread and one worker, a failed rotation is tried again by the  *)
(* very next message.                                                       *)
LEMMA ReopensStep ==
    ASSUME MInv, MInv', OfSink, Stamped, InSequence, Reopens, [Next]_vars
    PROVE  Reopens'
<1>0. Typed /\ Main \in Posters /\ pc \in [Posters -> Places]
  BY DEF MInv, Posters, Typed
<1>1. CASE OpenFirst
  <2>1. sink'.open /\ pc'[Main] = "opened"
    BY <1>0, <1>1 DEF OpenFirst, NewSink
  <2> QED
    BY <2>1, ReopensKept
<1>2. CASE ConstructSink
  <2>1. pc[Main] = "opened" /\ pc'[Main] = "up"
    BY <1>0, <1>2 DEF ConstructSink
  <2>2. PICK names : sink \in Sink(names)
    BY DEF OfSink, Sinks
  <2>3. \E a, b, c : sink' = [sink EXCEPT !.rotation = a, !.late = b, !.names = c]
    BY <1>2, Zenon DEF ConstructSink
  <2>4. sink'.open = sink.open
    BY <2>2, <2>3 DEF Sink
  <2>5. sink'.open
    BY <2>1, <2>4 DEF OfSink, Sinks
  <2> QED
    BY <2>1, <2>5, ReopensKept
<1>3. CASE Restart
  BY <1>3, AwaitedRestarted, ReopensKept
<1>4. ASSUME NEW w \in Workers, SinkIt(w) PROVE Reopens'
  <2> DEFINE m == incoming[w]
  <2>1. /\ Process(w, "log", "dequeue") /\ pc' = pc
        /\ RotationFails(m) \/ Rotate(m) \/ Write(m)
    BY <1>4 DEF SinkIt
  <2>2. Ready /\ m \in Messages /\ m \in Awaited /\ UNCHANGED <<conf, clock>> /\ wpc[w] = "process"
    BY <2>1, LogTaken
  <2>3. m.time <= clock
    BY <2>2 DEF Stamped
  <2>4. CASE RotationFails(m)
    <3>1. m.time >= sink.rotation
      BY <2>4 DEF RotationFails, Rotates
    <3>2. sink'.rotation = sink.rotation /\ sink.rotation \in Int
      BY <2>4 DEF RotationFails, OfSink, Sinks, Sink
    <3>3. Alone => \A k \in Awaited : m.time <= k.time
      BY <2>2, OldestInHand
    <3>4. \A k \in Awaited : k.time \in Int
      BY <1>0, AwaitedTyped
    <3>5. \A k \in Awaited' : k \in Awaited \/ k.time = clock
      BY AwaitedTimes
    <3>6. clock \in Int
      BY <1>0, Today
    <3> QED
      BY <2>1, <2>2, <2>3, <3>1, <3>2, <3>3, <3>4, <3>5, <3>6 DEF Reopens, Alone
  <2>5. CASE Rotate(m)
    <3> HIDE DEF m
    <3>1. sink'.open
      BY <2>1, <2>2, <2>3, <2>5, RotateSinks
    <3> QED
      BY <2>1, <3>1, ReopensKept
  <2>6. CASE Write(m)
    BY <2>1, <2>6, ReopensKept DEF Write
  <2> QED
    BY <2>1, <2>4, <2>5, <2>6
<1>5. CASE Aside
  <2>1. ASSUME Alone, NEW w \in Workers, WriteToNoFile(w) PROVE FALSE
    <3>1. /\ Process(w, "log", "dequeue") /\ ~(incoming[w].time >= sink.rotation) /\ ~sink.open
      BY <2>1 DEF WriteToNoFile, Rotates
    <3>2. incoming[w] \in Awaited
      BY <3>1, LogTaken
    <3>3. sink.rotation <= incoming[w].time
      BY <2>1, <3>1, <3>2 DEF Reopens
    <3>4. sink.rotation \in Int /\ incoming[w].time \in Int
      BY <1>0, <3>2, AwaitedTyped DEF OfSink, Sinks, Sink
    <3> QED
      BY <3>1, <3>3, <3>4
  <2>2. CASE Alone
    BY <1>5, <2>1, <2>2, ReopensKept DEF Aside, sinkVars
  <2>3. CASE ~Alone
    BY <1>5, <2>3 DEF Aside, Reopens, Alone
  <2> QED
    BY <2>2, <2>3
<1> QED
  BY <1>1, <1>2, <1>3, <1>4, <1>5, OtherSteps

IInv == MInv /\ Stamped /\ OfSink /\ InSequence /\ Reopens

(* The whole invariant holds of the program as it starts.                   *)
LEMMA InvariantInit == Init => IInv
<1> SUFFICES ASSUME Init PROVE IInv
  OBVIOUS
<1>0. MInv /\ Typed /\ Main \in Posters /\ Main \notin Loggers /\ \A l \in Loggers : l \in Posters
  BY InitStep, Configured DEF MInv, Typed, Posters
<1>1. /\ pc[Main] = "start" /\ \A l \in Loggers : pc[l] = "idle"
      /\ q = circular_q(conf.queue_size) /\ \A w \in Workers : incoming[w] = None
      /\ entered = <<>> /\ sunk = {} /\ sink = NewSink(clock)
      /\ files = [m \in conf.existing |-> {}]
  BY <1>0 DEF Init
<1>2. \A l \in Loggers : ~Carrying(l)
  BY <1>1 DEF Carrying
<1>3. Queue = <<>>
  BY <1>0, <1>1, FreshTyped, Zenon DEF Queue, Typed
<1>4. Awaited = {}
  <2>1. \A k \in 1..Len(Queue) : FALSE
    BY <1>3
  <2>2. UnderWay \subseteq {None}
    BY <1>1, <1>2, <2>1 DEF UnderWay
  <2> QED
    BY <2>2, Kinds DEF Awaited
<1>5. Stamped
  BY <1>4 DEF Stamped
<1>6. clock \in CalendarDays /\ MonthOf(clock) \in Months /\ conf.existing \subseteq Months
  BY <1>0, Today, MonthOfDay, Configured DEF Typed
<1>7. sink \in Sink({circular_q(0)}) /\ sink.open /\ sink.file = MonthOf(clock)
  BY <1>1, <1>6 DEF Sink, NewSink
<1>8. Sinks
  <2>1. files \in [DOMAIN files -> SUBSET (1..MaxCalls)] /\ DOMAIN files \subseteq Months
    BY <1>1, <1>6
  <2> QED
    BY <1>1, <1>6, <1>7, <2>1, MonthsTyped DEF Sinks
<1>9. Rotation /\ Sunk
  BY <1>1 DEF Rotation, Sunk, Ready
<1>10. InSequence
  <2>1. DOMAIN entered = {}
    BY <1>1
  <2> QED
    BY <1>2, <2>1 DEF InSequence
<1>11. Reopens
  BY <1>1, <1>7 DEF Reopens
<1> QED
  BY <1>0, <1>5, <1>8, <1>9, <1>10, <1>11 DEF IInv, OfSink

(* Each step keeps the whole invariant.                                     *)
LEMMA InvariantStep == IInv /\ [Next]_vars => IInv'
<1> SUFFICES ASSUME IInv, [Next]_vars PROVE IInv'
  OBVIOUS
<1>1. MInv /\ MInv'
  BY MessagesStep DEF IInv
<1>2. Stamped'
  BY <1>1, StampedStep DEF IInv
<1>3. OfSink'
  BY <1>1, OfSinkStep DEF IInv
<1>4. InSequence'
  BY <1>1, InSequenceStep DEF IInv
<1>5. Reopens'
  BY <1>1, ReopensStep DEF IInv
<1> QED
  BY <1>1, <1>2, <1>3, <1>4, <1>5 DEF IInv

(* IInv is an inductive invariant of every configuration: any queue,        *)
(* policy, number of threads, workers, days and files.                      *)
THEOREM Invariant == Spec => []IInv
BY InvariantInit, InvariantStep, PTL DEF Spec

(* Every variable stays in its type: the queue a circular queue over what   *)
(* was posted, the sink's file a month, its rotation a day.                 *)
THEOREM TypeCorrect == Spec => []TypeOK
<1>1. IInv => TypeOK
  <2> SUFFICES ASSUME IInv PROVE TypeOK
    OBVIOUS
  <2>1. Typed /\ Sinks
    BY DEF IInv, MInv, OfSink
  <2>2. q.head \in 0..conf.queue_size /\ q.tail \in 0..conf.queue_size
    <3>1. conf.queue_size \in Nat /\ q.head \in 0..((conf.queue_size + 1) - 1)
          /\ q.tail \in 0..((conf.queue_size + 1) - 1)
      BY <2>1, Configured DEF Typed, Circular
    <3> QED
      BY <3>1
  <2>3. sink.file \in Months /\ sink.open \in BOOLEAN
    <3>1. PICK names : sink \in Sink(names)
      BY <2>1 DEF Sinks
    <3> QED
      BY <3>1 DEF Sink
  <2>4. calls \in 0..MaxCalls
    <3>1. conf.calls \in 0..MaxCalls /\ calls \in 0..conf.calls /\ MaxCalls \in Nat
      BY <2>1, Configured DEF Typed
    <3> QED
      BY <3>1
  <2>5. toStop \in 0..Cardinality(Workers)
    <3>1. /\ toStop \in 0..Cardinality(conf.workers) /\ conf.workers \subseteq Workers
          /\ IsFiniteSet(Workers) /\ Cardinality(conf.workers) \in Nat
      BY <2>1, Configured DEF Typed
    <3>2. Cardinality(conf.workers) <= Cardinality(Workers) /\ Cardinality(Workers) \in Nat
      BY <3>1, FS_Subset, FS_CardinalityType
    <3> QED
      BY <3>1, <3>2
  <2> QED
    BY <2>1, <2>2, <2>3, <2>4, <2>5 DEF TypeOK, Typed, Sinks, WorkerPlaces
<1> QED
  BY <1>1, Invariant, PTL

(* No message is lost or handled twice: each that entered the queue is in   *)
(* it, with one worker, done, or overrun and counted, and under block none  *)
(* is overrun.                                                              *)
THEOREM MessagesAccounted == Spec => []EveryMessageAccounted
<1>1. IInv => EveryMessageAccounted
  BY Accounted DEF IInv
<1> QED
  BY <1>1, Invariant, PTL

(* In a pool of one thread a flush is a barrier: when it is handled, no     *)
(* message that entered before it is still queued.                          *)
THEOREM FlushWaits == Spec => []FlushIsABarrier
<1>1. IInv => FlushIsABarrier
  BY Barrier DEF IInv
<1> QED
  BY <1>1, Invariant, PTL

(* A message that is handled in the month it was stamped in goes to the     *)
(* file of that month, and stays in it as long as the file exists; the      *)
(* rotation is due at the end of a month.                                   *)
THEOREM RightFiles == Spec => []MessagesInTheirFiles
<1>1. IInv => MessagesInTheirFiles
  BY DEF IInv, OfSink, Rotation, Sunk, Ready, MessagesInTheirFiles, RotatesAtTheTurn,
         PromptMessageInItsFile, NothingOverwritten
<1> QED
  BY <1>1, Invariant, PTL

(* One thread with one worker never writes to a closed file.                *)
THEOREM OpenFileWritten == Spec => []WritesToAnOpenFile
<1>1. IInv => WritesToAnOpenFile
  BY DEF IInv, Reopens, Alone, WritesToAnOpenFile
<1> QED
  BY <1>1, Invariant, PTL
-----------------------------------------------------------------------------
(* The queue implements BoundedQueue *)

SameQueue == UNCHANGED <<conf, q>>

(* A sequence is what came before its last element. *)
LEMMA Prefix ==
    ASSUME NEW S, NEW s \in Seq(S), NEW e \in S
    PROVE  Len(Append(s, e)) = Len(s) + 1 /\ SubSeq(Append(s, e), 1, Len(s)) = s
<1> DEFINE a == Append(s, e)
<1>1. /\ a \in Seq(S) /\ Len(a) = Len(s) + 1 /\ Len(s) \in Nat
      /\ \A i \in 1..Len(s) : a[i] = s[i] /\ a[i] \in S
  BY AppendProperties, LenProperties, ElementOfSeq
<1> HIDE DEF a
<1> DEFINE p == SubSeq(a, 1, Len(s))
<1>2. p \in Seq(S) /\ Len(p) = Len(s) /\ \A i \in 1..Len(s) : p[i] = a[i]
  BY <1>1, SubSeqProperties
<1> HIDE DEF p
<1>3. p = s
  BY <1>1, <1>2, SeqEqual
<1> QED
  BY <1>1, <1>3 DEF a, p

(* Every step but Enqueue, Dequeue and Restart leaves the queue alone. *)
LEMMA QueueAside ==
    ASSUME [Next]_vars
    PROVE  \/ SameQueue \/ Restart
           \/ \E p \in Posters : Enqueue(p)
           \/ \E w \in Workers : Dequeue(w)
<1> USE DEF SameQueue, poolVars, workVars, sinkVars
<1>1. CASE UNCHANGED vars
  BY <1>1 DEF vars
<1>2. CASE Advance
  BY <1>2 DEF Advance
<1>3. CASE Shutdown
  BY <1>3 DEF Shutdown
<1>5. ASSUME NEW p \in Posters, Post(p) PROVE SameQueue \/ Enqueue(p)
  <2>1. CASE WaitForRoom(p)
    BY <2>1 DEF WaitForRoom
  <2>2. CASE Notify(p)
    BY <2>2 DEF Notify
  <2> QED
    BY <1>5, <2>1, <2>2 DEF Post
<1>6. CASE MainThread
  <2>1. CASE OpenFirst
    BY <2>1 DEF OpenFirst
  <2>2. CASE ConstructSink
    BY <2>2 DEF ConstructSink
  <2>3. CASE Post(Main)
    BY <2>3, <1>5 DEF Posters
  <2>4. CASE TerminateNext
    BY <2>4 DEF TerminateNext
  <2>5. CASE Join
    BY <2>5 DEF Join
  <2> QED
    BY <1>6, <2>1, <2>2, <2>3, <2>4, <2>5 DEF MainThread
<1>7. ASSUME NEW l \in Loggers, Log(l) \/ Logger(l) PROVE SameQueue \/ Enqueue(l)
  <2>1. CASE Log(l)
    BY <2>1 DEF Log, Stamp
  <2>2. CASE LockPool(l)
    BY <2>2 DEF LockPool
  <2>3. CASE Post(l)
    BY <2>3, <1>5 DEF Posters
  <2> QED
    BY <1>7, <2>1, <2>2, <2>3 DEF Logger
<1>8. ASSUME NEW w \in Workers, worker_loop(w) PROVE SameQueue \/ Dequeue(w)
  <2>1. CASE WaitForMessage(w)
    BY <2>1 DEF WaitForMessage
  <2>2. CASE WaitTimesOut(w)
    BY <2>2 DEF WaitTimesOut
  <2>3. CASE NotifyRoom(w)
    BY <2>3 DEF NotifyRoom
  <2>4. CASE SinkIt(w)
    BY <2>4 DEF SinkIt, Process
  <2>5. CASE WriteToNoFile(w)
    BY <2>5 DEF WriteToNoFile, Process
  <2>6. CASE Flush(w)
    BY <2>6 DEF Flush, Process
  <2>7. CASE LeaveLoop(w)
    BY <2>7 DEF LeaveLoop, Process
  <2> QED
    BY <1>8, <2>1, <2>2, <2>3, <2>4, <2>5, <2>6, <2>7 DEF worker_loop
<1>9. \A l \in Loggers : l \in Posters
  BY DEF Posters
<1> QED
  BY <1>1, <1>2, <1>3, <1>6, <1>7, <1>8, <1>9 DEF Next, Posters

(* The destructor leaves nothing in the queue: as many terminate messages   *)
(* were taken as there were workers.                                        *)
LEMMA NothingLeftQueued ==
    ASSUME MInv, pc[Main] = "gone"
    PROVE  Queue = <<>>
<1>1. PICK n \in 0..Len(Queue) : Ending(n)
  BY DEF MInv
<1>2. Typed /\ Hands
  BY DEF MInv
<1>3. toStop = 0 /\ AboutToPost = 0 /\ \A w \in conf.workers : wpc[w] = "exited"
  BY <1>1 DEF Ending, AboutToPost
<1>4. Leaving = conf.workers
  <2>1. conf.workers \subseteq Workers
    BY <1>2, Configured DEF Typed
  <2>2. \A w \in Leaving : w \in conf.workers
    BY <1>2, Kinds, Zenon DEF Leaving, Hands
  <2>3. \A w \in conf.workers : w \in Leaving
    BY <1>3, <2>1, Zenon DEF Leaving
  <2> QED
    BY <2>2, <2>3
<1>5. toStop + AboutToPost + n + Cardinality(Leaving) = Cardinality(conf.workers) /\ n = Len(Queue)
  <2>1. conf.workers # {}
    BY <1>2, Configured DEF Typed
  <2> QED
    BY <1>1, <1>3, <1>4, <2>1 DEF Ending
<1>6. Len(Queue) = 0
  <2>1. Cardinality(conf.workers) \in Nat
    BY <1>2, Configured DEF Typed
  <2>2. \A c \in Nat : \A k \in 0..Len(Queue) : 0 + 0 + k + c = c => k = 0
    BY SMT
  <2> QED
    BY <1>3, <1>4, <1>5, <2>1, <2>2, Zenon
<1> QED
  BY <1>2, <1>6, EmptySeq DEF Typed

(* The queue starts empty. *)
LEMMA QueueInit == Init => Abstract!Init
<1> SUFFICES ASSUME Init PROVE Abstract!Init
  OBVIOUS
<1>1. conf \in Configurations /\ q = circular_q(conf.queue_size)
  BY DEF Init
<1>2. conf.queue_size \in Nat /\ conf.queue_size # 0
  BY <1>1, Configured
<1>3. Items(q) = <<>> /\ q.overrun_counter = 0
  BY <1>1, FreshTyped, Zenon
<1> QED
  BY <1>2, <1>3 DEF Abstract!Init

(* A program that is started again has an empty queue, as the one before it *)
(* had in the end.                                                          *)
LEMMA RestartImplemented ==
    ASSUME MInv, Restart
    PROVE  Abstract!Next
<1>1. conf \in Configurations /\ conf' = conf /\ q' = circular_q(conf.queue_size) /\ Queue = <<>>
  BY NothingLeftQueued DEF Restart, FreshPool, MInv, Typed
<1>2. Items(q') = <<>> /\ q'.overrun_counter = 0
  BY <1>1, FreshTyped, Zenon
<1> QED
  BY <1>1, <1>2 DEF Queue, Abstract!Next, Abstract!Renew

(* An enqueue appends, or drops the oldest message and counts it. *)
LEMMA EnqueueImplemented ==
    ASSUME MInv, NEW p \in Posters, Enqueue(p)
    PROVE  Abstract!Next
<1>1. Typed /\ Posting /\ conf \in Configurations /\ conf.queue_size \in Nat \ {0}
  BY Configured DEF MInv, Typed
<1>2. posting[p] \in Posted
  BY <1>1, Zenon DEF Enqueue, Posting, Posters, Carrying, Posted
<1>3. UNCHANGED conf
  BY DEF Enqueue
<1>4. Capacity \in Nat \ {0} /\ Capacity \in Nat \ {0, 1} /\ Capacity - 1 = conf.queue_size
  BY <1>1, SMT DEF Capacity
<1>5. q \in Circular(Capacity, Slots) /\ Moved \in Slots
  BY <1>1 DEF Typed, Capacity, Slots
<1>6. /\ Queue \in Seq(Posted) /\ Len(Queue) \in Nat
      /\ ~full(q) => Len(Queue) < conf.queue_size
      /\ full(q) => Len(Queue) = conf.queue_size
  <2>1. /\ ~full(q) => size(q) < Capacity - 1
        /\ full(q) => Len(Items(q)) = Capacity - 1
        /\ Len(Items(q)) = size(q)
    BY <1>2, <1>4, <1>5, PushAppends, PushOverruns, ItemsTyped DEF Slots
  <2>2. Queue \in Seq(Posted) /\ Len(Queue) \in Nat
    BY <1>1, LenProperties DEF Typed
  <2> QED
    BY <1>4, <2>1, <2>2 DEF Queue
<1>7. CASE ~full(q)
  <2>1. Queue' = Append(Queue, posting[p]) /\ q'.overrun_counter = q.overrun_counter
    BY <1>1, <1>2, <1>7, QueueAfterEnqueue
  <2>2. Len(Queue) < conf.queue_size
    BY <1>1, <1>6, <1>7
  <2>3. Len(Queue') = Len(Queue) + 1 /\ SubSeq(Queue', 1, Len(Queue)) = Queue
    BY <1>2, <1>6, <2>1, Prefix, Zenon
  <2> QED
    BY <1>3, <2>1, <2>2, <2>3 DEF Queue, Abstract!Next, Abstract!enqueue
<1>8. CASE full(q)
  <2>1. /\ Queue # <<>> /\ Queue' = Append(Tail(Queue), posting[p])
        /\ q'.overrun_counter = q.overrun_counter + 1
    BY <1>1, <1>2, <1>8, QueueAfterEnqueue
  <2> DEFINE rest == Tail(Queue)
  <2>2. rest \in Seq(Posted) /\ Len(rest) = Len(Queue) - 1
    BY <1>6, <2>1, Shifted
  <2>3. Queue' = Append(rest, posting[p])
    BY <2>1
  <2> HIDE DEF rest
  <2>4. Len(Queue') = Len(rest) + 1 /\ SubSeq(Queue', 1, Len(rest)) = rest
    BY <1>2, <2>2, <2>3, Prefix, Zenon
  <2>5. Len(Queue) = conf.queue_size /\ Len(rest) = conf.queue_size - 1
    BY <1>6, <1>8, <2>2
  <2>6. Len(Queue') = conf.queue_size
    BY <1>1, <2>4, <2>5
  <2> QED
    BY <1>3, <2>1, <2>4, <2>5, <2>6 DEF rest, Queue, Abstract!Next, Abstract!enqueue_nowait
<1> QED
  BY <1>7, <1>8

(* A dequeue takes the oldest message. *)
LEMMA DequeueImplemented ==
    ASSUME MInv, NEW w \in Workers, Dequeue(w)
    PROVE  Abstract!Next
<1>1. /\ q'.overrun_counter = q.overrun_counter
      /\ Queue # <<>> /\ Queue' = Tail(Queue)
  BY QueueAfterDequeue DEF MInv
<1>2. UNCHANGED conf
  BY DEF Dequeue, sinkVars
<1> QED
  BY <1>1, <1>2 DEF Queue, Abstract!Next, Abstract!dequeue_for

(* The steps of the logger on its circular queue are those of a bounded     *)
(* queue: appended with room, the oldest dropped and counted without, taken *)
(* in order, and empty whenever the pool is destroyed.                      *)
THEOREM QueueImplemented == Spec => ImplementsBoundedQueue
<1>1. IInv /\ [Next]_vars => [Abstract!Next]_<<conf.queue_size, Items(q), q.overrun_counter>>
  <2> SUFFICES ASSUME MInv, [Next]_vars
               PROVE  [Abstract!Next]_<<conf.queue_size, Items(q), q.overrun_counter>>
    BY DEF IInv
  <2>1. CASE SameQueue
    <3>1. conf' = conf /\ q' = q
      BY <2>1 DEF SameQueue
    <3>2. Items(q') = Items(q) /\ q'.overrun_counter = q.overrun_counter
      BY <3>1, Zenon
    <3> QED
      BY <3>1, <3>2
  <2> QED
    BY <2>1, EnqueueImplemented, DequeueImplemented, RestartImplemented, QueueAside
<1> QED
  BY <1>1, QueueInit, Invariant, PTL DEF Spec, ImplementsBoundedQueue, Abstract!Spec
-----------------------------------------------------------------------------
(* Months back *)

(* A day of a month is told by the month's beginning.                       *)
LEMMA InMonth ==
    ASSUME NEW t \in CalendarDays, NEW m \in Months, MonthStart[m] <= t, t < MonthStart[m + 1]
    PROVE  MonthOf(t) = m
<1> USE FileSinkAssumption
<1>1. MonthOf(t) \in Months /\ MonthStart[MonthOf(t)] <= t /\ t < MonthStart[MonthOf(t) + 1]
  BY MonthOfDay
<1>2. /\ m \in Int /\ m \in Calendar /\ m + 1 \in Calendar /\ t \in Int
      /\ MonthOf(t) \in Int /\ MonthOf(t) \in Calendar /\ MonthOf(t) + 1 \in Calendar
      /\ MonthStart[m] \in Int /\ MonthStart[m + 1] \in Int
      /\ MonthStart[MonthOf(t)] \in Int /\ MonthStart[MonthOf(t) + 1] \in Int
  BY <1>1, MonthsTyped DEF CalendarDays
<1>3. MonthOf(t) <= m
  BY <1>2, DayAndMonth
<1>4. ~(MonthOf(t) < m)
  <2> SUFFICES ASSUME MonthOf(t) < m PROVE FALSE
    OBVIOUS
  <2>1. MonthOf(t) + 1 <= m
    BY <1>2
  <2>2. MonthStart[MonthOf(t) + 1] <= MonthStart[m]
    BY <1>2, <2>1, StartsInOrder
  <2> QED
    BY <1>1, <1>2, <2>2
<1> QED
  BY <1>2, <1>3, <1>4

(* After k steps back from the day of a month: k months, or one less if the *)
(* day was too late for a shorter month.                                    *)
Back(t, k, u) ==
    /\ u \in CalendarDays /\ u <= t
    /\ \/ MonthOf(u) = MonthOf(t) - k /\ DayOf(u) = DayOf(t)
       \/ MonthOf(u) = MonthOf(t) - k + 1 /\ DayOf(t) > 28 /\ DayOf(u) <= 28

(* A day has a number in its month. *)
LEMMA DayTyped ==
    ASSUME NEW t \in CalendarDays
    PROVE  /\ DayOf(t) \in Int /\ DayOf(t) >= 1 /\ DayOf(t) <= Days(MonthOf(t))
           /\ DayOf(t) = t - MonthStart[MonthOf(t)] + 1
           /\ MonthOf(t) \in Months /\ Days(MonthOf(t)) \in 28..31 /\ MonthStart[MonthOf(t)] \in Int /\ t \in Int
<1>1. MonthOf(t) \in Months /\ MonthStart[MonthOf(t)] <= t /\ t < MonthStart[MonthOf(t) + 1]
  BY MonthOfDay
<1>2. /\ MonthStart[MonthOf(t)] \in Int /\ Days(MonthOf(t)) \in 28..31
      /\ MonthStart[MonthOf(t) + 1] = MonthStart[MonthOf(t)] + Days(MonthOf(t)) /\ t \in Int
  BY <1>1, MonthsTyped, MonthBegins DEF CalendarDays
<1> QED
  BY <1>1, <1>2 DEF DayOf

(* One step back from a day of a month that has one before it.              *)
LEMMA MonthBack ==
    ASSUME NEW t \in CalendarDays, MonthOf(t) - 1 \in Months
    PROVE  LET u == back_a_month[t]
           IN  /\ u \in CalendarDays /\ u <= t
               /\ \/ MonthOf(u) = MonthOf(t) - 1 /\ DayOf(u) = DayOf(t)
                  \/ MonthOf(u) = MonthOf(t) /\ DayOf(t) > 28 /\ DayOf(u) <= 28
<1> USE FileSinkAssumption
<1> DEFINE m == MonthOf(t)
<1> DEFINE before == Days(m - 1)
<1> DEFINE u == t - before
<1>1. /\ DayOf(t) \in Int /\ DayOf(t) >= 1 /\ DayOf(t) <= Days(m) /\ DayOf(t) = t - MonthStart[m] + 1
      /\ m \in Months /\ Days(m) \in 28..31 /\ MonthStart[m] \in Int /\ t \in Int
  BY DayTyped
<1>2. /\ before \in 28..31 /\ m - 1 \in Months /\ (m - 1) + 1 = m /\ m \in Int
      /\ MonthStart[(m - 1) + 1] = MonthStart[m - 1] + before
      /\ MonthStart[m - 1] \in Int
  BY <1>1, MonthBegins, MonthsTyped
<1>3. MonthStart[m] = MonthStart[m - 1] + before
  BY <1>2
<1>4. MonthStart[FirstMonth] <= MonthStart[m - 1] /\ MonthStart[FirstMonth] = 0
  BY <1>2, MonthBegins, MonthsTyped, StartsInOrder DEF Months
<1>5. u \in CalendarDays /\ u <= t /\ u \in Int /\ u = MonthStart[m - 1] + DayOf(t) - 1
  <2>1. MonthStart[LastMonth] \in Int /\ t < MonthStart[LastMonth]
    BY MonthBegins DEF CalendarDays, Calendar
  <2>2. u \in Int /\ u <= t /\ u = MonthStart[m - 1] + DayOf(t) - 1
    BY <1>1, <1>2, <1>3
  <2> QED
    BY <1>1, <1>2, <1>4, <2>1, <2>2 DEF CalendarDays
<1>6. back_a_month[t] = u
  <2>1. t \in 0..MonthStart[LastMonth]
    <3>1. MonthStart[LastMonth] \in Int
      BY MonthBegins DEF Calendar
    <3> QED
      BY <3>1 DEF CalendarDays
  <2> QED
    BY <2>1 DEF back_a_month
<1> HIDE DEF u
<1>7. CASE DayOf(t) <= before
  <2>1. MonthStart[m - 1] <= u /\ u < MonthStart[(m - 1) + 1]
    BY <1>1, <1>2, <1>5, <1>7
  <2>2. MonthOf(u) = m - 1
    BY <1>2, <1>5, <2>1, InMonth
  <2>3. DayOf(u) = DayOf(t)
    BY <1>1, <1>2, <1>5, <2>2 DEF DayOf
  <2> QED
    BY <1>5, <1>6, <2>2, <2>3
<1>8. CASE before < DayOf(t)
  <2>1. MonthStart[m] <= u /\ u < MonthStart[m + 1]
    <3>1. t < MonthStart[m + 1] /\ MonthStart[m + 1] \in Int
      BY <1>1, MonthOfDay, MonthsTyped
    <3> QED
      BY <1>1, <1>2, <1>3, <1>5, <1>8, <3>1
  <2>2. MonthOf(u) = m
    BY <1>1, <1>5, <2>1, InMonth
  <2>3. DayOf(u) <= 28
    <3>1. DayOf(u) = u - MonthStart[m] + 1
      BY <2>2 DEF DayOf
    <3> QED
      BY <1>1, <1>2, <1>3, <1>5, <3>1
  <2>4. DayOf(t) > 28
    BY <1>1, <1>2, <1>8
  <2> QED
    BY <1>5, <1>6, <2>2, <2>3, <2>4
<1> QED
  BY <1>1, <1>2, <1>7, <1>8

(* The next step back, as long as the calendar goes back that far.          *)
LEMMA BackAgain ==
    ASSUME NEW t \in CalendarDays, NEW k \in 0..6, NEW u, Back(t, k, u), MonthOf(t) - 7 \in Months
    PROVE  Back(t, k + 1, back_a_month[u])
<1> DEFINE v == back_a_month[u]
<1>1. /\ MonthOf(t) \in Int /\ DayOf(t) \in Int /\ t \in Int
      /\ MonthOf(t) \in Months /\ u \in CalendarDays /\ DayOf(u) \in Int /\ MonthOf(u) \in Int /\ u \in Int
  BY DayTyped, MonthsTyped DEF Back
<1>2. MonthOf(u) - 1 \in Months
  BY <1>1, FileSinkAssumption DEF Back, Months
<1>3. /\ v \in CalendarDays /\ v <= u
      /\ \/ MonthOf(v) = MonthOf(u) - 1 /\ DayOf(v) = DayOf(u)
         \/ MonthOf(v) = MonthOf(u) /\ DayOf(u) > 28 /\ DayOf(v) <= 28
  BY <1>1, <1>2, MonthBack
<1>4. v \in Int /\ DayOf(v) \in Int /\ MonthOf(v) \in Int
  BY <1>3, DayTyped, MonthsTyped
<1> HIDE DEF v
<1>5. u <= t
  BY DEF Back
<1>6. CASE MonthOf(u) = MonthOf(t) - k /\ DayOf(u) = DayOf(t)
  BY <1>1, <1>3, <1>4, <1>5, <1>6 DEF Back, v
<1>7. CASE MonthOf(u) = MonthOf(t) - k + 1 /\ DayOf(t) > 28 /\ DayOf(u) <= 28
  BY <1>1, <1>3, <1>4, <1>5, <1>7 DEF Back, v
<1> QED
  BY <1>6, <1>7 DEF Back

(* A recursive function on the numbers up to n exists: a shorter one is     *)
(* extended.                                                                *)
Runs(f, a, step, n) ==
    /\ f = [k \in 0..n |-> f[k]]
    /\ f[0] = a
    /\ \A k \in 1..n : f[k] = step[k][f[k - 1]]

LEMMA RunsOn ==
    ASSUME NEW a, NEW step, NEW n \in Nat \ {0}, NEW f, Runs(f, a, step, n - 1)
    PROVE  \E h : Runs(h, a, step, n)
<1> DEFINE h == [k \in 0..n |-> IF k = n THEN step[n][f[n - 1]] ELSE f[k]]
<1>1. h[0] = f[0] /\ h[n] = step[n][f[n - 1]] /\ \A k \in 0..(n - 1) : h[k] = f[k]
  OBVIOUS
<1>2. h = [k \in 0..n |-> h[k]]
  OBVIOUS
<1> HIDE DEF h
<1>3. ASSUME NEW k \in 1..n PROVE h[k] = step[k][h[k - 1]]
  <2>1. k - 1 \in 0..(n - 1) /\ h[k - 1] = f[k - 1]
    BY <1>1
  <2>2. CASE k = n
    BY <1>1, <2>1, <2>2
  <2>3. CASE k # n
    <3>1. k \in 1..(n - 1) /\ k \in 0..(n - 1)
      BY <2>3
    <3> QED
      BY <1>1, <2>1, <3>1 DEF Runs
  <2> QED
    BY <2>2, <2>3
<1>4. h[0] = a
  BY <1>1 DEF Runs
<1> QED
  BY <1>2, <1>3, <1>4 DEF Runs

LEMMA RunsExist ==
    ASSUME NEW a, NEW step, NEW n \in Nat
    PROVE  \E f : Runs(f, a, step, n)
<1> DEFINE Short == {j \in Nat : ~(\E f : Runs(f, a, step, j))}
<1> SUFFICES ASSUME Short # {} PROVE FALSE
  OBVIOUS
<1>1. PICK j \in Short : \A i \in Short : j <= i
  <2> HIDE DEF Short
  <2>1. Short \in SUBSET Nat
    BY DEF Short
  <2> QED
    BY <2>1, LeastNumber
<1>2. CASE j = 0
  <2> DEFINE f == [k \in 0..0 |-> a]
  <2>1. f = [k \in 0..0 |-> f[k]] /\ f[0] = a
    OBVIOUS
  <2>2. Runs(f, a, step, 0)
    <3> HIDE DEF f
    <3> QED
      BY <2>1 DEF Runs
  <2> QED
    BY <1>1, <1>2, <2>2
<1>3. CASE j # 0
  <2>1. j \in Nat \ {0} /\ j - 1 \in Nat /\ ~(j <= j - 1)
    BY <1>1, <1>3
  <2>2. j - 1 \notin Short
    BY <1>1, <2>1
  <2>3. PICK f : Runs(f, a, step, j - 1)
    BY <2>1, <2>2
  <2>4. \E h : Runs(h, a, step, j)
    BY <2>1, <2>3, RunsOn
  <2> QED
    BY <1>1, <2>4
<1> QED
  BY <1>2, <1>3

ByRecursion(f, a, step, n) == f = [k \in 0..n |-> IF k = 0 THEN a ELSE step[k][f[k - 1]]]

LEMMA Recursion ==
    ASSUME NEW a, NEW step, NEW n \in Nat
    PROVE  \E f : ByRecursion(f, a, step, n)
<1>1. PICK f : Runs(f, a, step, n)
  BY RunsExist
<1>2. ASSUME NEW k \in 0..n PROVE f[k] = IF k = 0 THEN a ELSE step[k][f[k - 1]]
  <2>1. CASE k = 0
    BY <1>1, <2>1 DEF Runs
  <2>2. CASE k # 0
    <3>1. k \in 1..n
      BY <2>2
    <3> QED
      BY <1>1, <2>2, <3>1 DEF Runs
  <2> QED
    BY <2>1, <2>2
<1> QED
  BY <1>1, <1>2, Zenon DEF Runs, ByRecursion

(* What it is: its values, one after the other.                             *)
LEMMA RecursionRuns ==
    ASSUME NEW a, NEW step, NEW n \in Nat, NEW f, ByRecursion(f, a, step, n)
    PROVE  f[0] = a /\ \A k \in 1..n : f[k] = step[k][f[k - 1]]
<1>1. 0 \in 0..n
  OBVIOUS
<1>2. f[0] = a
  BY <1>1, Zenon DEF ByRecursion
<1>3. ASSUME NEW k \in 1..n PROVE f[k] = step[k][f[k - 1]]
  <2>1. k \in 0..n /\ k # 0
    OBVIOUS
  <2> DEFINE e(j) == IF j = 0 THEN a ELSE step[j][f[j - 1]]
  <2>2. f = [j \in 0..n |-> e(j)]
    BY Zenon DEF ByRecursion
  <2>3. e(k) = step[k][f[k - 1]]
    BY <2>1
  <2> HIDE DEF e
  <2>4. f[k] = e(k)
    BY <2>1, <2>2, Zenon
  <2> QED
    BY <2>3, <2>4
<1> QED
  BY <1>2, <1>3
(* Seven steps back lead to the seventh month before, or, from one of the   *)
(* last days of a month, to the sixth.                                      *)
LEMMA SevenMonthsBack ==
    ASSUME NEW t \in CalendarDays, MonthStart[FirstMonth + 7] <= t
    PROVE  /\ MonthOf(t) - 7 \in Months
           /\ \/ MonthOf(before_7_month(t)) = MonthOf(t) - 7
              \/ MonthOf(before_7_month(t)) = MonthOf(t) - 6 /\ DayOf(t) > 28
<1> USE FileSinkAssumption
<1>1. MonthOf(t) - 7 \in Months
  <2>1. FirstMonth + 7 \in Calendar /\ FirstMonth + 6 \in Months /\ (FirstMonth + 6) + 1 \in Calendar
        /\ (FirstMonth + 6) + 1 = FirstMonth + 7
    BY DEF Calendar, Months
  <2>2. FirstMonth + 6 < MonthOf(t)
    BY <2>1, DayAndMonth
  <2>3. MonthOf(t) \in Months
    BY MonthOfDay
  <2> QED
    BY <2>2, <2>3 DEF Months
<1> DEFINE P(f) == f = [k \in 0..7 |-> IF k = 0 THEN t ELSE back_a_month[f[k - 1]]]
<1> DEFINE step == [k \in 1..7 |-> back_a_month]
<1>2. PICK f : ByRecursion(f, t, step, 7)
  <2>1. 7 \in Nat
    OBVIOUS
  <2> HIDE DEF step
  <2> QED
    BY <2>1, Recursion
<1>3. P(f)
  <2> DEFINE c(k) == IF k = 0 THEN t ELSE step[k][f[k - 1]]
  <2> DEFINE d(k) == IF k = 0 THEN t ELSE back_a_month[f[k - 1]]
  <2>1. ASSUME NEW k \in 0..7 PROVE c(k) = d(k)
    <3>1. CASE k = 0
      BY <3>1
    <3>2. CASE k # 0
      <4>1. step[k] = back_a_month
        BY <3>2
      <4> QED
        BY <4>1
    <3> QED
      BY <3>1, <3>2
  <2>2. f = [k \in 0..7 |-> c(k)]
    BY <1>2 DEF ByRecursion
  <2>3. f = [k \in 0..7 |-> d(k)]
    <3> HIDE DEF c, d
    <3> QED
      BY <2>1, <2>2
  <2> QED
    BY <2>3
<1> DEFINE back == CHOOSE g : P(g)
<1>4. P(back)
  <2> HIDE DEF P
  <2> QED
    BY <1>3
<1>5. before_7_month(t) = back[7]
  BY DEF before_7_month
<1> HIDE DEF back, step
<1>6. back[0] = t /\ \A k \in 1..7 : back[k] = back_a_month[back[k - 1]]
  <2> DEFINE same == [k \in 1..7 |-> back_a_month]
  <2> DEFINE c(k) == IF k = 0 THEN t ELSE back_a_month[back[k - 1]]
  <2> DEFINE d(k) == IF k = 0 THEN t ELSE same[k][back[k - 1]]
  <2>1. ASSUME NEW k \in 0..7 PROVE c(k) = d(k)
    <3>1. CASE k = 0
      BY <3>1
    <3>2. CASE k # 0
      <4>1. same[k] = back_a_month
        BY <3>2
      <4> QED
        BY <4>1
    <3> QED
      BY <3>1, <3>2
  <2>2. back = [k \in 0..7 |-> c(k)]
    BY <1>4
  <2>3. \A k \in 1..7 : same[k] = back_a_month
    OBVIOUS
  <2> HIDE DEF same
  <2>4. back = [k \in 0..7 |-> d(k)]
    <3> HIDE DEF c, d
    <3> QED
      BY <2>1, <2>2
  <2>5. back[0] = t /\ \A k \in 1..7 : back[k] = same[k][back[k - 1]]
    BY <2>4, RecursionRuns DEF ByRecursion
  <2> QED
    BY <2>3, <2>5
<1> HIDE DEF P
<1>7. Back(t, 0, back[0])
  BY <1>6, DayTyped, MonthsTyped DEF Back
<1>8. ASSUME NEW k \in 0..6, Back(t, k, back[k]) PROVE Back(t, k + 1, back[k + 1])
  <2>1. k + 1 \in 1..7 /\ (k + 1) - 1 = k
    OBVIOUS
  <2>2. back[k + 1] = back_a_month[back[k]]
    BY <1>6, <2>1
  <2> QED
    BY <1>1, <1>8, <2>2, BackAgain
<1>9. Back(t, 7, back[7])
  <2>1. Back(t, 1, back[1])
    BY <1>7, <1>8
  <2>2. Back(t, 2, back[2])
    BY <1>8, <2>1
  <2>3. Back(t, 3, back[3])
    BY <1>8, <2>2
  <2>4. Back(t, 4, back[4])
    BY <1>8, <2>3
  <2>5. Back(t, 5, back[5])
    BY <1>8, <2>4
  <2>6. Back(t, 6, back[6])
    BY <1>8, <2>5
  <2> QED
    BY <1>8, <2>6
<1>10. MonthOf(t) \in Int
  BY DayTyped, MonthsTyped
<1> QED
  BY <1>1, <1>5, <1>9, <1>10 DEF Back
-----------------------------------------------------------------------------
(* The names in the queue, and the files of which they are *)

(* The months of the files the sink opened, each later than the last.       *)
Rising(o) ==
    /\ o \in Seq(Months) /\ Len(o) \in Nat \ {0}
    /\ \A i, j \in 1..Len(o) : i < j => o[i] < o[j]

(* The files opened after this many have their names in the queue.          *)
Before(o, N) == Len(o) - Len(N)

(* A name in the queue is that of a file a rotation opened, or of one from  *)
(* before all of them.                                                      *)
Naming(o, N, rotation, k) ==
    /\ N[k] \in Months
    /\ Before(o, N) + k >= 2 => N[k] = o[Before(o, N) + k]
    /\ Before(o, N) + k < 2 => /\ MonthStart[N[k] + 1] <= rotation
                               /\ \A i \in 2..Len(o) : N[k] < o[i]

(* The files opened before those are deleted, and they are not, unless for  *)
(* their age.                                                               *)
Counting(o, N, D, periodical, i) ==
    IF i <= Before(o, N) THEN o[i] \notin D
    ELSE o[i] \in D \/ (periodical /\ o[i] + 6 <= o[Len(o)])

Holding(o, N, D, periodical, rotation) ==
    /\ N \in Seq(Months \cup {Moved})
    /\ \A k \in 1..Len(N) : Naming(o, N, rotation, k)
    /\ \A i \in 2..Len(o) : Counting(o, N, D, periodical, i)

(* There are max names, unless all the files opened are among them.         *)
Enough(o, N, max) == Len(N) \in 0..max /\ (Len(N) = max \/ Before(o, N) <= 1)

(* The sequence with one more.                                              *)
LEMMA OneMore ==
    ASSUME NEW V, NEW s \in Seq(V), NEW c \in V
    PROVE  /\ Append(s, c) \in Seq(V) /\ Len(s) \in Nat /\ Len(Append(s, c)) = Len(s) + 1
           /\ \A i \in 1..Len(s) : Append(s, c)[i] = s[i]
           /\ Append(s, c)[Len(s) + 1] = c
BY AppendProperties, LenProperties

LEMMA StillRising ==
    ASSUME NEW o, Rising(o), NEW c \in Months, o[Len(o)] < c
    PROVE  /\ Rising(Append(o, c)) /\ Append(o, c)[Len(o) + 1] = c
           /\ Len(Append(o, c)) = Len(o) + 1
           /\ \A i \in 1..Len(o) : Append(o, c)[i] = o[i] /\ o[i] < c
<1>1. /\ o \in Seq(Months) /\ Len(o) \in Nat \ {0}
      /\ \A i, j \in 1..Len(o) : i < j => o[i] < o[j]
  BY DEF Rising
<1>2. /\ Append(o, c) \in Seq(Months) /\ Len(Append(o, c)) = Len(o) + 1
      /\ \A i \in 1..Len(o) : Append(o, c)[i] = o[i]
      /\ Append(o, c)[Len(o) + 1] = c
  BY <1>1, OneMore
<1>3. c \in Int /\ \A i \in 1..Len(o) : o[i] \in Months /\ o[i] \in Int
  BY <1>1, MonthsTyped, ElementOfSeq
<1>4. ASSUME NEW i \in 1..Len(o) PROVE o[i] < c
  <2>1. Len(o) \in 1..Len(o) /\ (i = Len(o) \/ i < Len(o))
    BY <1>1
  <2>2. o[i] = o[Len(o)] \/ o[i] < o[Len(o)]
    BY <1>1, <2>1
  <2> QED
    BY <1>3, <2>1, <2>2
<1>5. ASSUME NEW i \in 1..(Len(o) + 1), NEW j \in 1..(Len(o) + 1), i < j
      PROVE  Append(o, c)[i] < Append(o, c)[j]
  <2>1. i \in 1..Len(o) /\ (j = Len(o) + 1 \/ j \in 1..Len(o))
    BY <1>1, <1>5
  <2> QED
    BY <1>1, <1>2, <1>4, <1>5, <2>1
<1> QED
  BY <1>1, <1>2, <1>4, <1>5 DEF Rising

(* A rotation adds its file and its name, and an old file may be deleted    *)
(* for its age.                                                             *)
LEMMA OneMoreHeld ==
    ASSUME NEW o, Rising(o), NEW c \in Months, o[Len(o)] < c,
           NEW N, NEW D, NEW periodical, NEW r \in Int, NEW s \in Int, r <= s,
           Holding(o, N, D, periodical, r),
           \A k \in 1..Len(N) : MonthStart[N[k] + 1] <= r => N[k] < c,
           NEW E, c \in E, \A m \in E : m = c \/ m \in D,
           \A m \in D : m \in E \/ (periodical /\ m + 6 <= c)
    PROVE  /\ Holding(Append(o, c), Append(N, c), E, periodical, s)
           /\ Before(Append(o, c), Append(N, c)) = Before(o, N)
<1> DEFINE p == Append(o, c)
<1> DEFINE M == Append(N, c)
<1>1. /\ o \in Seq(Months) /\ Len(o) \in Nat \ {0} /\ N \in Seq(Months \cup {Moved}) /\ Len(N) \in Nat
  BY LenProperties DEF Rising, Holding
<1>2. /\ p[Len(o) + 1] = c /\ Len(p) = Len(o) + 1
      /\ \A i \in 1..Len(o) : p[i] = o[i] /\ o[i] < c /\ o[i] \in Months /\ o[i] \in Int
      /\ c \in Int /\ o[Len(o)] \in Int
  <2>1. \A i \in 1..Len(o) : o[i] \in Months
    BY <1>1, ElementOfSeq
  <2> QED
    BY <1>1, <2>1, StillRising, MonthsTyped
<1>3. /\ M \in Seq(Months \cup {Moved}) /\ Len(M) = Len(N) + 1 /\ M[Len(N) + 1] = c
      /\ \A i \in 1..Len(N) : M[i] = N[i]
  BY <1>1, OneMore
<1> HIDE DEF p, M
<1>4. Before(p, M) = Before(o, N) /\ Before(o, N) = Len(o) - Len(N) /\ Before(o, N) \in Int
  BY <1>1, <1>2, <1>3 DEF Before
<1>5. ASSUME NEW k \in 1..Len(M) PROVE Naming(p, M, s, k)
  <2>1. CASE k = Len(N) + 1
    <3>1. Before(p, M) + k = Len(o) + 1 /\ Len(o) + 1 >= 2
      BY <1>1, <1>4, <2>1
    <3> QED
      BY <1>2, <1>3, <2>1, <3>1 DEF Naming
  <2>2. CASE k # Len(N) + 1
    <3>1. k \in 1..Len(N) /\ M[k] = N[k]
      BY <1>1, <1>3, <2>2
    <3>2. Naming(o, N, r, k)
      BY <3>1 DEF Holding
    <3>3. N[k] \in Months /\ N[k] \in Int /\ MonthStart[N[k] + 1] \in Int
      BY <3>2, MonthsTyped DEF Naming
    <3>4. CASE Before(o, N) + k >= 2
      <4>1. Before(o, N) + k \in 1..Len(o)
        BY <1>1, <1>4, <3>1, <3>4
      <4>2. N[k] = o[Before(o, N) + k] /\ p[Before(o, N) + k] = o[Before(o, N) + k]
        BY <1>2, <3>2, <3>4, <4>1 DEF Naming
      <4> QED
        BY <1>4, <3>1, <3>3, <3>4, <4>2 DEF Naming
    <3>5. CASE Before(o, N) + k < 2
      <4>1. MonthStart[N[k] + 1] <= r /\ \A i \in 2..Len(o) : N[k] < o[i]
        BY <3>2, <3>5 DEF Naming
      <4>2. MonthStart[N[k] + 1] <= s /\ N[k] < c
        BY <3>1, <3>3, <4>1
      <4>3. ASSUME NEW i \in 2..Len(p) PROVE N[k] < p[i]
        <5>1. i = Len(o) + 1 \/ i \in 2..Len(o)
          BY <1>1, <1>2
        <5>2. CASE i = Len(o) + 1
          BY <1>2, <4>2, <5>2
        <5>3. CASE i \in 2..Len(o)
          BY <1>2, <4>1, <5>3
        <5> QED
          BY <5>1, <5>2, <5>3
      <4>4. ~(Before(o, N) + k >= 2)
        BY <1>4, <3>5
      <4> QED
        BY <1>4, <3>1, <3>3, <4>2, <4>3, <4>4 DEF Naming
    <3> QED
      BY <1>4, <3>4, <3>5
  <2> QED
    BY <2>1, <2>2
<1>6. ASSUME NEW i \in 2..Len(p) PROVE Counting(p, M, E, periodical, i)
  <2>1. CASE i = Len(o) + 1
    <3>1. p[i] \in E
      BY <1>2, <2>1
    <3>2. ~(i <= Before(p, M))
      BY <1>1, <1>4, <2>1
    <3> QED
      BY <3>1, <3>2 DEF Counting
  <2>2. CASE i # Len(o) + 1
    <3>1. i \in 2..Len(o) /\ i \in 1..Len(o) /\ p[i] = o[i] /\ o[i] # c /\ o[i] \in Int
      BY <1>1, <1>2, <2>2
    <3>2. Counting(o, N, D, periodical, i)
      BY <3>1 DEF Holding
    <3>3. CASE i <= Before(o, N)
      <4>1. o[i] \notin E
        BY <3>1, <3>2, <3>3 DEF Counting
      <4> QED
        BY <1>4, <3>1, <3>3, <4>1 DEF Counting
    <3>4. CASE ~(i <= Before(o, N))
      <4>1. o[i] \in D \/ (periodical /\ o[i] + 6 <= o[Len(o)])
        BY <3>2, <3>4 DEF Counting
      <4>2. o[Len(o)] < c /\ p[Len(p)] = c
        BY <1>2
      <4>3. o[i] \in E \/ (periodical /\ o[i] + 6 <= c)
        <5>1. CASE o[i] \in D
          BY <5>1
        <5>2. CASE periodical /\ o[i] + 6 <= o[Len(o)]
          <6>1. o[i] + 6 <= c
            BY <1>2, <3>1, <4>2, <5>2
          <6> QED
            BY <5>2, <6>1
        <5> QED
          BY <4>1, <5>1, <5>2
      <4> QED
        BY <1>4, <3>1, <3>4, <4>2, <4>3 DEF Counting
    <3> QED
      BY <3>3, <3>4
  <2> QED
    BY <2>1, <2>2
<1> QED
  BY <1>3, <1>4, <1>5, <1>6 DEF Holding, p, M

(* The oldest name leaves the queue, and its file is deleted.               *)
LEMMA OldestLeft ==
    ASSUME NEW o, Rising(o), NEW N, NEW D, NEW max \in Nat \ {0}, NEW periodical, NEW r \in Int,
           Holding(o, N, D, periodical, r), Len(N) = max
    PROVE  /\ Holding(o, Tail(N), D \ {N[1]}, periodical, r)
           /\ Len(Tail(N)) = max - 1 /\ Before(o, Tail(N)) = Before(o, N) + 1
           /\ Naming(o, N, r, 1)
<1>1. /\ o \in Seq(Months) /\ Len(o) \in Nat \ {0} /\ N \in Seq(Months \cup {Moved}) /\ Len(N) \in Nat
      /\ \A k \in 1..Len(N) : Naming(o, N, r, k)
      /\ \A i \in 2..Len(o) : Counting(o, N, D, periodical, i)
      /\ \A i, j \in 1..Len(o) : i < j => o[i] < o[j]
  BY LenProperties DEF Rising, Holding
<1> DEFINE M == Tail(N)
<1>2. N # <<>>
  BY <1>1
<1>3. M \in Seq(Months \cup {Moved}) /\ Len(M) = max - 1 /\ \A k \in 1..(max - 1) : M[k] = N[k + 1]
  BY <1>1, <1>2, HeadTailProperties
<1> HIDE DEF M
<1>4. /\ Before(o, M) = Before(o, N) + 1 /\ Before(o, N) = Len(o) - Len(N)
      /\ Before(o, N) \in Int /\ Before(o, M) \in Int
  BY <1>1, <1>3 DEF Before
<1>5. Naming(o, N, r, 1)
  BY <1>1
<1>6. N[1] \in Months /\ N[1] \in Int
  BY <1>5, MonthsTyped DEF Naming
<1>7. ASSUME NEW k \in 1..(max - 1) PROVE Naming(o, M, r, k)
  <2>1. k + 1 \in 1..Len(N) /\ M[k] = N[k + 1] /\ Before(o, M) + k = Before(o, N) + (k + 1)
    BY <1>1, <1>3, <1>4
  <2>2. Naming(o, N, r, k + 1)
    BY <1>1, <2>1
  <2> QED
    BY <2>1, <2>2 DEF Naming
<1>8. ASSUME NEW i \in 2..Len(o) PROVE Counting(o, M, D \ {N[1]}, periodical, i)
  <2>1. Counting(o, N, D, periodical, i) /\ i \in 1..Len(o) /\ o[i] \in Months /\ o[i] \in Int
    BY <1>1, ElementOfSeq, MonthsTyped
  <2>2. CASE i <= Before(o, N)
    <3>1. o[i] \notin D /\ i <= Before(o, M)
      BY <1>4, <2>1, <2>2 DEF Counting
    <3> QED
      BY <3>1 DEF Counting
  <2>3. CASE i = Before(o, M)
    <3>1. o[i] = N[1]
      BY <1>4, <1>5, <2>3 DEF Naming
    <3> QED
      BY <2>3, <3>1, <1>4 DEF Counting
  <2>4. CASE i > Before(o, M)
    <3>1. ~(i <= Before(o, N)) /\ ~(i <= Before(o, M))
      BY <1>4, <2>4
    <3>2. o[i] \in D \/ (periodical /\ o[i] + 6 <= o[Len(o)])
      BY <2>1, <3>1 DEF Counting
    <3>3. o[i] # N[1]
      <4>1. CASE Before(o, N) + 1 >= 2
        <5>1. N[1] = o[Before(o, N) + 1] /\ Before(o, N) + 1 \in 1..Len(o) /\ Before(o, N) + 1 < i
          BY <1>1, <1>4, <1>5, <2>4, <4>1 DEF Naming
        <5>2. N[1] < o[i]
          BY <1>1, <2>1, <5>1
        <5> QED
          BY <1>6, <2>1, <5>2
      <4>2. CASE Before(o, N) + 1 < 2
        <5>1. N[1] < o[i]
          BY <1>5, <4>2 DEF Naming
        <5> QED
          BY <1>6, <2>1, <5>1
      <4> QED
        BY <1>4, <4>1, <4>2
    <3> QED
      BY <3>1, <3>2, <3>3 DEF Counting
  <2> QED
    BY <1>4, <2>2, <2>3, <2>4
<1> QED
  BY <1>3, <1>4, <1>5, <1>7, <1>8 DEF M, Holding
-----------------------------------------------------------------------------
(* The queue of names *)

NameQueue(max) == Circular(max + 1, Months \cup {Moved})

(* A queue is full with as many elements as it was made for.                *)
LEMMA FullQueue ==
    ASSUME NEW max \in Nat \ {0}, NEW names \in NameQueue(max)
    PROVE  /\ Items(names) \in Seq(Months \cup {Moved}) /\ Len(Items(names)) \in 0..max
           /\ full(names) <=> Len(Items(names)) = max
           /\ Len(Items(names)) = 0 <=> empty(names)
           /\ Len(Items(names)) > 0 => front(names) = Items(names)[1]
<1> DEFINE n == max + 1
<1> DEFINE V == Months \cup {Moved}
<1>1. n \in Nat \ {0} /\ n - 1 = max /\ names \in Circular(n, V) /\ n \in Nat \ {0, 1}
  BY DEF NameQueue
<1> HIDE DEF n, V
<1>2. /\ size(names) = Between(n, names.head, names.tail) /\ size(names) \in 0..max
      /\ Items(names) \in Seq(V) /\ Len(Items(names)) = size(names)
      /\ \A i \in 1..size(names) : Items(names)[i] = names.v[At(n, names.head, i)]
  <2>1. /\ size(names) = Between(n, names.head, names.tail) /\ size(names) \in 0..(n - 1)
        /\ Items(names) \in Seq(V) /\ Len(Items(names)) = size(names)
        /\ \A i \in 1..size(names) : Items(names)[i] = names.v[At(n, names.head, i)]
    <3>1. n \in Nat \ {0} /\ names \in Circular(n, V)
      BY <1>1, Zenon
    <3> QED
      BY <3>1, ItemsTyped, Zenon
  <2> QED
    BY <1>1, <2>1, Zenon
<1>3. names.head \in 0..(n - 1) /\ names.tail \in 0..(n - 1) /\ names.max_items = n
  BY <1>1 DEF Circular
<1>4. After(names, names.tail) = Follow(n, names.tail)
  BY <1>1, <1>3, GoesRound DEF After
<1>5. full(names) <=> Follow(n, names.tail) = names.head
  BY <1>4 DEF full
<1>6. full(names) <=> size(names) = max
  <2> DEFINE h == names.head
  <2> DEFINE t == names.tail
  <2>1. h \in 0..(n - 1) /\ t \in 0..(n - 1) /\ size(names) = Between(n, h, t)
    BY <1>2, <1>3
  <2>2. full(names) <=> Follow(n, t) = h
    BY <1>5
  <2> HIDE DEF h, t
  <2>3. Follow(n, t) # h => Between(n, h, t) < n - 1
    BY <1>1, <2>1, SMT DEF Between, Follow
  <2>4. Follow(n, t) = h => Between(n, h, t) = n - 1
    BY <1>1, <2>1, SMT DEF Between, Follow
  <2> QED
    BY <1>1, <1>2, <2>1, <2>2, <2>3, <2>4
<1>7. size(names) = 0 <=> empty(names)
  BY <1>1, <1>2, <1>3 DEF empty, Between
<1>8. size(names) > 0 => front(names) = Items(names)[1]
  <2> SUFFICES ASSUME size(names) > 0 PROVE front(names) = Items(names)[1]
    OBVIOUS
  <2>1. 1 \in 1..size(names) /\ At(n, names.head, 1) = names.head
    BY <1>1, <1>2, <1>3 DEF At
  <2> QED
    BY <1>2, <2>1 DEF front
<1> QED
  BY <1>2, <1>6, <1>7, <1>8 DEF V

(* delete_old: a full queue gives up its oldest name, and the directory the *)
(* file of that name.                                                       *)
LEMMA DeletedOld ==
    ASSUME NEW max \in Nat \ {0}, NEW names \in NameQueue(max), NEW c \in Months, NEW f
    PROVE  /\ delete_old(f, names, c).names \in NameQueue(max)
           /\ Len(Items(names)) < max =>
                 /\ delete_old(f, names, c).files = f
                 /\ Items(delete_old(f, names, c).names) = Append(Items(names), c)
           /\ Len(Items(names)) = max =>
                 /\ delete_old(f, names, c).files = Removed(f, Items(names)[1])
                 /\ Items(delete_old(f, names, c).names) = Append(Tail(Items(names)), c)
<1> DEFINE n == max + 1
<1> DEFINE V == Months \cup {Moved}
<1>1. n \in Nat \ {0} /\ names \in Circular(n, V) /\ c \in V /\ Moved \in V
  BY DEF NameQueue
<1>2. /\ Len(Items(names)) \in 0..max /\ Items(names) \in Seq(V)
      /\ full(names) <=> Len(Items(names)) = max
      /\ Len(Items(names)) = 0 <=> empty(names)
      /\ Len(Items(names)) > 0 => front(names) = Items(names)[1]
  BY FullQueue
<1>3. CASE ~full(names)
  <2>1. delete_old(f, names, c) = [files |-> f, names |-> push_back(names, c)]
    BY <1>3 DEF delete_old
  <2>2. push_back(names, c) \in Circular(n, V)
    <3> HIDE DEF n, V
    <3> QED
      BY <1>1, Pushed
  <2>3. Items(push_back(names, c)) = Append(Items(names), c)
    <3> HIDE DEF n, V
    <3> QED
      BY <1>1, <1>3, PushAppends
  <2>4. Len(Items(names)) < max /\ Len(Items(names)) # max
    BY <1>2, <1>3
  <2> QED
    BY <2>1, <2>2, <2>3, <2>4 DEF NameQueue
<1>4. CASE full(names)
  <2> DEFINE popped == pop_front(names)
  <2>1. delete_old(f, names, c) = [files |-> Removed(f, front(names)), names |-> push_back(popped, c)]
    BY <1>4 DEF delete_old
  <2>2. Len(Items(names)) = max /\ ~empty(names) /\ front(names) = Items(names)[1]
    BY <1>2, <1>4
  <2>3. popped \in Circular(n, V)
    <3> HIDE DEF n, V
    <3> QED
      BY <1>1, Popped
  <2>4. Items(popped) = Tail(Items(names)) /\ Items(names) # <<>>
    <3> HIDE DEF n, V
    <3> QED
      BY <1>1, <2>2, PopTakesFirst
  <2>5. Len(Items(popped)) = max - 1
    BY <1>2, <2>2, <2>4, HeadTailProperties
  <2>6. popped \in NameQueue(max)
    BY <2>3 DEF NameQueue
  <2> HIDE DEF popped
  <2>7. ~full(popped)
    BY <2>5, <2>6, FullQueue
  <2>8. push_back(popped, c) \in Circular(n, V) /\ Items(push_back(popped, c)) = Append(Items(popped), c)
    <3> HIDE DEF n, V
    <3>1. push_back(popped, c) \in Circular(n, V)
      BY <1>1, <2>3, Pushed
    <3>2. Items(push_back(popped, c)) = Append(Items(popped), c)
      BY <1>1, <2>3, <2>7, PushAppends
    <3> QED
      BY <3>1, <3>2
  <2> QED
    BY <2>1, <2>2, <2>4, <2>8 DEF NameQueue
<1> QED
  BY <1>3, <1>4

(* A queue of names of months that have been, up to this one.               *)
OldNames(max, month) ==
    {names \in NameQueue(max) :
        \A k \in 1..Len(Items(names)) : Items(names)[k] \in Months /\ Items(names)[k] <= month}

LEMMA OldNamesPushed ==
    ASSUME NEW max \in Nat \ {0}, NEW month \in Months, NEW names \in OldNames(max, month),
           NEW c \in Months, c <= month
    PROVE  push_back(names, c) \in OldNames(max, month)
<1> DEFINE n == max + 1
<1> DEFINE V == Months \cup {Moved}
<1> DEFINE N == Items(names)
<1>1. n \in Nat \ {0} /\ n \in Nat \ {0, 1} /\ names \in Circular(n, V) /\ c \in V /\ names \in NameQueue(max)
      /\ \A k \in 1..Len(N) : N[k] \in Months /\ N[k] <= month
  BY DEF NameQueue, OldNames
<1>2. N \in Seq(V) /\ Len(N) \in Nat
  BY <1>1, FullQueue
<1>3. push_back(names, c) \in Circular(n, V)
  <2> HIDE DEF n, V
  <2> QED
    BY <1>1, Pushed
<1> DEFINE M == IF full(names) THEN Tail(N) ELSE N
<1>4. Items(push_back(names, c)) = Append(M, c) /\ (full(names) => N # <<>>)
  <2>1. CASE ~full(names)
    <3>1. Items(push_back(names, c)) = Append(N, c)
      <4> HIDE DEF n, V
      <4> QED
        BY <1>1, <2>1, PushAppends
    <3> QED
      BY <2>1, <3>1
  <2>2. CASE full(names)
    <3>1. Items(push_back(names, c)) = Append(Tail(N), c)
      <4> HIDE DEF n, V
      <4> QED
        BY <1>1, <2>2, PushOverruns
    <3>2. Len(N) = max
      BY <1>1, <2>2, FullQueue
    <3>3. N # <<>>
      BY <3>2
    <3> QED
      BY <2>2, <3>1, <3>3
  <2> QED
    BY <2>1, <2>2
<1> HIDE DEF N
<1>5. M \in Seq(V) /\ Len(M) \in Nat /\ \A k \in 1..Len(M) : M[k] \in Months /\ M[k] <= month
  <2>1. CASE ~full(names)
    BY <1>1, <1>2, <2>1 DEF N
  <2>2. CASE full(names)
    <3>1. M \in Seq(V) /\ Len(M) = Len(N) - 1 /\ \A k \in 1..Len(M) : M[k] = N[k + 1]
      BY <1>2, <1>4, <2>2, HeadTailProperties
    <3>2. Len(M) \in Nat /\ \A k \in 1..Len(M) : k + 1 \in 1..Len(N)
      BY <1>2, <3>1, LenProperties
    <3> QED
      BY <1>1, <3>1, <3>2 DEF N
  <2> QED
    BY <2>1, <2>2
<1> HIDE DEF M
<1>6. /\ Len(Append(M, c)) = Len(M) + 1 /\ Append(M, c)[Len(M) + 1] = c
      /\ \A k \in 1..Len(M) : Append(M, c)[k] = M[k]
  BY <1>1, <1>5, OneMore
<1>7. ASSUME NEW k \in 1..(Len(M) + 1) PROVE Append(M, c)[k] \in Months /\ Append(M, c)[k] <= month
  <2>1. k = Len(M) + 1 \/ k \in 1..Len(M)
    BY <1>5
  <2> QED
    BY <1>5, <1>6, <2>1
<1> QED
  BY <1>3, <1>4, <1>6, <1>7 DEF OldNames, NameQueue

(* init_filenames_q finds names of months that have been.                   *)
LEMMA InitNames ==
    ASSUME NEW max \in Nat \ {0}, NEW now \in CalendarDays, max <= now, NEW f
    PROVE  init_filenames_q(f, max, now) \in OldNames(max, MonthOf(now))
<1> DEFINE month == MonthOf(now)
<1>1. now \in Int /\ now \in Nat /\ MonthStart[LastMonth] \in Int /\ now < MonthStart[LastMonth]
      /\ month \in Months
  BY MonthOfDay, MonthBegins, FileSinkAssumption DEF CalendarDays, Calendar
<1> DEFINE Found(k) == /\ \A i \in 0..(k - 1) : MonthOf(now - i) \in DOMAIN f
                       /\ k = max \/ MonthOf(now - k) \notin DOMAIN f
<1>2. \E k \in 0..max : Found(k)
  <2> DEFINE S == {k \in 0..max : k = max \/ MonthOf(now - k) \notin DOMAIN f}
  <2>1. max \in S /\ S \in SUBSET Nat
    OBVIOUS
  <2>2. PICK k \in S : \A j \in S : k <= j
    <3> HIDE DEF S
    <3>1. S # {}
      BY <2>1
    <3> QED
      BY <2>1, <3>1, LeastNumber
  <2>3. ASSUME NEW i \in 0..(k - 1) PROVE MonthOf(now - i) \in DOMAIN f
    <3>1. i \in 0..max /\ ~(k <= i)
      OBVIOUS
    <3>2. i \notin S
      BY <2>2, <3>1
    <3> QED
      BY <3>1, <3>2
  <2> QED
    BY <2>3
<1> DEFINE exist == CHOOSE k \in 0..max : Found(k)
<1>3. exist \in 0..max
  <2> HIDE DEF Found
  <2> QED
    BY <1>2
<1> DEFINE item(k) == MonthOf(now - (exist - k))
<1> DEFINE P(g) == g = [k \in 0..exist |-> IF k = 0 THEN circular_q(max)
                                           ELSE push_back(g[k - 1], MonthOf(now - (exist - k)))]
<1> DEFINE Push == CHOOSE g : P(g)
<1>4. init_filenames_q(f, max, now) = Push[exist]
  BY DEF init_filenames_q
<1> HIDE DEF exist, Found
<1> DEFINE Old == OldNames(max, month)
<1>5. ASSUME NEW k \in 1..exist PROVE item(k) \in Months /\ item(k) <= month
  <2>1. now - (exist - k) \in CalendarDays /\ now - (exist - k) <= now
    BY <1>1, <1>3 DEF CalendarDays
  <2> QED
    BY <2>1, MonthOfDay, DaysInOrder
<1> HIDE DEF month
<1>6. circular_q(max) \in Old
  <2>1. circular_q(max) \in Circular(max + 1, {Moved}) /\ Items(circular_q(max)) = <<>>
    BY NewQueue
  <2>2. circular_q(max) \in NameQueue(max)
    <3>1. {Moved} \subseteq Months \cup {Moved}
      OBVIOUS
    <3> QED
      BY <2>1, <3>1, Widened DEF NameQueue
  <2>3. Len(Items(circular_q(max))) = 0
    BY <2>1
  <2> QED
    BY <2>2, <2>3 DEF OldNames
<1>7. ASSUME NEW k \in 1..exist, NEW names \in Old PROVE push_back(names, item(k)) \in Old
  BY <1>1, <1>5, OldNamesPushed DEF month
<1> HIDE DEF item
<1> DEFINE step == [k \in 1..exist |-> [names \in Old |-> push_back(names, item(k))]]
<1>8. PICK g : ByRecursion(g, circular_q(max), step, exist)
  <2>1. exist \in Nat
    BY <1>3
  <2> HIDE DEF step
  <2> QED
    BY <2>1, Recursion
<1>9. g[0] = circular_q(max) /\ \A k \in 1..exist : g[k] = step[k][g[k - 1]]
  <2>1. exist \in Nat
    BY <1>3
  <2> HIDE DEF step
  <2> QED
    BY <1>8, <2>1, RecursionRuns
<1>s. ASSUME NEW k \in 1..exist, NEW names \in Old PROVE step[k][names] = push_back(names, item(k))
  OBVIOUS
<1> HIDE DEF step
<1>10. \A k \in 0..exist : g[k] \in Old
  <2> DEFINE S == {k \in Nat : k \in 0..exist /\ g[k] \notin Old}
  <2> SUFFICES ASSUME S # {} PROVE FALSE
    BY <1>3
  <2>1. PICK k \in S : \A j \in S : k <= j
    <3>1. S \in SUBSET Nat
      OBVIOUS
    <3> HIDE DEF S
    <3> QED
      BY <3>1, LeastNumber
  <2>2. k # 0
    BY <1>6, <1>9, <2>1
  <2>3. k \in 1..exist /\ k - 1 \in Nat /\ k - 1 \in 0..exist /\ ~(k <= k - 1)
    BY <1>3, <2>1, <2>2
  <2>4. g[k - 1] \in Old
    BY <2>1, <2>3
  <2>5. g[k] = push_back(g[k - 1], item(k))
    BY <1>9, <1>s, <2>3, <2>4
  <2> QED
    BY <1>7, <2>1, <2>3, <2>4, <2>5
<1>11. P(g)
  <2> DEFINE c(k) == IF k = 0 THEN circular_q(max) ELSE step[k][g[k - 1]]
  <2> DEFINE d(k) == IF k = 0 THEN circular_q(max) ELSE push_back(g[k - 1], MonthOf(now - (exist - k)))
  <2>1. ASSUME NEW k \in 0..exist PROVE c(k) = d(k)
    <3>1. CASE k = 0
      BY <3>1
    <3>2. CASE k # 0
      <4>1. k \in 1..exist /\ k - 1 \in 0..exist
        BY <1>3, <3>2
      <4>2. step[k][g[k - 1]] = push_back(g[k - 1], item(k))
        BY <1>10, <1>s, <4>1
      <4> QED
        BY <3>2, <4>2 DEF item
    <3> QED
      BY <3>1, <3>2
  <2>2. g = [k \in 0..exist |-> c(k)]
    BY <1>8 DEF ByRecursion
  <2>3. g = [k \in 0..exist |-> d(k)]
    <3> HIDE DEF c, d
    <3> QED
      BY <2>1, <2>2
  <2> QED
    BY <2>3
<1>12. P(Push)
  <2> HIDE DEF P
  <2> QED
    BY <1>11
<1>13. \A k \in 0..exist : Push[k] \in Old
  <2> DEFINE S == {k \in Nat : k \in 0..exist /\ Push[k] \notin Old}
  <2> SUFFICES ASSUME S # {} PROVE FALSE
    <3> HIDE DEF Push
    <3> QED
      BY <1>3
  <2>1. PICK k \in S : \A j \in S : k <= j
    <3>1. S \in SUBSET Nat
      OBVIOUS
    <3> HIDE DEF S
    <3> QED
      BY <3>1, LeastNumber
  <2> HIDE DEF Push
  <2>2. Push = [j \in 0..exist |-> IF j = 0 THEN circular_q(max)
                                   ELSE push_back(Push[j - 1], MonthOf(now - (exist - j)))]
    BY <1>12
  <2>3. k \in 0..exist /\ Push[k] \notin Old
    BY <2>1
  <2>4. CASE k = 0
    <3>1. Push[0] = circular_q(max)
      BY <1>3, <2>2
    <3> QED
      BY <1>6, <2>3, <2>4, <3>1
  <2>5. CASE k # 0
    <3>1. k \in 1..exist /\ k - 1 \in Nat /\ k - 1 \in 0..exist /\ ~(k <= k - 1)
      BY <1>3, <2>3, <2>5
    <3>2. Push[k - 1] \in Old
      BY <2>1, <3>1
    <3>3. Push[k] = push_back(Push[k - 1], item(k))
      <4> DEFINE e(j) == IF j = 0 THEN circular_q(max) ELSE push_back(Push[j - 1], MonthOf(now - (exist - j)))
      <4>1. Push = [j \in 0..exist |-> e(j)]
        BY <2>2
      <4>2. e(k) = push_back(Push[k - 1], item(k))
        BY <2>5 DEF item
      <4> HIDE DEF e
      <4> QED
        BY <2>3, <4>1, <4>2
    <3> QED
      BY <1>7, <2>3, <3>1, <3>2, <3>3
  <2> QED
    BY <2>4, <2>5
<1> HIDE DEF Push
<1> QED
  BY <1>3, <1>4, <1>13 DEF month
-----------------------------------------------------------------------------
(* Which files are there *)

(* The month of the time the sink's file is named after.                    *)
FileMonth == MonthOf(sink.stamp)

(* A rotation opens the file of a later month than any before it, and that  *)
(* file stays until the next one.                                           *)
InOrder ==
    /\ Rising(sink.opened) /\ sink.opened[Len(sink.opened)] = FileMonth
    /\ pc[Main] = "opened" => Len(sink.opened) = 1
    /\ MonthStart[FirstMonth + 7] <= sink.stamp /\ sink.stamp <= clock
    /\ sink.open => sink.file = FileMonth
    /\ Ready => MonthStart[FileMonth + 1] <= sink.rotation
    /\ pc[Main] # "start" => FileMonth \in DOMAIN files

(* The queue has the names of the last files opened, up to max_files.       *)
ByCount ==
    conf.max_files > 0 =>
        /\ Holding(sink.opened, Items(sink.names), DOMAIN files, conf.periodical, sink.rotation)
        /\ Enough(sink.opened, Items(sink.names), conf.max_files)
        /\ Ready => sink.names \in NameQueue(conf.max_files)

(* The periodical sink deletes the file of seven months ago.                *)
ByAge == conf.periodical /\ Ready /\ DayOf(sink.stamp) <= 28 => FileMonth - 7 \notin DOMAIN files

(* If it does not count files, it deletes no later one of those there were. *)
NoneYounger ==
    conf.max_files = 0 =>
        \A m \in conf.existing :
            \/ m \in DOMAIN files
            \/ m + 7 <= FileMonth
            \/ m + 6 <= FileMonth /\ DayOf(sink.stamp) > 28

Retention == InOrder /\ ByCount /\ ByAge /\ NoneYounger

(* What the configuration says of the sink. *)
LEMMA SinkConfigured ==
    ASSUME conf \in Configurations
    PROVE  /\ conf.max_files \in Nat /\ conf.existing \subseteq Months
           /\ \A t \in conf.days : t \in CalendarDays /\ conf.max_files <= t /\ MonthStart[FirstMonth + 7] <= t
BY AsyncLoggerAssumption DEF CalendarDays

(* A sink that was just made has opened one file, and has no names.         *)
LEMMA OneFile ==
    ASSUME NEW m \in Months, NEW max \in Nat, NEW D, NEW periodical, NEW r
    PROVE  /\ Rising(<<m>>) /\ <<m>>[Len(<<m>>)] = m /\ Len(<<m>>) = 1
           /\ Holding(<<m>>, <<>>, D, periodical, r) /\ Enough(<<m>>, <<>>, max)
<1>1. <<m>> \in Seq(Months) /\ Len(<<m>>) = 1 /\ <<m>>[1] = m
  OBVIOUS
<1>2. Rising(<<m>>)
  BY <1>1 DEF Rising
<1>3. Len(<<>>) = 0 /\ <<>> \in Seq(Months \cup {Moved})
  OBVIOUS
<1> DEFINE N == <<>>
<1> DEFINE o == <<m>>
<1>4. Len(N) = 0 /\ N \in Seq(Months \cup {Moved}) /\ Len(o) = 1
  BY <1>1, <1>3
<1> HIDE DEF N, o
<1>5. Holding(o, N, D, periodical, r) /\ Enough(o, N, max)
  BY <1>4 DEF Holding, Enough, Before
<1> QED
  BY <1>1, <1>2, <1>5 DEF N, o

(* The names of a queue that was just made for none.                        *)
LEMMA NoNames == Items(circular_q(0)) = <<>>
<1>1. 0 \in Nat
  OBVIOUS
<1> QED
  BY <1>1, NewQueue

(* The sink's fields, in their types.                                       *)
LEMMA SinkTyped ==
    ASSUME Typed, Sinks
    PROVE  /\ sink.stamp \in CalendarDays /\ sink.stamp \in Int /\ sink.rotation \in Int
           /\ FileMonth \in Months /\ FileMonth \in Int /\ FileMonth + 1 \in Calendar
           /\ MonthStart[FileMonth + 1] \in Int /\ sink.stamp < MonthStart[FileMonth + 1]
           /\ clock \in CalendarDays /\ clock \in Int /\ MonthOf(clock) \in Months /\ MonthOf(clock) \in Int
           /\ MonthStart[FirstMonth + 7] \in Int
           /\ DayOf(sink.stamp) \in Int
<1>1. PICK names : sink \in Sink(names)
  BY DEF Sinks
<1>2. sink.stamp \in CalendarDays /\ sink.rotation \in Int
  BY <1>1 DEF Sink
<1>3. sink.stamp \in Int /\ FileMonth \in Months /\ sink.stamp < MonthStart[FileMonth + 1]
  BY <1>2, MonthOfDay DEF CalendarDays, FileMonth
<1>4. clock \in CalendarDays /\ clock \in Int /\ MonthOf(clock) \in Months
  BY Today, MonthOfDay DEF CalendarDays
<1>5. FirstMonth + 7 \in Calendar
  BY FileSinkAssumption DEF Calendar
<1>6. MonthStart[FirstMonth + 7] \in Int
  BY <1>5, MonthBegins
<1> QED
  BY <1>2, <1>3, <1>4, <1>6, MonthsTyped, DayTyped

(* The program starts with no file opened by a rotation.                    *)
LEMMA RetentionInit ==
    ASSUME Init PROVE Retention
<1>1. Typed /\ Sinks
  BY InvariantInit DEF IInv, MInv, OfSink
<1>2. /\ sink = NewSink(clock) /\ pc[Main] = "start" /\ files = [m \in conf.existing |-> {}]
  BY DEF Init, Posters
<1>3. clock \in conf.days /\ conf \in Configurations /\ clock \in Int /\ MonthOf(clock) \in Months
      /\ MonthOf(clock) \in Int
  BY <1>1, SinkTyped DEF Typed
<1>4. /\ sink.opened = <<MonthOf(clock)>> /\ sink.stamp = clock /\ sink.file = FileMonth
      /\ sink.names = circular_q(0) /\ FileMonth = MonthOf(clock)
  BY <1>2 DEF NewSink, FileMonth
<1>5. InOrder
  BY <1>2, <1>3, <1>4, SinkConfigured, OneFile DEF InOrder, Ready
<1>6. ByCount
  <2>1. Items(sink.names) = <<>> /\ conf.max_files \in Nat
    BY <1>3, <1>4, NoNames, SinkConfigured
  <2> QED
    BY <1>2, <1>3, <1>4, <2>1, OneFile DEF ByCount, Ready
<1>7. ByAge /\ NoneYounger
  BY <1>2 DEF ByAge, NoneYounger, Ready
<1> QED
  BY <1>5, <1>6, <1>7 DEF Retention

(* A step aside of the sink deletes nothing. *)
LEMMA RetentionAside ==
    ASSUME Typed, Sinks, Retention, Aside, clock <= clock', clock' \in Int
    PROVE  Retention'
<1>1. /\ UNCHANGED <<conf, files, sink>> /\ (Ready' <=> Ready)
      /\ pc'[Main] = "opened" => pc[Main] = "opened"
      /\ pc'[Main] # "start" => pc[Main] # "start"
  BY DEF Aside, sinkVars, Ready
<1>2. FileMonth' = FileMonth
  BY <1>1 DEF FileMonth
<1>3. sink.stamp <= clock'
  BY SinkTyped DEF Retention, InOrder
<1>4. InOrder'
  BY <1>1, <1>2, <1>3 DEF Retention, InOrder
<1>5. ByCount'
  BY <1>1 DEF Retention, ByCount
<1>6. ByAge' /\ NoneYounger'
  BY <1>1, <1>2 DEF Retention, ByAge, NoneYounger
<1> QED
  BY <1>4, <1>5, <1>6 DEF Retention

(* The next program finds the sink as it was left. *)
LEMMA RetentionRestart ==
    ASSUME MInv, Retention, Restart
    PROVE  Retention'
<1>1. UNCHANGED <<conf, clock, files, sink>> /\ pc'[Main] = "start"
  BY AwaitedRestarted
<1>2. FileMonth' = FileMonth /\ ~Ready'
  BY <1>1 DEF FileMonth, Ready
<1>3. InOrder'
  BY <1>1, <1>2 DEF Retention, InOrder
<1>4. ByCount' /\ ByAge' /\ NoneYounger'
  BY <1>1, <1>2 DEF Retention, ByCount, ByAge, NoneYounger
<1> QED
  BY <1>3, <1>4 DEF Retention

(* A day later in the same month has a greater number. *)
LEMMA LaterInMonth ==
    ASSUME NEW t \in CalendarDays, NEW u \in CalendarDays, t <= u, MonthOf(t) = MonthOf(u)
    PROVE  DayOf(t) <= DayOf(u)
BY DayTyped

(* The constructor opens the file of the day's month.                       *)
LEMMA RetentionOpenFirst ==
    ASSUME Typed, Sinks, Retention, OpenFirst
    PROVE  Retention'
<1>0. Main \in Posters
  BY DEF Posters
<1>1. /\ pc'[Main] = "opened" /\ UNCHANGED <<conf, clock>>
      /\ files' = Opened(files, MonthOf(clock), conf.truncate)
      /\ sink' = NewSink(clock)
  BY <1>0 DEF OpenFirst, Typed
<1>2. clock \in conf.days /\ conf \in Configurations /\ clock \in Int /\ MonthOf(clock) \in Months
      /\ clock \in CalendarDays
  BY SinkTyped DEF Typed
<1>3. /\ sink'.opened = <<MonthOf(clock)>> /\ sink'.stamp = clock /\ sink'.file = MonthOf(clock)
      /\ sink'.names = circular_q(0) /\ FileMonth' = MonthOf(clock) /\ ~Ready'
  BY <1>1 DEF NewSink, FileMonth, Ready
<1>4. DOMAIN files' = DOMAIN files \cup {MonthOf(clock)}
  BY <1>1 DEF Opened
<1>5. InOrder'
  BY <1>1, <1>2, <1>3, <1>4, SinkConfigured, OneFile DEF InOrder
<1>6. ByCount'
  <2>1. Items(sink'.names) = <<>> /\ conf.max_files \in Nat
    BY <1>2, <1>3, NoNames, SinkConfigured
  <2> QED
    BY <1>1, <1>2, <1>3, <2>1, OneFile DEF ByCount
<1>7. ByAge'
  BY <1>3 DEF ByAge
<1>8. NoneYounger'
  <2> SUFFICES ASSUME conf.max_files = 0, NEW m \in conf.existing
               PROVE  \/ m \in DOMAIN files'
                      \/ m + 7 <= MonthOf(clock)
                      \/ m + 6 <= MonthOf(clock) /\ DayOf(clock) > 28
    BY <1>1, <1>3 DEF NoneYounger
  <2>1. \/ m \in DOMAIN files
        \/ m + 7 <= FileMonth
        \/ m + 6 <= FileMonth /\ DayOf(sink.stamp) > 28
    BY DEF Retention, NoneYounger
  <2>2. m \in Int
    BY <1>2, SinkConfigured, MonthsTyped
  <2>3. /\ FileMonth <= MonthOf(clock) /\ FileMonth \in Int /\ MonthOf(clock) \in Int
        /\ sink.stamp \in CalendarDays /\ DayOf(sink.stamp) \in Int /\ DayOf(clock) \in Int
        /\ sink.stamp <= clock
    BY <1>2, SinkTyped, DaysInOrder, DayTyped DEF FileMonth, Retention, InOrder
  <2>4. CASE FileMonth = MonthOf(clock)
    <3>1. DayOf(sink.stamp) <= DayOf(clock)
      BY <1>2, <2>3, <2>4, LaterInMonth DEF FileMonth
    <3> QED
      BY <1>4, <2>1, <2>2, <2>3, <2>4, <3>1
  <2>5. CASE FileMonth # MonthOf(clock)
    BY <1>4, <2>1, <2>2, <2>3, <2>5
  <2> QED
    BY <2>4, <2>5
<1> QED
  BY <1>5, <1>6, <1>7, <1>8 DEF Retention

(* The month the periodical sink deletes when it opens a file.              *)
LEMMA Deleted ==
    ASSUME NEW t \in CalendarDays, MonthStart[FirstMonth + 7] <= t
    PROVE  LET x == MonthOf(before_7_month(t))
           IN  /\ x \in Int /\ x + 6 <= MonthOf(t)
               /\ DayOf(t) <= 28 => x = MonthOf(t) - 7
               /\ x + 7 <= MonthOf(t) \/ DayOf(t) > 28
<1>1. /\ MonthOf(t) \in Int /\ DayOf(t) \in Int
      /\ \/ MonthOf(before_7_month(t)) = MonthOf(t) - 7
         \/ MonthOf(before_7_month(t)) = MonthOf(t) - 6 /\ DayOf(t) > 28
  BY SevenMonthsBack, DayTyped, MonthsTyped
<1> DEFINE x == MonthOf(before_7_month(t))
<1> DEFINE c == MonthOf(t)
<1> DEFINE d == DayOf(t)
<1>2. c \in Int /\ d \in Int /\ (x = c - 7 \/ (x = c - 6 /\ d > 28))
  BY <1>1, Zenon
<1> HIDE DEF x, c, d
<1>3. /\ x \in Int /\ x + 6 <= c
      /\ d <= 28 => x = c - 7
      /\ x + 7 <= c \/ d > 28
  BY <1>2
<1> QED
  BY <1>3 DEF x, c, d

(* The constructor takes the names of the files of the last days, and has   *)
(* the periodical sink delete for the first time.                           *)
LEMMA RetentionConstruct ==
    ASSUME Typed, Sinks, Retention, ConstructSink
    PROVE  Retention'
<1> DEFINE names == IF conf.max_files > 0 THEN init_filenames_q(files, conf.max_files, clock)
                                          ELSE circular_q(0)
<1> DEFINE x == MonthOf(before_7_month(sink.stamp))
<1> DEFINE r == next_rotation_tp(clock)
<1>0. Main \in Posters
  BY DEF Posters
<1>1. /\ pc[Main] = "opened" /\ pc'[Main] = "up" /\ UNCHANGED <<conf, clock>>
      /\ files' = IF conf.periodical THEN Removed(files, x) ELSE files
      /\ sink' = [sink EXCEPT !.rotation = r, !.late = MonthOf(clock) # sink.file, !.names = names]
  <2>1. pc[Main] = "opened" /\ pc'[Main] = "up" /\ UNCHANGED <<conf, clock>>
    BY <1>0 DEF ConstructSink, Typed
  <2>2. files' = IF conf.periodical THEN Removed(files, x) ELSE files
    BY Zenon DEF ConstructSink
  <2>3. sink' = [sink EXCEPT !.rotation = r, !.late = MonthOf(clock) # sink.file, !.names = names]
    BY Zenon DEF ConstructSink
  <2> QED
    BY <2>1, <2>2, <2>3
<1> HIDE DEF names, x, r
<1>2. /\ sink'.stamp = sink.stamp /\ sink'.opened = sink.opened /\ sink'.open = sink.open
      /\ sink'.file = sink.file /\ sink'.rotation = r /\ sink'.names = names
      /\ FileMonth' = FileMonth /\ Ready'
  <2>1. PICK ns : sink \in Sink(ns)
    BY DEF Sinks
  <2> QED
    BY <1>1, <2>1 DEF Sink, FileMonth, Ready
<1>3. /\ clock \in conf.days /\ conf \in Configurations /\ clock \in Int /\ MonthOf(clock) \in Months
      /\ clock \in CalendarDays /\ sink.stamp \in CalendarDays /\ MonthOf(clock) \in Int
      /\ FileMonth \in Months /\ FileMonth \in Int /\ DayOf(sink.stamp) \in Int /\ sink.stamp \in Int
      /\ conf.max_files \in Nat /\ conf.max_files <= clock /\ conf.existing \subseteq Months
  BY SinkTyped, SinkConfigured DEF Typed
<1>4. /\ sink.stamp <= clock /\ MonthStart[FirstMonth + 7] <= sink.stamp
      /\ FileMonth \in DOMAIN files /\ Rising(sink.opened) /\ Len(sink.opened) = 1
      /\ sink.opened[Len(sink.opened)] = FileMonth
      /\ sink.open => sink.file = FileMonth
  BY <1>1 DEF Retention, InOrder
<1>5. /\ x \in Int /\ x + 6 <= FileMonth
      /\ DayOf(sink.stamp) <= 28 => x = FileMonth - 7
      /\ x + 7 <= FileMonth \/ DayOf(sink.stamp) > 28
  BY <1>3, <1>4, Deleted DEF x, FileMonth
<1>6. DOMAIN files' = DOMAIN files \ (IF conf.periodical THEN {x} ELSE {})
  BY <1>1 DEF Removed
<1>7. r = MonthStart[MonthOf(clock) + 1] /\ MonthStart[FileMonth + 1] <= r /\ r \in Int
  <2>1. FileMonth <= MonthOf(clock) /\ r = MonthStart[MonthOf(clock) + 1]
    BY <1>3, <1>4, DaysInOrder, RotationAtTheTurn DEF r, FileMonth
  <2>2. FileMonth + 1 \in Calendar /\ MonthOf(clock) + 1 \in Calendar /\ FileMonth + 1 <= MonthOf(clock) + 1
    BY <1>3, <2>1, MonthsTyped
  <2> QED
    BY <1>3, <2>1, <2>2, StartsInOrder, MonthsTyped
<1>8. InOrder'
  <2>1. FileMonth \in DOMAIN files'
    BY <1>3, <1>4, <1>5, <1>6
  <2> QED
    BY <1>1, <1>2, <1>4, <1>7, <2>1 DEF InOrder
<1>9. ByCount'
  <2> SUFFICES ASSUME conf.max_files > 0
               PROVE  /\ Holding(sink.opened, Items(names), DOMAIN files', conf.periodical, r)
                      /\ Enough(sink.opened, Items(names), conf.max_files)
                      /\ names \in NameQueue(conf.max_files)
    BY <1>1, <1>2 DEF ByCount
  <2> DEFINE N == Items(names)
  <2>1. conf.max_files \in Nat \ {0}
    BY <1>3
  <2>2. names \in OldNames(conf.max_files, MonthOf(clock))
    BY <1>3, <2>1, InitNames DEF names
  <2>3. /\ names \in NameQueue(conf.max_files)
        /\ \A k \in 1..Len(N) : N[k] \in Months /\ N[k] <= MonthOf(clock)
    BY <2>2 DEF OldNames
  <2>4. N \in Seq(Months \cup {Moved}) /\ Len(N) \in 0..conf.max_files
    BY <2>1, <2>3, FullQueue
  <2> HIDE DEF N
  <2>5. Before(sink.opened, N) = 1 - Len(N) /\ Len(N) \in Nat
    BY <1>3, <1>4, <2>4 DEF Before
  <2>6. ASSUME NEW k \in 1..Len(N) PROVE Naming(sink.opened, N, r, k)
    <3>1. N[k] \in Months /\ N[k] \in Int /\ N[k] + 1 \in Calendar /\ N[k] <= MonthOf(clock)
      BY <2>3, MonthsTyped
    <3>2. MonthStart[N[k] + 1] <= r
      BY <1>3, <1>7, <3>1, MonthsTyped, StartsInOrder
    <3>3. ~(Before(sink.opened, N) + k >= 2)
      BY <2>5
    <3> QED
      BY <1>4, <3>1, <3>2, <3>3 DEF Naming
  <2>7. Holding(sink.opened, N, DOMAIN files', conf.periodical, r)
    BY <1>4, <2>4, <2>6 DEF Holding
  <2>8. Enough(sink.opened, N, conf.max_files)
    BY <2>4, <2>5 DEF Enough
  <2> QED
    BY <2>3, <2>7, <2>8 DEF N
<1>10. ByAge'
  <2>1. conf.periodical /\ DayOf(sink.stamp) <= 28 => FileMonth - 7 \notin DOMAIN files'
    BY <1>5, <1>6
  <2> QED
    BY <1>1, <1>2, <2>1 DEF ByAge
<1>11. NoneYounger'
  <2> SUFFICES ASSUME conf.max_files = 0, NEW m \in conf.existing
               PROVE  \/ m \in DOMAIN files'
                      \/ m + 7 <= FileMonth
                      \/ m + 6 <= FileMonth /\ DayOf(sink.stamp) > 28
    BY <1>1, <1>2 DEF NoneYounger
  <2>1. \/ m \in DOMAIN files
        \/ m + 7 <= FileMonth
        \/ m + 6 <= FileMonth /\ DayOf(sink.stamp) > 28
    BY DEF Retention, NoneYounger
  <2>2. m \in DOMAIN files => m \in DOMAIN files' \/ m = x
    BY <1>6
  <2> QED
    BY <1>5, <2>1, <2>2
<1> QED
  BY <1>8, <1>9, <1>10, <1>11 DEF Retention

(* A rotation that fails, and a message that is written, leave the files.   *)
LEMMA RetentionSameFiles ==
    ASSUME Retention, UNCHANGED <<conf, clock, pc>>, DOMAIN files' = DOMAIN files,
           sink'.stamp = sink.stamp, sink'.opened = sink.opened, sink'.rotation = sink.rotation,
           sink'.names = sink.names, sink'.open => sink.open /\ sink'.file = sink.file
    PROVE  Retention'
<1>1. FileMonth' = FileMonth /\ (Ready' <=> Ready)
  BY DEF FileMonth, Ready
<1>2. InOrder'
  BY <1>1 DEF Retention, InOrder
<1>3. ByCount'
  BY <1>1 DEF Retention, ByCount
<1>4. ByAge' /\ NoneYounger'
  BY <1>1 DEF Retention, ByAge, NoneYounger
<1> QED
  BY <1>2, <1>3, <1>4 DEF Retention

(* A rotation opens the file of a new month, and deletes the oldest.        *)
LEMMA RetentionRotate ==
    ASSUME Typed, Sinks, Rotation, Retention, Ready, NEW m \in Messages, m.time <= clock, Rotate(m),
           UNCHANGED <<conf, clock, pc>>
    PROVE  Retention'
<1> DEFINE c == MonthOf(m.time)
           x == MonthOf(before_7_month(m.time))
           opened == Opened(files, c, conf.truncate)
           kept   == IF conf.periodical THEN Removed(opened, x) ELSE opened
           fresh  == Written(kept, c, m.id)
           old    == delete_old(fresh, sink.names, c)
           r == next_rotation_tp(clock)
           o == sink.opened
           N == Items(sink.names)
           max == conf.max_files
           M == Items(sink'.names)
           E == DOMAIN fresh
<1>1. /\ m.time >= sink.rotation
      /\ files' = IF max > 0 THEN old.files ELSE fresh
      /\ sink'.open /\ sink'.file = c /\ sink'.stamp = m.time /\ sink'.rotation = r
      /\ sink'.names = IF max > 0 THEN old.names ELSE sink.names
      /\ sink'.opened = Append(o, c)
  <2>1. /\ m.time >= sink.rotation
        /\ files' = IF max > 0 THEN old.files ELSE fresh
        /\ sink' = [open |-> TRUE, file |-> c, stamp |-> m.time, late |-> MonthOf(clock) # c,
                    rotation |-> r, names |-> IF max > 0 THEN old.names ELSE sink.names,
                    opened |-> Append(o, c)]
    BY Zenon DEF Rotate, Rotates
  <2> HIDE DEF c, old, fresh, r, o, max
  <2> QED
    BY <2>1
<1>2. m.time \in CalendarDays /\ m.time \in Int /\ c \in Months /\ c \in Int /\ c + 1 \in Calendar
      /\ DayOf(m.time) \in Int
  BY Kinds, DayTyped, MonthsTyped DEF CalendarDays
<1>3. /\ conf \in Configurations /\ max \in Nat /\ conf.existing \subseteq Months
      /\ FileMonth \in Months /\ FileMonth \in Int /\ sink.stamp \in Int /\ sink.rotation \in Int
      /\ MonthStart[FileMonth + 1] \in Int /\ sink.stamp < MonthStart[FileMonth + 1]
      /\ FileMonth + 1 \in Calendar /\ MonthStart[FirstMonth + 7] \in Int
      /\ clock \in CalendarDays /\ MonthOf(clock) \in Months /\ MonthOf(clock) \in Int
  BY SinkTyped, SinkConfigured DEF Typed
<1>4. /\ Rising(o) /\ o[Len(o)] = FileMonth /\ MonthStart[FirstMonth + 7] <= sink.stamp
      /\ MonthStart[FileMonth + 1] <= sink.rotation
  BY DEF Retention, InOrder
<1>5. MonthStart[FileMonth + 1] <= m.time /\ MonthStart[FirstMonth + 7] <= m.time
  <2>1. \A a, b, d, e, f \in Int :
            a <= b /\ b <= d /\ e <= f /\ f < a => a <= d /\ e <= d
    BY SMT
  <2>2. sink.rotation <= m.time
    <3>1. m.time >= sink.rotation /\ m.time \in Int /\ sink.rotation \in Int
      BY <1>1, <1>2, <1>3, Zenon
    <3>2. \A a, b \in Int : a >= b => b <= a
      BY SMT
    <3> QED
      BY <3>1, <3>2, Zenon
  <2>3. /\ MonthStart[FileMonth + 1] \in Int /\ sink.rotation \in Int /\ m.time \in Int
        /\ MonthStart[FirstMonth + 7] \in Int /\ sink.stamp \in Int
    BY <1>2, <1>3, Zenon
  <2>4. /\ MonthStart[FileMonth + 1] <= sink.rotation /\ MonthStart[FirstMonth + 7] <= sink.stamp
        /\ sink.stamp < MonthStart[FileMonth + 1]
    BY <1>3, <1>4, Zenon
  <2> QED
    BY <2>1, <2>2, <2>3, <2>4, Zenon
<1>6. FileMonth < c
  BY <1>2, <1>3, <1>5, DayAndMonth
<1>7. /\ x \in Int /\ x + 6 <= c
      /\ DayOf(m.time) <= 28 => x = c - 7
      /\ x + 7 <= c \/ DayOf(m.time) > 28
  BY <1>2, <1>5, Deleted
<1>8. sink.rotation <= r /\ r \in Int /\ MonthStart[c + 1] <= r
  <2>1. sink.rotation <= r /\ r \in Int /\ r = MonthStart[MonthOf(clock) + 1]
    BY RotationsGoOn DEF Rotation
  <2>2. c <= MonthOf(clock)
    BY <1>2, <1>3, DaysInOrder
  <2>3. c + 1 \in Calendar /\ MonthOf(clock) + 1 \in Calendar /\ c + 1 <= MonthOf(clock) + 1
    BY <1>2, <1>3, <2>2, MonthsTyped
  <2> QED
    BY <2>1, <2>3, StartsInOrder
<1>9. E = (DOMAIN files \cup {c}) \ (IF conf.periodical THEN {x} ELSE {})
  <2>1. DOMAIN opened = DOMAIN files \cup {c}
    BY DEF Opened
  <2>2. DOMAIN kept = (DOMAIN files \cup {c}) \ (IF conf.periodical THEN {x} ELSE {})
    <3> HIDE DEF opened
    <3> QED
      BY <2>1 DEF Removed
  <2>3. DOMAIN fresh = DOMAIN kept
    <3> HIDE DEF kept
    <3> QED
      BY DEF Written
  <2> QED
    BY <2>2, <2>3
<1>m. FileMonth' = c
  BY <1>1 DEF FileMonth
<1> HIDE DEF c, x, opened, kept, fresh, r, o, N, max, M, E
<1>10. /\ c \in E
       /\ \A k \in E : k = c \/ k \in DOMAIN files
       /\ \A k \in DOMAIN files : k \in E \/ (conf.periodical /\ k = x)
       /\ conf.periodical => x \notin E
  BY <1>2, <1>7, <1>9
<1>11. /\ Rising(Append(o, c)) /\ Append(o, c)[Len(o) + 1] = c
       /\ Len(Append(o, c)) = Len(o) + 1 /\ Len(o) \in Nat \ {0}
       /\ \A i \in 1..Len(o) : o[i] < c
  BY <1>2, <1>4, <1>6, StillRising DEF Rising
<1>12. max > 0 => /\ Holding(Append(o, c), M, DOMAIN files', conf.periodical, r)
                  /\ Enough(Append(o, c), M, max)
                  /\ sink'.names \in NameQueue(max)
                  /\ c \in DOMAIN files' /\ DOMAIN files' \subseteq E
  <2> SUFFICES ASSUME max > 0
               PROVE  /\ Holding(Append(o, c), M, DOMAIN files', conf.periodical, r)
                      /\ Enough(Append(o, c), M, max)
                      /\ sink'.names \in NameQueue(max)
                      /\ c \in DOMAIN files' /\ DOMAIN files' \subseteq E
    OBVIOUS
  <2>1. /\ max \in Nat \ {0} /\ sink.names \in NameQueue(max)
        /\ Holding(o, N, DOMAIN files, conf.periodical, sink.rotation)
        /\ Enough(o, N, max)
    BY <1>3 DEF Retention, ByCount, o, N, max
  <2>2. /\ old.names \in NameQueue(max) /\ files' = old.files /\ sink'.names = old.names
        /\ Len(N) < max => old.files = fresh /\ Items(old.names) = Append(N, c)
        /\ Len(N) = max => old.files = Removed(fresh, N[1]) /\ Items(old.names) = Append(Tail(N), c)
    <3>1. files' = old.files /\ sink'.names = old.names
      BY <1>1
    <3>2. /\ old.names \in NameQueue(max)
          /\ Len(N) < max => old.files = fresh /\ Items(old.names) = Append(N, c)
          /\ Len(N) = max => old.files = Removed(fresh, N[1]) /\ Items(old.names) = Append(Tail(N), c)
      BY <1>2, <2>1, DeletedOld DEF N
    <3> QED
      BY <3>1, <3>2
  <2> HIDE DEF old
  <2>3. /\ N \in Seq(Months \cup {Moved}) /\ Len(N) \in 0..max
        /\ Len(N) = max \/ Before(o, N) <= 1
        /\ Before(o, N) = Len(o) - Len(N)
    BY <2>1 DEF Holding, Enough, Before
  <2>4. ASSUME NEW k \in 1..Len(N), MonthStart[N[k] + 1] <= sink.rotation PROVE N[k] < c
    <3>1. N[k] \in Months
      BY <2>1 DEF Holding, Naming
    <3>2. MonthStart[N[k] + 1] \in Int /\ N[k] + 1 \in Calendar
      BY <3>1, MonthsTyped
    <3>3. MonthStart[N[k] + 1] <= m.time
      <4>1. \A a, b, d \in Int : a <= b /\ d >= b => a <= d
        BY SMT
      <4>2. m.time >= sink.rotation /\ m.time \in Int /\ sink.rotation \in Int
        BY <1>1, <1>2, <1>3, Zenon
      <4> QED
        BY <2>4, <3>2, <4>1, <4>2, Zenon
    <3> QED
      BY <1>2, <3>1, <3>2, <3>3, DayAndMonth DEF c
  <2> DEFINE before == sink.rotation
  <2>h. /\ Rising(o) /\ c \in Months /\ o[Len(o)] < c
        /\ before \in Int /\ r \in Int /\ before <= r
    BY <1>2, <1>3, <1>4, <1>6, <1>8
  <2>5. CASE Len(N) < max
    <3>1. files' = fresh /\ M = Append(N, c) /\ DOMAIN files' = E
      BY <2>2, <2>5 DEF M, E
    <3>2. \A k \in DOMAIN files : k \in E \/ (conf.periodical /\ k + 6 <= c)
      BY <1>7, <1>10
    <3>3. /\ Holding(Append(o, c), Append(N, c), E, conf.periodical, r)
          /\ Before(Append(o, c), Append(N, c)) = Before(o, N)
      <4> DEFINE D == DOMAIN files
      <4>1. /\ Holding(o, N, D, conf.periodical, before)
            /\ c \in E /\ \A k \in E : k = c \/ k \in D
            /\ \A k \in D : k \in E \/ (conf.periodical /\ k + 6 <= c)
            /\ \A k \in 1..Len(N) : MonthStart[N[k] + 1] <= before => N[k] < c
        BY <1>10, <2>1, <2>4, <3>2
      <4> HIDE DEF D, before
      <4> QED
        BY <2>h, <4>1, OneMoreHeld
    <3>4. Len(Append(N, c)) = Len(N) + 1
      BY <1>2, <2>3, OneMore
    <3>5. Enough(Append(o, c), Append(N, c), max)
      BY <2>1, <2>3, <2>5, <3>3, <3>4 DEF Enough
    <3> QED
      BY <1>10, <2>2, <3>1, <3>3, <3>5
  <2>6. CASE Len(N) = max
    <3>1. files' = Removed(fresh, N[1]) /\ M = Append(Tail(N), c)
      BY <2>2, <2>6 DEF M
    <3>2. DOMAIN files' = E \ {N[1]}
      BY <3>1 DEF Removed, E
    <3>3. /\ Holding(o, Tail(N), DOMAIN files \ {N[1]}, conf.periodical, sink.rotation)
          /\ Len(Tail(N)) = max - 1 /\ Before(o, Tail(N)) = Before(o, N) + 1
          /\ Naming(o, N, sink.rotation, 1)
      BY <1>3, <1>4, <2>1, <2>6, OldestLeft
    <3>4. N[1] # c
      <4>1. CASE Before(o, N) + 1 >= 2
        <5>1. N[1] = o[Before(o, N) + 1]
          BY <3>3, <4>1 DEF Naming
        <5>2. Before(o, N) + 1 \in 1..Len(o)
          BY <1>11, <2>1, <2>3, <2>6, <4>1
        <5>3. N[1] < c
          BY <1>11, <5>1, <5>2
        <5> QED
          BY <1>2, <5>3
      <4>2. CASE Before(o, N) + 1 < 2
        <5>1. 1 \in 1..Len(N) /\ MonthStart[N[1] + 1] <= sink.rotation
          BY <2>1, <2>3, <2>6, <3>3, <4>2 DEF Naming
        <5>2. N[1] < c
          BY <2>4, <5>1
        <5> QED
          BY <1>2, <5>2
      <4> QED
        BY <1>11, <2>3, <4>1, <4>2
    <3>5. /\ c \in DOMAIN files'
          /\ \A k \in DOMAIN files' : k = c \/ k \in DOMAIN files \ {N[1]}
          /\ \A k \in DOMAIN files \ {N[1]} : k \in DOMAIN files' \/ (conf.periodical /\ k + 6 <= c)
      BY <1>7, <1>10, <3>2, <3>4
    <3>6. \A k \in 1..Len(Tail(N)) : MonthStart[Tail(N)[k] + 1] <= sink.rotation => Tail(N)[k] < c
      <4>1. N # <<>>
        BY <2>1, <2>6
      <4>2. \A k \in 1..Len(Tail(N)) : Tail(N)[k] = N[k + 1]
        BY <2>3, <4>1, HeadTailProperties
      <4>3. \A k \in 1..Len(Tail(N)) : k + 1 \in 1..Len(N)
        BY <2>1, <2>6, <3>3
      <4> QED
        BY <2>4, <4>2, <4>3
    <3>7. /\ Holding(Append(o, c), Append(Tail(N), c), DOMAIN files', conf.periodical, r)
          /\ Before(Append(o, c), Append(Tail(N), c)) = Before(o, Tail(N))
      <4> DEFINE T == Tail(N)
      <4> DEFINE D == DOMAIN files \ {N[1]}
      <4> DEFINE G == DOMAIN files'
      <4>1. /\ Holding(o, T, D, conf.periodical, before)
            /\ c \in G /\ \A k \in G : k = c \/ k \in D
            /\ \A k \in D : k \in G \/ (conf.periodical /\ k + 6 <= c)
            /\ \A k \in 1..Len(T) : MonthStart[T[k] + 1] <= before => T[k] < c
        BY <3>3, <3>5, <3>6
      <4> HIDE DEF T, D, G, before
      <4>2. /\ Holding(Append(o, c), Append(T, c), G, conf.periodical, r)
            /\ Before(Append(o, c), Append(T, c)) = Before(o, T)
        BY <2>h, <4>1, OneMoreHeld
      <4> QED
        BY <4>2 DEF T, G
    <3>8. Len(Append(Tail(N), c)) = max
      <4>1. Tail(N) \in Seq(Months \cup {Moved})
        BY <3>3 DEF Holding
      <4> QED
        BY <1>2, <2>1, <3>3, <4>1, OneMore
    <3>9. Enough(Append(o, c), Append(Tail(N), c), max)
      BY <2>1, <3>8 DEF Enough
    <3> QED
      BY <2>2, <3>1, <3>2, <3>5, <3>7, <3>9
  <2> QED
    BY <2>1, <2>3, <2>5, <2>6
<1>13. c \in DOMAIN files' /\ DOMAIN files' \subseteq E
  <2>1. CASE max > 0
    BY <1>12, <2>1
  <2>2. CASE ~(max > 0)
    BY <1>1, <1>10, <2>2 DEF E
  <2> QED
    BY <2>1, <2>2
<1>14. pc[Main] # "opened" /\ (Ready' <=> Ready)
  BY DEF Ready
<1>15. InOrder'
  <2>1. m.time <= clock
    OBVIOUS
  <2> QED
    BY <1>1, <1>5, <1>8, <1>11, <1>13, <1>14, <1>m, <2>1 DEF InOrder
<1>16. ByCount'
  BY <1>1, <1>12 DEF ByCount, M, max
<1>17. ByAge'
  BY <1>1, <1>7, <1>10, <1>13, <1>m DEF ByAge
<1>18. NoneYounger'
  <2> SUFFICES ASSUME max = 0, NEW k \in conf.existing
               PROVE  \/ k \in DOMAIN files'
                      \/ k + 7 <= c
                      \/ k + 6 <= c /\ DayOf(m.time) > 28
    BY <1>1, <1>m DEF NoneYounger, max
  <2>1. \/ k \in DOMAIN files
        \/ k + 7 <= FileMonth
        \/ k + 6 <= FileMonth /\ DayOf(sink.stamp) > 28
    BY DEF Retention, NoneYounger, max
  <2>2. k \in Int /\ DOMAIN files' = E
    <3>1. files' = fresh /\ k \in Months
      BY <1>1, <1>3
    <3> QED
      BY <3>1, MonthsTyped DEF E
  <2>3. CASE k \in DOMAIN files
    BY <1>7, <1>10, <2>2, <2>3
  <2>4. CASE k + 6 <= FileMonth \/ k + 7 <= FileMonth
    <3>1. k + 7 <= c
      BY <1>2, <1>3, <1>6, <2>2, <2>4
    <3> QED
      BY <3>1
  <2> QED
    BY <2>1, <2>3, <2>4
<1> QED
  BY <1>15, <1>16, <1>17, <1>18 DEF Retention

(* A message that is handled rotates, fails to, or is written.              *)
LEMMA RetentionSinkIt ==
    ASSUME MInv, OfSink, Stamped, Retention, NEW w \in Workers, SinkIt(w)
    PROVE  Retention'
<1> DEFINE m == incoming[w]
<1>1. /\ Process(w, "log", "dequeue") /\ pc' = pc
      /\ RotationFails(m) \/ Rotate(m) \/ Write(m)
  BY DEF SinkIt
<1>2. Ready /\ m \in Messages /\ m \in Awaited /\ UNCHANGED <<conf, clock>>
  BY <1>1, LogTaken
<1>3. m.time <= clock
  BY <1>2 DEF Stamped
<1>4. Typed /\ Sinks /\ Rotation
  BY DEF MInv, OfSink
<1> HIDE DEF m
<1>5. CASE Rotate(m)
  BY <1>1, <1>2, <1>3, <1>4, <1>5, RetentionRotate
<1>6. CASE RotationFails(m)
  <2>1. files' = files /\ sink' = [sink EXCEPT !.open = FALSE, !.file = MonthOf(m.time)]
    BY <1>6 DEF RotationFails
  <2>2. PICK names : sink \in Sink(names)
    BY <1>4 DEF Sinks
  <2>3. /\ sink'.stamp = sink.stamp /\ sink'.opened = sink.opened /\ sink'.rotation = sink.rotation
        /\ sink'.names = sink.names /\ ~sink'.open
    BY <2>1, <2>2 DEF Sink
  <2> QED
    BY <1>1, <1>2, <2>1, <2>3, RetentionSameFiles
<1>7. CASE Write(m)
  <2>1. files' = Written(files, sink.file, m.id) /\ sink' = sink
    BY <1>7 DEF Write
  <2>2. DOMAIN files' = DOMAIN files
    BY <2>1 DEF Written
  <2> QED
    BY <1>1, <1>2, <2>1, <2>2, RetentionSameFiles
<1> QED
  BY <1>1, <1>5, <1>6, <1>7

(* Which files are there is an invariant, given that of the messages and    *)
(* the sink.                                                                *)
LEMMA RetentionStep == IInv /\ IInv' /\ Retention /\ [Next]_vars => Retention'
<1> SUFFICES ASSUME IInv, IInv', Retention, [Next]_vars PROVE Retention'
  OBVIOUS
<1>1. MInv /\ MInv' /\ OfSink /\ Stamped /\ Typed /\ Sinks
  BY DEF IInv, MInv, OfSink
<1>2. clock <= clock'
  BY <1>1, AwaitedTimes
<1>3. clock' \in Int
  BY <1>1, <1>2, ClockTyped DEF CalendarDays
<1>4. \/ OpenFirst \/ ConstructSink \/ Restart
      \/ \E w \in Workers : SinkIt(w)
      \/ Aside
  BY <1>1, OtherSteps
<1> QED
  BY <1>1, <1>2, <1>3, <1>4, RetentionOpenFirst, RetentionConstruct, RetentionRestart,
     RetentionSinkIt, RetentionAside

(* Of the files that rotations opened, those before the names are gone.     *)
LEMMA AtMostMaxFiles ==
    ASSUME NEW o, Rising(o), NEW N, NEW D, NEW max \in Nat, NEW periodical, NEW r,
           Holding(o, N, D, periodical, r), Enough(o, N, max)
    PROVE  Cardinality({o[k] : k \in 2..Len(o)} \cap D) <= max
<1>1. Len(o) \in Nat \ {0} /\ Len(N) \in 0..max /\ Before(o, N) = Len(o) - Len(N)
  BY DEF Rising, Enough, Before
<1> DEFINE b == Before(o, N)
<1> DEFINE Late == {k \in 1..Len(o) : b < k}
<1>2. {o[k] : k \in 2..Len(o)} \cap D \subseteq {o[k] : k \in Late}
  <2> SUFFICES ASSUME NEW k \in 2..Len(o), o[k] \in D PROVE k \in Late
    OBVIOUS
  <2>1. Counting(o, N, D, periodical, k)
    BY DEF Holding
  <2> QED
    BY <1>1, <2>1 DEF Counting
<1>3. \E a \in Int : Late = a..Len(o) /\ Len(o) - a + 1 <= Len(N) /\ a \in Int
  <2>1. CASE b <= 0
    <3>1. Late = 1..Len(o)
      BY <1>1, <2>1
    <3>2. Len(o) - 1 + 1 <= Len(N)
      BY <1>1, <2>1
    <3> QED
      BY <3>1, <3>2
  <2>2. CASE b > 0
    <3>1. Late = (b + 1)..Len(o)
      BY <1>1, <2>2
    <3>2. Len(o) - (b + 1) + 1 <= Len(N) /\ b + 1 \in Int
      BY <1>1, <2>2
    <3> HIDE DEF b, Late
    <3> QED
      BY <3>1, <3>2
  <2> QED
    BY <1>1, <2>1, <2>2
<1>4. PICK a \in Int : Late = a..Len(o) /\ Len(o) - a + 1 <= Len(N)
  BY <1>3
<1> HIDE DEF Late, b
<1>5. IsFiniteSet(Late) /\ Cardinality(Late) <= max
  <2> DEFINE z == Len(o)
  <2>1. a \in Int /\ z \in Int /\ Late = a..z
    BY <1>1, <1>4
  <2>2. z - a + 1 <= max
    BY <1>1, <1>4
  <2> HIDE DEF z
  <2>3. IsFiniteSet(Late) /\ Cardinality(Late) = IF a > z THEN 0 ELSE z - a + 1
    BY <2>1, FS_Interval
  <2> QED
    BY <2>1, <2>2, <2>3
<1> DEFINE G == {o[k] : k \in Late}
<1>6. IsFiniteSet(G) /\ Cardinality(G) <= Cardinality(Late)
  <2> DEFINE g == [k \in Late |-> o[k]]
  <2>1. g \in Surjection(Late, G)
    BY DEF Surjection
  <2> HIDE DEF g, G
  <2> QED
    BY <1>5, <2>1, FS_Surjection
<1> HIDE DEF G
<1> DEFINE H == {o[k] : k \in 2..Len(o)} \cap D
<1>7. H \subseteq G
  BY <1>2 DEF G
<1> HIDE DEF H
<1>8. Cardinality(H) <= Cardinality(G)
  BY <1>6, <1>7, FS_Subset
<1>9. /\ Cardinality(H) \in Nat /\ Cardinality(G) \in Nat /\ Cardinality(Late) \in Nat
  BY <1>5, <1>6, <1>7, FS_Subset, FS_CardinalityType
<1>10. Cardinality(H) <= max
  BY <1>5, <1>6, <1>8, <1>9
<1> QED
  BY <1>10 DEF H

(* It says which files there are.                                           *)
LEMMA RightFilesThere == IInv /\ Retention => TheRightFilesKept
<1> SUFFICES ASSUME IInv, Retention PROVE TheRightFilesKept
  OBVIOUS
<1>1. Typed /\ Sinks /\ InOrder /\ ByCount /\ ByAge /\ NoneYounger
  BY DEF IInv, MInv, OfSink, Retention
<1> DEFINE o == sink.opened
<1> DEFINE N == Items(sink.names)
<1> DEFINE D == DOMAIN files
<1> DEFINE max == conf.max_files
<1>2. /\ Rising(o) /\ o[Len(o)] = FileMonth /\ Len(o) \in Nat \ {0} /\ DOMAIN o = 1..Len(o)
      /\ max \in Nat
      /\ max > 0 => /\ Holding(o, N, D, conf.periodical, sink.rotation)
                    /\ Enough(o, N, max)
  <2>1. conf \in Configurations
    BY <1>1 DEF Typed
  <2>2. Rising(o) /\ o[Len(o)] = FileMonth /\ Len(o) \in Nat \ {0} /\ o \in Seq(Months)
    BY <1>1 DEF InOrder, Rising
  <2> QED
    BY <1>1, <2>1, <2>2, SinkConfigured, LenProperties DEF ByCount
<1>3. CurrentFileExists
  BY <1>1 DEF InOrder, CurrentFileExists
<1>4. NoMoreThanMaxFiles
  <2> SUFFICES ASSUME max > 0 PROVE Cardinality(Last(Len(o) - 1) \cap D) <= max
    BY DEF NoMoreThanMaxFiles
  <2>1. Last(Len(o) - 1) = {o[k] : k \in 2..Len(o)}
    <3>1. {j \in DOMAIN o : j > Len(o) - (Len(o) - 1)} = 2..Len(o)
      BY <1>2
    <3> QED
      BY <3>1 DEF Last
  <2> HIDE DEF o, N, D, max
  <2> QED
    BY <1>2, <2>1, AtMostMaxFiles
<1>5. LastFilesKept
  <2> SUFFICES ASSUME max > 0, Len(o) > max, NEW k \in DOMAIN o, k > Len(o) - max
               PROVE  o[k] \in D \/ (conf.periodical /\ o[k] + 6 <= FileMonth)
    BY DEF LastFilesKept, Last, FileMonth
  <2>1. k \in 2..Len(o) /\ ~(k <= Before(o, N))
    <3>1. Before(o, N) = Len(o) - Len(N) /\ Len(N) \in 0..max /\ (Len(N) = max \/ Before(o, N) <= 1)
      BY <1>2 DEF Enough, Before
    <3> HIDE DEF o, N, max
    <3> QED
      BY <1>2, <3>1
  <2>2. Counting(o, N, D, conf.periodical, k)
    BY <1>2, <2>1 DEF Holding
  <2> QED
    BY <1>2, <2>1, <2>2 DEF Counting
<1>6. SevenMonthsKept
  <2> SUFFICES ASSUME conf.periodical, Ready, DayOf(sink.stamp) <= 28
               PROVE  /\ FileMonth - 7 \notin D
                      /\ max = 0 => conf.existing \cap ((FileMonth - 6)..FileMonth) \subseteq D
    BY DEF SevenMonthsKept, Ready, FileMonth
  <2>1. FileMonth \in Int /\ DayOf(sink.stamp) \in Int
    BY <1>1, SinkTyped
  <2>2. ASSUME max = 0, NEW m \in conf.existing, m \in (FileMonth - 6)..FileMonth PROVE m \in D
    BY <1>1, <2>1, <2>2 DEF NoneYounger
  <2> QED
    BY <1>1, <2>2 DEF ByAge
<1> QED
  BY <1>3, <1>4, <1>5, <1>6 DEF TheRightFilesKept

(* The sink deletes the files it should and no others: never the one it     *)
(* writes to; of those rotations opened all but the last max_files; the     *)
(* periodical sink those of seven months ago, and no younger one.           *)
THEOREM FilesKept == Spec => []TheRightFilesKept
<1>1. Init => Retention
  BY RetentionInit
<1>2. IInv /\ IInv' /\ Retention /\ [Next]_vars => Retention'
  BY RetentionStep
<1>3. IInv /\ Retention => TheRightFilesKept
  BY RightFilesThere
<1> QED
  BY <1>1, <1>2, <1>3, Invariant, PTL DEF Spec
=============================================================================
