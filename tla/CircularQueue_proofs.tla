------------------------ MODULE CircularQueue_proofs ------------------------
(***************************************************************************)
(* What the operations of CircularQueue do to the elements, for a queue of  *)
(* any size over any set: the indices that go round stand for a sequence.   *)
(***************************************************************************)
EXTENDS CircularQueue, SequenceTheorems, TLAPS

(* A circular_q of n slots over V. *)
Circular(n, V) ==
    [max_items : {n}, head : 0..(n - 1), tail : 0..(n - 1), overrun_counter : Nat,
     v : [0..(n - 1) -> V]]

Follow(n, i) == IF i + 1 = n THEN 0 ELSE i + 1

LEMMA GoesRound ==
    ASSUME NEW n \in Nat \ {0}, NEW i \in 0..(n - 1)
    PROVE  (i + 1) % n = Follow(n, i) /\ Follow(n, i) \in 0..(n - 1)
BY SMT DEF Follow

(* The slot of element i, and the number of elements, from the indices. *)
At(n, h, i) == IF h + i - 1 < n THEN h + i - 1 ELSE h + i - 1 - n

Between(n, h, t) == IF t >= h THEN t - h ELSE n - (h - t)

LEMMA Position ==
    ASSUME NEW n \in Nat \ {0}, NEW h \in 0..(n - 1), NEW i \in 1..n
    PROVE  (h + i - 1) % n = At(n, h, i) /\ At(n, h, i) \in 0..(n - 1)
<1>1. ASSUME NEW a \in Nat, a < n PROVE a % n = a
  BY <1>1, SMT
<1>2. ASSUME NEW a \in Nat, n <= a, a < 2 * n PROVE a % n = a - n
  BY <1>2, SMT
<1>3. h + i - 1 \in Nat /\ h + i - 1 < 2 * n
  BY SMT
<1>4. (h + i - 1) % n = At(n, h, i)
  BY <1>1, <1>2, <1>3, SMT DEF At
<1> QED
  BY <1>4, SMT DEF At

LEMMA Indices ==
    ASSUME NEW n \in Nat \ {0}, NEW h \in 0..(n - 1), NEW t \in 0..(n - 1)
    PROVE  /\ Between(n, h, t) \in 0..(n - 1)
           /\ Follow(n, t) # h => /\ Between(n, h, Follow(n, t)) = Between(n, h, t) + 1
                                  /\ Between(n, h, t) < n - 1
           /\ Follow(n, t) = h => Between(n, h, t) = n - 1
           /\ t # h => /\ Between(n, h, t) > 0
                       /\ Between(n, Follow(n, h), t) = Between(n, h, t) - 1
           /\ At(n, h, Between(n, h, t) + 1) = t
           /\ \A i \in 1..Between(n, h, t) : At(n, h, i) # t
           /\ \A i \in 1..(n - 1) : /\ At(n, Follow(n, h), i) = At(n, h, i + 1)
                                    /\ At(n, h, i + 1) # h
BY SMT DEF Between, Follow, At

LEMMA Listed ==
    ASSUME NEW S, NEW k \in Nat, NEW f \in [1..k -> S]
    PROVE  f \in Seq(S) /\ Len(f) = k
<1>1. f \in Seq(S)
  BY SeqDef
<1>2. DOMAIN f = 1..Len(f) /\ Len(f) \in Nat
  BY <1>1, LenProperties
<1>3. 1..Len(f) = 1..k
  BY <1>2
<1> QED
  BY <1>1, <1>2, <1>3, SMT

(* One step on from the head, in both directions. *)
LEMMA StepOn ==
    ASSUME NEW n \in Nat \ {0}, NEW h \in 0..(n - 1), NEW i \in 1..(n - 1)
    PROVE  At(n, Follow(n, h), i) = At(n, h, i + 1) /\ At(n, h, i + 1) # h
BY SMT DEF Follow, At

LEMMA NewQueue ==
    ASSUME NEW m \in Nat
    PROVE  /\ circular_q(m) \in Circular(m + 1, {Moved})
           /\ Items(circular_q(m)) = <<>>
           /\ circular_q(m).overrun_counter = 0
<1> DEFINE q == circular_q(m)
<1>1. size(q) = 0
  BY DEF size, circular_q
<1>2. Items(q) = <<>>
  <2>1. Items(q) \in [1..0 -> {}]
    BY <1>1 DEF Items
  <2>2. Items(q) \in Seq({}) /\ Len(Items(q)) = 0
    BY <2>1, Listed
  <2> QED
    BY <2>2, EmptySeq
<1>3. q \in Circular(m + 1, {Moved})
  <2>1. 0 \in 0..m /\ m + 1 - 1 = m
    BY SMT
  <2> QED
    BY <2>1 DEF Circular, circular_q
<1>4. q.overrun_counter = 0
  BY DEF circular_q
<1> QED
  BY <1>2, <1>3, <1>4

LEMMA ItemsTyped ==
    ASSUME NEW n \in Nat \ {0}, NEW V, NEW q \in Circular(n, V)
    PROVE  /\ size(q) = Between(n, q.head, q.tail) /\ size(q) \in 0..(n - 1)
           /\ Items(q) \in Seq(V) /\ Len(Items(q)) = size(q)
           /\ \A i \in 1..size(q) : Items(q)[i] = q.v[At(n, q.head, i)]
<1>1. /\ q.max_items = n /\ q.head \in 0..(n - 1) /\ q.tail \in 0..(n - 1)
      /\ q.v \in [0..(n - 1) -> V]
  BY DEF Circular
<1>2. size(q) = Between(n, q.head, q.tail) /\ size(q) \in 0..(n - 1)
  BY <1>1, SMT DEF size, Between
<1>3. \A i \in 1..size(q) :
         (q.head + i - 1) % n = At(n, q.head, i) /\ At(n, q.head, i) \in 0..(n - 1)
  <2> SUFFICES ASSUME NEW i \in 1..size(q)
               PROVE  (q.head + i - 1) % n = At(n, q.head, i) /\ At(n, q.head, i) \in 0..(n - 1)
    OBVIOUS
  <2>1. i \in 1..n
    BY <1>2, SMT
  <2> QED
    BY <1>1, <2>1, Position
<1>4. Items(q) = [i \in 1..size(q) |-> q.v[(q.head + i - 1) % n]]
  BY <1>1 DEF Items
<1>5. Items(q) \in [1..size(q) -> V]
  BY <1>1, <1>3, <1>4
<1>6. Items(q) \in Seq(V) /\ Len(Items(q)) = size(q)
  BY <1>2, <1>5, Listed
<1> QED
  BY <1>2, <1>3, <1>4, <1>6

LEMMA Listing ==
    ASSUME NEW n \in Nat \ {0}, NEW V, NEW q \in Circular(n, V)
    PROVE  \A j \in 1..size(q) : Items(q)[j] = q.v[At(n, q.head, j)]
BY ItemsTyped, Zenon

LEMMA Widened ==
    ASSUME NEW n, NEW V, NEW W, V \subseteq W, NEW q \in Circular(n, V)
    PROVE  q \in Circular(n, W)
BY DEF Circular

LEMMA Pushed ==
    ASSUME NEW n \in Nat \ {0}, NEW V, NEW q \in Circular(n, V), NEW item \in V
    PROVE  /\ push_back(q, item) \in Circular(n, V)
           /\ push_back(q, item).tail = Follow(n, q.tail)
           /\ push_back(q, item).v = [q.v EXCEPT ![q.tail] = item]
           /\ Follow(n, q.tail) = q.head =>
                 /\ push_back(q, item).head = Follow(n, q.head)
                 /\ push_back(q, item).overrun_counter = q.overrun_counter + 1
           /\ Follow(n, q.tail) # q.head =>
                 /\ push_back(q, item).head = q.head
                 /\ push_back(q, item).overrun_counter = q.overrun_counter
           /\ full(q) <=> Follow(n, q.tail) = q.head
<1>1. /\ q.head \in 0..(n - 1) /\ q.tail \in 0..(n - 1) /\ q.max_items = n
      /\ q.overrun_counter \in Nat /\ q.v \in [0..(n - 1) -> V]
  BY DEF Circular
<1>2. After(q, q.tail) = Follow(n, q.tail) /\ After(q, q.head) = Follow(n, q.head)
  BY <1>1, GoesRound DEF After
<1>3. Follow(n, q.tail) \in 0..(n - 1) /\ Follow(n, q.head) \in 0..(n - 1)
  BY <1>1, GoesRound
<1>4. [q.v EXCEPT ![q.tail] = item] \in [0..(n - 1) -> V]
  BY <1>1
<1> DEFINE o == IF Follow(n, q.tail) = q.head THEN q.overrun_counter + 1 ELSE q.overrun_counter
<1> DEFINE h == IF Follow(n, q.tail) = q.head THEN Follow(n, q.head) ELSE q.head
<1> DEFINE t == Follow(n, q.tail)
<1> DEFINE v == [q.v EXCEPT ![q.tail] = item]
<1> DEFINE p == [q EXCEPT !.v = v, !.tail = t, !.head = h, !.overrun_counter = o]
<1>6. push_back(q, item) = p
  BY <1>2 DEF push_back
<1>7. o \in Nat /\ h \in 0..(n - 1) /\ t \in 0..(n - 1) /\ v \in [0..(n - 1) -> V]
  BY <1>1, <1>3, <1>4
<1>8. p \in Circular(n, V) /\ p.v = v /\ p.tail = t /\ p.head = h /\ p.overrun_counter = o
  <2> HIDE DEF o, h, t, v
  <2> QED
    BY <1>7 DEF Circular
<1>9. full(q) <=> Follow(n, q.tail) = q.head
  BY <1>2 DEF full
<1> HIDE DEF p
<1> QED
  BY <1>6, <1>8, <1>9

LEMMA Popped ==
    ASSUME NEW n \in Nat \ {0}, NEW V, NEW q \in Circular(n, V), Moved \in V
    PROVE  /\ pop_front(q) \in Circular(n, V)
           /\ pop_front(q).tail = q.tail
           /\ pop_front(q).overrun_counter = q.overrun_counter
           /\ pop_front(q).v = [q.v EXCEPT ![q.head] = Moved]
           /\ pop_front(q).head = Follow(n, q.head)
<1>1. q.head \in 0..(n - 1) /\ q.max_items = n
  BY DEF Circular
<1>2. After(q, q.head) = Follow(n, q.head) /\ Follow(n, q.head) \in 0..(n - 1)
  BY <1>1, GoesRound DEF After
<1> QED
  BY <1>1, <1>2 DEF pop_front, Circular

(* With room, an element is appended. *)
LEMMA PushAppends ==
    ASSUME NEW n \in Nat \ {0}, NEW V, NEW q \in Circular(n, V), NEW item \in V, ~full(q)
    PROVE  /\ size(q) < n - 1
           /\ Items(push_back(q, item)) = Append(Items(q), item)
           /\ push_back(q, item).overrun_counter = q.overrun_counter
<1> DEFINE p == push_back(q, item)
<1>1. /\ p \in Circular(n, V) /\ p.tail = Follow(n, q.tail)
      /\ p.v = [q.v EXCEPT ![q.tail] = item]
      /\ p.head = q.head /\ p.overrun_counter = q.overrun_counter /\ Follow(n, q.tail) # q.head
  BY Pushed
<1> HIDE DEF p
<1>2. q.head \in 0..(n - 1) /\ q.tail \in 0..(n - 1) /\ q.v \in [0..(n - 1) -> V]
  BY DEF Circular
<1>3. size(q) = Between(n, q.head, q.tail) /\ size(p) = Between(n, q.head, Follow(n, q.tail))
  <2>1. size(q) = Between(n, q.head, q.tail) /\ size(p) = Between(n, p.head, p.tail)
    BY <1>1, ItemsTyped
  <2> QED
    BY <2>1, <1>1, Zenon
<1>4. /\ size(p) = size(q) + 1 /\ size(q) < n - 1 /\ size(q) \in 0..(n - 1)
      /\ At(n, q.head, size(q) + 1) = q.tail
      /\ \A i \in 1..size(q) : At(n, q.head, i) # q.tail
  <2>1. /\ Between(n, q.head, q.tail) \in 0..(n - 1)
        /\ Between(n, q.head, Follow(n, q.tail)) = Between(n, q.head, q.tail) + 1
        /\ Between(n, q.head, q.tail) < n - 1
        /\ At(n, q.head, Between(n, q.head, q.tail) + 1) = q.tail
        /\ \A i \in 1..Between(n, q.head, q.tail) : At(n, q.head, i) # q.tail
    <3>1. q.head \in 0..(n - 1) /\ q.tail \in 0..(n - 1) /\ Follow(n, q.tail) # q.head
      BY <1>1, <1>2
    <3> DEFINE h == q.head
    <3> DEFINE t == q.tail
    <3>2. h \in 0..(n - 1) /\ t \in 0..(n - 1) /\ Follow(n, t) # h
      BY <3>1
    <3> HIDE DEF h, t
    <3>3. /\ Between(n, h, t) \in 0..(n - 1)
          /\ Between(n, h, Follow(n, t)) = Between(n, h, t) + 1
          /\ Between(n, h, t) < n - 1
          /\ At(n, h, Between(n, h, t) + 1) = t
          /\ \A i \in 1..Between(n, h, t) : At(n, h, i) # t
      BY <3>2, Indices
    <3> QED
      BY <3>3 DEF h, t
  <2> QED
    BY <2>1, <1>3, Zenon
<1>5. Items(q) \in Seq(V) /\ Len(Items(q)) = size(q)
  BY ItemsTyped
<1>6. Items(p) \in Seq(V) /\ Len(Items(p)) = size(q) + 1
  BY <1>1, <1>4, ItemsTyped
<1> DEFINE a == Append(Items(q), item)
<1>7. /\ a \in Seq(V) /\ Len(a) = size(q) + 1 /\ a[size(q) + 1] = item
      /\ \A i \in 1..size(q) : a[i] = Items(q)[i]
  BY <1>5, AppendProperties
<1> HIDE DEF a
<1>8. ASSUME NEW i \in 1..(size(q) + 1) PROVE Items(p)[i] = a[i]
  <2>1. Items(p)[i] = p.v[At(n, q.head, i)]
    <3>1. Items(p)[i] = p.v[At(n, p.head, i)]
      <4>1. i \in 1..size(p)
        BY <1>4, SMT
      <4>2. p \in Circular(n, V)
        BY <1>1
      <4>3. \A j \in 1..size(p) : Items(p)[j] = p.v[At(n, p.head, j)]
        BY <4>2, Listing, Zenon
      <4> QED
        BY <4>1, <4>3, Zenon
    <3> QED
      BY <3>1, <1>1, Zenon
  <2>2. CASE i = size(q) + 1
    BY <2>1, <2>2, <1>1, <1>2, <1>4, <1>7
  <2>3. CASE i # size(q) + 1
    <3>1. i \in 1..size(q) /\ i \in 1..n
      BY <2>3, <1>4, SMT
    <3>2. At(n, q.head, i) \in 0..(n - 1) /\ At(n, q.head, i) # q.tail
      BY <3>1, <1>2, <1>4, Position
    <3>3. Items(q)[i] = q.v[At(n, q.head, i)]
      BY <3>1, ItemsTyped
    <3> QED
      BY <2>1, <3>1, <3>2, <3>3, <1>1, <1>2, <1>7
  <2> QED
    BY <2>2, <2>3
<1> QED
  BY <1>1, <1>4, <1>6, <1>7, <1>8, SeqEqual DEF p, a

(* The oldest element leaves. *)
LEMMA PopTakesFirst ==
    ASSUME NEW n \in Nat \ {0}, NEW V, NEW q \in Circular(n, V), Moved \in V, ~empty(q)
    PROVE  /\ Items(q) # <<>>
           /\ Items(pop_front(q)) = Tail(Items(q))
           /\ pop_front(q).overrun_counter = q.overrun_counter
<1>0. /\ pop_front(q) \in Circular(n, V)
      /\ pop_front(q).tail = q.tail
      /\ pop_front(q).overrun_counter = q.overrun_counter
      /\ pop_front(q).v = [q.v EXCEPT ![q.head] = Moved]
      /\ pop_front(q).head = Follow(n, q.head)
  BY Popped, Zenon
<1> DEFINE p == pop_front(q)
<1>1. /\ p \in Circular(n, V) /\ p.tail = q.tail /\ p.overrun_counter = q.overrun_counter
      /\ p.v = [q.v EXCEPT ![q.head] = Moved] /\ p.head = Follow(n, q.head)
  BY <1>0, Zenon
<1> HIDE DEF p
<1>2. /\ q.head \in 0..(n - 1) /\ q.tail \in 0..(n - 1) /\ q.v \in [0..(n - 1) -> V]
      /\ q.tail # q.head
  BY DEF Circular, empty
<1>3. size(q) = Between(n, q.head, q.tail) /\ size(p) = Between(n, Follow(n, q.head), q.tail)
  <2>1. size(q) = Between(n, q.head, q.tail) /\ size(p) = Between(n, p.head, p.tail)
    BY <1>1, ItemsTyped
  <2> QED
    BY <2>1, <1>1, Zenon
<1>4. size(p) = size(q) - 1 /\ size(q) > 0 /\ size(q) \in 0..(n - 1)
  <2> DEFINE h == q.head
  <2> DEFINE t == q.tail
  <2>1. h \in 0..(n - 1) /\ t \in 0..(n - 1) /\ t # h
    BY <1>2
  <2>2. size(q) = Between(n, h, t) /\ size(p) = Between(n, Follow(n, h), t)
    BY <1>3
  <2> HIDE DEF h, t
  <2>3. Between(n, h, t) \in 0..(n - 1)
    BY <2>1, Indices
  <2>4. Between(n, h, t) > 0 /\ Between(n, Follow(n, h), t) = Between(n, h, t) - 1
    BY <2>1, Indices
  <2> QED
    BY <2>2, <2>3, <2>4
<1>5. Items(q) \in Seq(V) /\ Len(Items(q)) = size(q)
  BY ItemsTyped
<1>6. Items(q) # <<>>
  BY <1>4, <1>5, EmptySeq
<1>7. Items(p) \in Seq(V) /\ Len(Items(p)) = size(q) - 1
  BY <1>1, <1>4, ItemsTyped
<1> DEFINE a == Tail(Items(q))
<1>8. /\ a \in Seq(V) /\ Len(a) = size(q) - 1
      /\ \A i \in 1..(size(q) - 1) : a[i] = Items(q)[i + 1]
  BY <1>5, <1>6, HeadTailProperties
<1> HIDE DEF a
<1>9. ASSUME NEW i \in 1..(size(q) - 1) PROVE Items(p)[i] = a[i]
  <2>1. i + 1 \in 1..size(q) /\ i + 1 \in 1..n /\ i \in 1..(n - 1)
    BY <1>4, SMT
  <2>2. Items(q)[i + 1] = q.v[At(n, q.head, i + 1)]
    BY <2>1, ItemsTyped
  <2>3. Items(p)[i] = p.v[At(n, Follow(n, q.head), i)]
    <3>1. Items(p)[i] = p.v[At(n, p.head, i)]
      <4>1. i \in 1..size(p)
        BY <1>4, SMT
      <4>2. p \in Circular(n, V)
        BY <1>1
      <4>3. \A j \in 1..size(p) : Items(p)[j] = p.v[At(n, p.head, j)]
        BY <4>2, Listing, Zenon
      <4> QED
        BY <4>1, <4>3, Zenon
    <3> QED
      BY <3>1, <1>1, Zenon
  <2>4. /\ At(n, Follow(n, q.head), i) = At(n, q.head, i + 1)
        /\ At(n, q.head, i + 1) # q.head
    BY <2>1, <1>2, StepOn
  <2>5. At(n, q.head, i + 1) \in 0..(n - 1)
    BY <2>1, <1>2, Position
  <2> QED
    BY <2>2, <2>3, <2>4, <2>5, <1>1, <1>2, <1>8
<1> QED
  BY <1>1, <1>6, <1>7, <1>8, <1>9, SeqEqual DEF p, a

(* Without room, the oldest element is overrun. *)
LEMMA PushOverruns ==
    ASSUME NEW n \in Nat \ {0, 1}, NEW V, NEW q \in Circular(n, V), NEW item \in V, full(q)
    PROVE  /\ Len(Items(q)) = n - 1
           /\ Items(push_back(q, item)) = Append(Tail(Items(q)), item)
           /\ push_back(q, item).overrun_counter = q.overrun_counter + 1
<1>0. n \in Nat \ {0}
  OBVIOUS
<1> DEFINE p == push_back(q, item)
<1>1. /\ p \in Circular(n, V) /\ p.tail = Follow(n, q.tail)
      /\ p.v = [q.v EXCEPT ![q.tail] = item] /\ Follow(n, q.tail) = q.head
      /\ p.head = Follow(n, q.head) /\ p.overrun_counter = q.overrun_counter + 1
  BY Pushed
<1> HIDE DEF p
<1>2. q.head \in 0..(n - 1) /\ q.tail \in 0..(n - 1) /\ q.v \in [0..(n - 1) -> V]
  BY DEF Circular
<1>3. size(q) = Between(n, q.head, q.tail) /\ size(p) = Between(n, Follow(n, q.head), q.head)
  <2>1. size(q) = Between(n, q.head, q.tail) /\ size(p) = Between(n, p.head, p.tail)
    BY <1>0, <1>1, ItemsTyped
  <2> QED
    BY <2>1, <1>1, Zenon
<1>4. size(q) = n - 1 /\ size(p) = n - 1
  BY <1>1, <1>2, <1>3, SMT DEF Between, Follow
<1>5. Items(q) \in Seq(V) /\ Len(Items(q)) = n - 1
  BY <1>4, ItemsTyped
<1>6. Items(q) # <<>>
  BY <1>5, EmptySeq
<1>7. Items(p) \in Seq(V) /\ Len(Items(p)) = n - 1
  BY <1>1, <1>4, ItemsTyped
<1>8. /\ Tail(Items(q)) \in Seq(V) /\ Len(Tail(Items(q))) = n - 2
      /\ \A i \in 1..(n - 2) : Tail(Items(q))[i] = Items(q)[i + 1]
  BY <1>5, <1>6, HeadTailProperties
<1> DEFINE a == Append(Tail(Items(q)), item)
<1>9. /\ a \in Seq(V) /\ Len(a) = n - 1 /\ a[n - 1] = item
      /\ \A i \in 1..(n - 2) : a[i] = Items(q)[i + 1]
  BY <1>8, AppendProperties
<1> HIDE DEF a
<1>10. ASSUME NEW i \in 1..(n - 1) PROVE Items(p)[i] = a[i]
  <2>1. Items(p)[i] = p.v[At(n, q.head, i + 1)]
    <3>1. Items(p)[i] = p.v[At(n, p.head, i)]
      <4>1. i \in 1..size(p)
        BY <1>4, SMT
      <4>2. p \in Circular(n, V)
        BY <1>1
      <4>3. \A j \in 1..size(p) : Items(p)[j] = p.v[At(n, p.head, j)]
        BY <1>0, <4>2, Listing, Zenon
      <4> QED
        BY <4>1, <4>3, Zenon
    <3>2. At(n, Follow(n, q.head), i) = At(n, q.head, i + 1)
      BY <1>2, StepOn
    <3> QED
      BY <3>1, <3>2, <1>1, Zenon
  <2>2. CASE i = n - 1
    <3>1. At(n, q.head, n) = q.tail
      BY <1>1, <1>2, SMT DEF At, Follow
    <3>2. i + 1 = n
      BY <2>2, SMT
    <3> QED
      BY <2>1, <2>2, <3>1, <3>2, <1>1, <1>2, <1>9
  <2>3. CASE i # n - 1
    <3>1. i \in 1..(n - 2) /\ i + 1 \in 1..(n - 1) /\ i + 1 \in 1..n
      BY <2>3, SMT
    <3>2. At(n, q.head, i + 1) \in 0..(n - 1)
      BY <3>1, <1>2, Position
    <3>3. At(n, q.head, i + 1) # q.tail
      BY <3>1, <1>1, <1>2, SMT DEF At, Follow
    <3>4. Items(q)[i + 1] = q.v[At(n, q.head, i + 1)]
      <4>1. i + 1 \in 1..size(q)
        BY <3>1, <1>4
      <4>2. \A j \in 1..size(q) : Items(q)[j] = q.v[At(n, q.head, j)]
        BY <1>0, Listing, Zenon
      <4> QED
        BY <4>1, <4>2, Zenon
    <3> QED
      BY <2>1, <3>1, <3>2, <3>3, <3>4, <1>1, <1>2, <1>9
  <2> QED
    BY <2>2, <2>3
<1> QED
  BY <1>1, <1>5, <1>7, <1>9, <1>10, SeqEqual DEF p, a
=============================================================================
